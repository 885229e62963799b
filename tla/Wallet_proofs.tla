---------------------------- MODULE Wallet_proofs ----------------------------
(***************************************************************************)
(* What holds of the transactions of a BRWallet for any transactions, any  *)
(* chain and any order of calls: which coins it offers, and which spends   *)
(* it lets count.                                                          *)
(***************************************************************************)
EXTENDS Wallet, FiniteSetTheorems, SequenceTheorems, WellFoundedInduction, TLAPS

----------------------------------------------------------------------------
(* Numbers. *)

LEMMA Least ==
  ASSUME NEW T, T \subseteq Nat, T # {}
  PROVE  \E x \in T : \A y \in T : x <= y
<1> DEFINE R == OpToRel(<, Nat)
<1>1. IsWellFoundedOn(R, Nat)
  BY NatLessThanWellFounded
<1>2. \A a, b \in Nat : a < b => <<a, b>> \in R
  BY DEF OpToRel
<1> HIDE DEF R
<1>3. PICK x \in T : \A y \in T : ~ (<<y, x>> \in R)
  BY <1>1, WFMin
<1>4. \A y \in T : ~ (y < x)
  BY <1>2, <1>3
<1> QED
  BY <1>4

(* What holds at 0 and with each number at the next holds up to M.         *)
LEMMA Climb ==
  ASSUME NEW M \in Nat, NEW T, 0 \in T, \A n \in 1..M : n - 1 \in T => n \in T
  PROVE  \A n \in 0..M : n \in T
<1> DEFINE B == {n \in 0..M : n \notin T}
<1>1. SUFFICES ASSUME B # {} PROVE FALSE
  OBVIOUS
<1>2. PICK x \in B : \A y \in B : x <= y
  <2>1. B \subseteq Nat
    OBVIOUS
  <2> HIDE DEF B
  <2> QED
    BY <1>1, <2>1, Least
<1>3. x \in 1..M /\ x - 1 \in 0..M /\ ~ (x <= x - 1)
  BY <1>2
<1> QED
  BY <1>2, <1>3

LEMMA Greatest ==
  ASSUME NEW n \in Nat, NEW T, T \subseteq 0..n, T # {}
  PROVE  Max(T) \in T /\ \A y \in T : y <= Max(T)
<1> DEFINE B == {n - y : y \in T}
<1>1. B \subseteq Nat /\ B # {}
  <2>1. \A y \in T : n - y \in Nat
    OBVIOUS
  <2> QED
    BY <2>1
<1>2. PICK b \in B : \A z \in B : b <= z
  <2> HIDE DEF B
  <2> QED
    BY <1>1, Least
<1>3. PICK x \in T : b = n - x
  BY <1>2
<1>4. ASSUME NEW y \in T PROVE x >= y
  <2>1. n - y \in B
    OBVIOUS
  <2>2. n - x <= n - y
    BY <1>2, <1>3, <2>1
  <2>3. x \in 0..n /\ y \in 0..n
    OBVIOUS
  <2> QED
    BY <2>2, <2>3
<1>5. Max(T) \in T /\ \A y \in T : Max(T) >= y
  BY <1>4 DEF Max
<1> QED
  BY <1>5

(* f has the values that M steps from a pass through.                      *)
Iteration(f, S, a, step, M) ==
    f \in [0..M -> S] /\ f[0] = a /\ \A n \in 1..M : f[n] = step[f[n - 1]]

LEMMA Iterates ==
  ASSUME NEW S, NEW a \in S, NEW step \in [S -> S], NEW M \in Nat
  PROVE  \E f : Iteration(f, S, a, step, M)
<1> DEFINE Upto(k, f) == f \in [0..k -> S] /\ f[0] = a /\ \A n \in 1..k : f[n] = step[f[n - 1]]
           T == {k \in Nat : ~ \E f : Upto(k, f)}
<1>1. SUFFICES ASSUME T # {} PROVE FALSE
  BY DEF T, Upto, Iteration
<1>2. PICK k \in T : \A j \in T : k <= j
  BY <1>1, Least
<1>3. Upto(0, [n \in 0..0 |-> a])
  OBVIOUS
<1>4. k # 0
  <2> HIDE DEF Upto
  <2>1. 0 \notin T
    BY <1>3
  <2> QED
    BY <1>2, <2>1
<1>5. PICK g : Upto(k - 1, g)
  <2>1. k - 1 \in Nat /\ ~ (k <= k - 1)
    BY <1>2, <1>4
  <2>2. k - 1 \notin T
    BY <1>2, <2>1
  <2> QED
    BY <2>1, <2>2
<1> DEFINE f == [n \in 0..k |-> IF n = k THEN step[g[k - 1]] ELSE g[n]]
<1>6. f \in [0..k -> S] /\ f[0] = a
  BY <1>2, <1>4, <1>5
<1>7. ASSUME NEW n \in 1..k PROVE f[n] = step[f[n - 1]]
  <2>1. CASE n = k
    BY <1>2, <1>4, <2>1
  <2>2. CASE n # k
    <3>1. n \in 1..(k - 1) /\ n - 1 \in 0..(k - 1) /\ n \in 0..k /\ n - 1 \in 0..k /\ n - 1 # k
      BY <1>2, <2>2
    <3>2. f[n] = g[n] /\ f[n - 1] = g[n - 1]
      BY <2>2, <3>1
    <3> QED
      BY <1>5, <3>1, <3>2
  <2> QED
    BY <2>1, <2>2
<1>8. Upto(k, f)
  BY <1>6, <1>7
<1> QED
  BY <1>2, <1>8

----------------------------------------------------------------------------
(* Sequences. *)

LEMMA Joined ==
  ASSUME NEW S, NEW a \in Seq(S), NEW b \in Seq(S)
  PROVE  /\ a \o b \in Seq(S) /\ Len(a \o b) = Len(a) + Len(b)
         /\ \A i \in 1..Len(a) : (a \o b)[i] = a[i]
         /\ \A i \in (Len(a) + 1)..(Len(a) + Len(b)) : (a \o b)[i] = b[i - Len(a)]
<1> DEFINE c == a \o b
<1>1. /\ c \in Seq(S) /\ Len(c) = Len(a) + Len(b)
      /\ \A i \in 1..(Len(a) + Len(b)) : c[i] = IF i <= Len(a) THEN a[i] ELSE b[i - Len(a)]
  BY ConcatProperties, Zenon
<1> HIDE DEF c
<1>2. Len(a) \in Nat /\ Len(b) \in Nat
  OBVIOUS
<1>3. ASSUME NEW i \in 1..Len(a) PROVE c[i] = a[i]
  BY <1>1, <1>2
<1>4. ASSUME NEW i \in (Len(a) + 1)..(Len(a) + Len(b)) PROVE c[i] = b[i - Len(a)]
  BY <1>1, <1>2
<1> QED
  BY <1>1, <1>3, <1>4 DEF c

LEMMA Inserted ==
  ASSUME NEW S, NEW s \in Seq(S), NEW k \in 0..Len(s), NEW t \in S,
         NEW q, q = InsertAt(s, k + 1, t)
  PROVE  /\ q \in Seq(S) /\ Len(q) = Len(s) + 1
         /\ \A i \in 1..k : q[i] = s[i]
         /\ q[k + 1] = t
         /\ \A i \in (k + 2)..(Len(s) + 1) : q[i] = s[i - 1]
<1> DEFINE a == SubSeq(s, 1, k)
           b == SubSeq(s, k + 1, Len(s))
           o == <<t>>
<1>1. a \in Seq(S) /\ Len(a) = k /\ \A i \in 1..k : a[i] = s[i]
  OBVIOUS
<1>2. b \in Seq(S) /\ Len(b) = Len(s) - k /\ \A i \in 1..(Len(s) - k) : b[i] = s[k + i]
  OBVIOUS
<1>3. o \in Seq(S) /\ Len(o) = 1 /\ o[1] = t
  OBVIOUS
<1>4. q = (a \o o) \o b
  <2>1. q = SubSeq(s, 1, (k + 1) - 1) \o <<t>> \o SubSeq(s, k + 1, Len(s))
    BY DEF InsertAt
  <2>2. (k + 1) - 1 = k
    OBVIOUS
  <2> QED
    BY <2>1, <2>2
<1> HIDE DEF a, b, o
<1>5. /\ a \o o \in Seq(S) /\ Len(a \o o) = k + 1
      /\ \A i \in 1..k : (a \o o)[i] = s[i]
      /\ (a \o o)[k + 1] = t
  <2>1. /\ a \o o \in Seq(S) /\ Len(a \o o) = Len(a) + Len(o)
        /\ \A i \in 1..Len(a) : (a \o o)[i] = a[i]
        /\ \A i \in (Len(a) + 1)..(Len(a) + Len(o)) : (a \o o)[i] = o[i - Len(a)]
    BY <1>1, <1>3, Joined
  <2>2. k + 1 \in (Len(a) + 1)..(Len(a) + Len(o)) /\ k + 1 - Len(a) = 1
    BY <1>1, <1>3
  <2> QED
    BY <1>1, <1>3, <2>1, <2>2
<1> DEFINE c == a \o o
<1> HIDE DEF c
<1>6. /\ q \in Seq(S) /\ Len(q) = Len(s) + 1
      /\ \A i \in 1..(k + 1) : q[i] = c[i]
      /\ \A i \in (k + 2)..(Len(s) + 1) : q[i] = b[i - (k + 1)]
  <2>1. c \in Seq(S) /\ Len(c) = k + 1 /\ q = c \o b
    BY <1>4, <1>5 DEF c
  <2>2. /\ c \o b \in Seq(S) /\ Len(c \o b) = Len(c) + Len(b)
        /\ \A i \in 1..Len(c) : (c \o b)[i] = c[i]
        /\ \A i \in (Len(c) + 1)..(Len(c) + Len(b)) : (c \o b)[i] = b[i - Len(c)]
    BY <1>2, <2>1, Joined
  <2>3. Len(c) + Len(b) = Len(s) + 1 /\ Len(c) + 1 = k + 2
    BY <1>2, <2>1
  <2> QED
    BY <2>1, <2>2, <2>3
<1>7. \A i \in (k + 2)..(Len(s) + 1) : q[i] = s[i - 1]
  <2> SUFFICES ASSUME NEW i \in (k + 2)..(Len(s) + 1) PROVE q[i] = s[i - 1]
    OBVIOUS
  <2>1. i - (k + 1) \in 1..(Len(s) - k) /\ k + (i - (k + 1)) = i - 1
    OBVIOUS
  <2> QED
    BY <1>2, <1>6, <2>1
<1>8. \A i \in 1..k : q[i] = s[i]
  <2> SUFFICES ASSUME NEW i \in 1..k PROVE q[i] = s[i]
    OBVIOUS
  <2>1. i \in 1..(k + 1)
    OBVIOUS
  <2> QED
    BY <1>5, <1>6, <2>1 DEF c
<1>9. q[k + 1] = t
  BY <1>5, <1>6, SMTT(60) DEF c
<1> QED
  BY <1>6, <1>7, <1>8, <1>9

LEMMA Dropped ==
  ASSUME NEW S, NEW s \in Seq(S), NEW k \in 1..Len(s)
  PROVE  LET q == RemoveAt(s, k)
         IN /\ q \in Seq(S) /\ Len(q) = Len(s) - 1
            /\ \A i \in 1..(k - 1) : q[i] = s[i]
            /\ \A i \in k..(Len(s) - 1) : q[i] = s[i + 1]
<1> DEFINE a == SubSeq(s, 1, k - 1)
           b == SubSeq(s, k + 1, Len(s))
           q == RemoveAt(s, k)
<1>1. a \in Seq(S) /\ Len(a) = k - 1 /\ \A i \in 1..(k - 1) : a[i] = s[i]
  OBVIOUS
<1>2. b \in Seq(S) /\ Len(b) = Len(s) - k /\ \A i \in 1..(Len(s) - k) : b[i] = s[k + i]
  OBVIOUS
<1>3. q = a \o b
  BY DEF RemoveAt
<1> HIDE DEF a, b, q
<1>4. /\ q \in Seq(S) /\ Len(q) = Len(s) - 1
      /\ \A i \in 1..(k - 1) : q[i] = s[i]
      /\ \A i \in k..(Len(s) - 1) : q[i] = b[i - (k - 1)]
  <2>1. /\ a \o b \in Seq(S) /\ Len(a \o b) = Len(a) + Len(b)
        /\ \A i \in 1..Len(a) : (a \o b)[i] = a[i]
        /\ \A i \in (Len(a) + 1)..(Len(a) + Len(b)) : (a \o b)[i] = b[i - Len(a)]
    BY <1>1, <1>2, Joined, ZenonT(60)
  <2>2. Len(a) + Len(b) = Len(s) - 1 /\ Len(a) + 1 = k /\ Len(a) = k - 1
    BY <1>1, <1>2
  <2> QED
    BY <1>1, <1>3, <2>1, <2>2
<1>5. \A i \in k..(Len(s) - 1) : q[i] = s[i + 1]
  <2> SUFFICES ASSUME NEW i \in k..(Len(s) - 1) PROVE q[i] = s[i + 1]
    OBVIOUS
  <2>1. i - (k - 1) \in 1..(Len(s) - k) /\ k + (i - (k - 1)) = i + 1
    OBVIOUS
  <2> QED
    BY <1>2, <1>4, <2>1
<1> QED
  BY <1>4, <1>5 DEF q

----------------------------------------------------------------------------
(* The constants, and the addresses. *)

LEMMA ConstantsOK ==
  /\ IsFiniteSet(Txs) /\ Pays \in [Txs -> Seq(Nat)] /\ Addresses # {}
  /\ \A t \in Txs : Signed[t] \subseteq Ins[t] /\ \A o \in Ins[t] : o[1] # t
  /\ MaxHeight \in Nat \ {0} /\ Gap \in Nat \ {0} /\ Cushion \in Nat
  /\ Claims \subseteq Txs \X (1..MaxHeight) /\ Assets \subseteq Outpoints
BY WalletConstants

LEMMA InsAreOutpoints ==
  ASSUME NEW t \in Txs, NEW o \in Ins[t]
  PROVE  o[1] \in Txs /\ o[2] \in DOMAIN Pays[o[1]] /\ o \in Outpoints
<1>1. o \in Outpoints
  BY WalletConstants
<1>2. PICK u \in Txs : o \in {u} \X DOMAIN Pays[u]
  BY <1>1 DEF Outpoints
<1> QED
  BY <1>1, <1>2

(* A sequence of numbers has a bound.                                      *)
LEMMA NumbersBounded ==
  ASSUME NEW s \in Seq(Nat)
  PROVE  \E b \in Nat : \A i \in 1..Len(s) : s[i] <= b
<1> DEFINE M == Len(s)
<1>0. M \in Nat /\ \A i \in 1..M : s[i] \in Nat
  OBVIOUS
<1> HIDE DEF M
<1> DEFINE T == {k \in 0..M : \E b \in Nat : \A i \in 1..k : s[i] <= b}
<1>1. 0 \in T
  BY <1>0
<1>2. ASSUME NEW n \in 1..M, n - 1 \in T PROVE n \in T
  <2>1. PICK b \in Nat : \A i \in 1..(n - 1) : s[i] <= b
    BY <1>2
  <2>2. s[n] \in Nat
    BY <1>0
  <2>3. PICK c \in Nat : b <= c /\ s[n] <= c
    <3>1. b + s[n] \in Nat /\ b <= b + s[n] /\ s[n] <= b + s[n]
      BY <2>2
    <3> QED
      BY <3>1
  <2>4. ASSUME NEW i \in 1..n PROVE s[i] <= c
    <3>1. CASE i = n
      BY <2>3, <3>1
    <3>2. CASE i # n
      <4>1. i \in 1..(n - 1) /\ s[i] \in Nat
        BY <1>0, <3>2
      <4> QED
        BY <2>1, <2>3, <4>1
    <3> QED
      BY <3>1, <3>2
  <2>5. n \in 0..M
    BY <1>0
  <2> QED
    BY <2>4, <2>5
<1>3. \A n \in 0..M : n \in T
  <2> HIDE DEF T
  <2> QED
    BY <1>0, <1>1, <1>2, Climb
<1>4. M \in T
  <2>1. M \in 0..M
    BY <1>0
  <2> QED
    BY <1>3, <2>1
<1> QED
  BY <1>4 DEF M

LEMMA AddressesBounded ==
  /\ Max(Addresses) \in Addresses /\ Max(Addresses) \in Nat
  /\ \A x \in Addresses : x \in Nat /\ x <= Max(Addresses)
<1>1. \A t \in Txs : \E b \in Nat : PaysOf(t) \subseteq 0..b
  <2> SUFFICES ASSUME NEW t \in Txs PROVE \E b \in Nat : PaysOf(t) \subseteq 0..b
    OBVIOUS
  <2>1. Pays[t] \in Seq(Nat)
    BY ConstantsOK
  <2>2. PICK b \in Nat : \A i \in 1..Len(Pays[t]) : Pays[t][i] <= b
    BY <2>1, NumbersBounded
  <2>3. \A i \in DOMAIN Pays[t] : Pays[t][i] \in 0..b
    BY <2>1, <2>2
  <2>4. PaysOf(t) \subseteq 0..b
    BY <2>3 DEF PaysOf
  <2> QED
    BY <2>4
<1> DEFINE N == Cardinality(Txs)
<1>2. N \in Nat /\ ExistsBijection(1..N, Txs)
  BY ConstantsOK, FS_CardinalityType
<1>3. PICK f \in [1..N -> Txs] : \A t \in Txs : \E i \in 1..N : f[i] = t
  BY <1>2 DEF ExistsBijection, Bijection, Surjection
<1> HIDE DEF N
<1> DEFINE T == {k \in 0..N : \E b \in Nat : \A i \in 1..k : PaysOf(f[i]) \subseteq 0..b}
<1>4. 0 \in T
  BY <1>2
<1>5. ASSUME NEW n \in 1..N, n - 1 \in T PROVE n \in T
  <2>1. PICK b \in Nat : \A i \in 1..(n - 1) : PaysOf(f[i]) \subseteq 0..b
    BY <1>5
  <2>2. PICK d \in Nat : PaysOf(f[n]) \subseteq 0..d
    BY <1>1, <1>3
  <2>3. b + d \in Nat /\ 0..b \subseteq 0..(b + d) /\ 0..d \subseteq 0..(b + d)
    OBVIOUS
  <2>4. \A i \in 1..n : i = n \/ i \in 1..(n - 1)
    BY <1>2
  <2>5. \A i \in 1..n : PaysOf(f[i]) \subseteq 0..(b + d)
    BY <2>1, <2>2, <2>3, <2>4
  <2>6. n \in 0..N
    BY <1>2
  <2> QED
    BY <2>3, <2>5, <2>6
<1>6. N \in T
  <2>1. \A n \in 0..N : n \in T
    <3> HIDE DEF T
    <3> QED
      BY <1>2, <1>4, <1>5, Climb
  <2>2. N \in 0..N
    BY <1>2
  <2> QED
    BY <2>1, <2>2
<1>7. PICK b \in Nat : \A i \in 1..N : PaysOf(f[i]) \subseteq 0..b
  BY <1>6
<1>8. Addresses \subseteq 0..b
  BY <1>3, <1>7 DEF Addresses
<1>9. Max(Addresses) \in Addresses /\ \A y \in Addresses : y <= Max(Addresses)
  BY <1>8, ConstantsOK, Greatest
<1>10. \A x \in 0..b : x \in Nat
  BY <1>7
<1> HIDE DEF N
<1>11. \A x \in Addresses : x \in Nat
  BY <1>8, <1>10, Zenon
<1> QED
  BY <1>9, <1>11, Zenon

LEMMA MaxWindowOK ==
  MaxWindow \in Nat /\ Gap + Cushion \in 1..MaxWindow
<1>1. Max(Addresses) \in Nat
  BY AddressesBounded
<1> QED
  BY <1>1, ConstantsOK DEF MaxWindow

LEMMA Grown ==
  ASSUME NEW used, used \subseteq Addresses, NEW w \in 0..MaxWindow,
         NEW gap \in {Gap, Gap + Cushion}
  PROVE  GrownWindow(used, w, gap) \in w..MaxWindow
<1> DEFINE V == {v \in w..Max({w, MaxWindow}) : \A x \in used : x <= v => x + gap <= v}
<1>1. MaxWindow \in Nat /\ Max(Addresses) \in Nat /\ gap \in Nat /\ gap <= Gap + Cushion
  BY MaxWindowOK, AddressesBounded, ConstantsOK
<1>2. Max({w, MaxWindow}) = MaxWindow
  <2> DEFINE T == {w, MaxWindow}
  <2>1. T \subseteq 0..MaxWindow /\ T # {}
    BY <1>1
  <2>2. MaxWindow \in T
    OBVIOUS
  <2>3. Max(T) \in T /\ \A y \in T : y <= Max(T)
    <3> HIDE DEF T
    <3> QED
      BY <1>1, <2>1, Greatest
  <2>4. w = MaxWindow \/ ~ (MaxWindow <= w)
    BY <1>1
  <2> QED
    BY <2>2, <2>3, <2>4
<1>3. MaxWindow \in V
  <2>1. \A x \in used : x + gap <= MaxWindow
    <3> SUFFICES ASSUME NEW x \in used PROVE x + gap <= MaxWindow
      OBVIOUS
    <3>1. x \in Nat /\ x <= Max(Addresses)
      BY AddressesBounded
    <3>2. MaxWindow = Max(Addresses) + Gap + Cushion
      BY DEF MaxWindow
    <3> QED
      BY <1>1, <3>1, <3>2, ConstantsOK
  <2>2. MaxWindow \in w..MaxWindow
    BY <1>1
  <2> QED
    BY <1>2, <2>1, <2>2
<1>4. V \subseteq w..MaxWindow
  BY <1>2
<1>5. PICK m \in V : \A v \in V : m <= v
  <2>1. V \subseteq Nat
    BY <1>1, <1>4
  <2> HIDE DEF V
  <2> QED
    BY <1>3, <2>1, Least
<1>6. Min(V) \in V
  BY <1>5 DEF Min
<1> QED
  BY <1>4, <1>6 DEF GrownWindow

----------------------------------------------------------------------------
(* The list of transactions: each of a set R, once. *)

Lists(s, R) == s \in Seq(R) /\ IsInjective(s) /\ Range(s) = R

LEMMA InsertedOnce ==
  ASSUME NEW R, NEW s, Lists(s, R), NEW t, t \notin R, NEW k \in 0..Len(s)
  PROVE  Lists(InsertAt(s, k + 1, t), R \cup {t})
<1> DEFINE q == InsertAt(s, k + 1, t)
           D == R \cup {t}
           n == Len(s)
<1>1. /\ s \in Seq(D) /\ DOMAIN s = 1..n /\ n \in Nat
      /\ \A i \in 1..n : s[i] \in R
      /\ \A i, j \in 1..n : s[i] = s[j] => i = j
      /\ \A x \in R : \E i \in 1..n : s[i] = x
  BY DEF Lists, IsInjective, Range
<1>2. /\ q \in Seq(D) /\ Len(q) = n + 1
      /\ \A i \in 1..k : q[i] = s[i]
      /\ q[k + 1] = t
      /\ \A i \in (k + 2)..(n + 1) : q[i] = s[i - 1]
  <2>1. PICK E : E = D
    OBVIOUS
  <2>2. t \in E /\ s \in Seq(E) /\ q = InsertAt(s, k + 1, t)
    BY <1>1, <2>1
  <2> HIDE DEF q
  <2>3. q \in Seq(E) /\ Len(q) = Len(s) + 1
    BY <2>2, Inserted
  <2>4. \A i \in 1..k : q[i] = s[i]
    BY <2>2, Inserted
  <2>5. q[k + 1] = t
    BY <2>2, Inserted
  <2>6. \A i \in (k + 2)..(Len(s) + 1) : q[i] = s[i - 1]
    BY <2>2, Inserted
  <2> QED
    BY <2>1, <2>3, <2>4, <2>5, <2>6
<1>3. k \in 0..n
  OBVIOUS
<1> HIDE DEF q, n
<1>4. DOMAIN q = 1..(n + 1) /\ \A i \in 1..(n + 1) : i \in 1..k \/ i = k + 1 \/ i \in (k + 2)..(n + 1)
  BY <1>1, <1>2, <1>3
<1>5. \A i \in (k + 2)..(n + 1) : i - 1 \in 1..n /\ i - 1 > k
  BY <1>1, <1>3
<1>6. \A i \in 1..k : i \in 1..n /\ i <= k
  BY <1>1, <1>3
<1>7. ASSUME NEW i \in 1..(n + 1), NEW j \in 1..(n + 1), q[i] = q[j] PROVE i = j
  <2>1. CASE i \in 1..k
    <3>1. j \in 1..k => i = j
      BY <1>1, <1>2, <1>6, <1>7, <2>1
    <3>2. j # k + 1
      BY <1>1, <1>2, <1>6, <1>7, <2>1
    <3>3. j \notin (k + 2)..(n + 1)
      <4> SUFFICES ASSUME j \in (k + 2)..(n + 1) PROVE FALSE
        OBVIOUS
      <4>1. s[i] = s[j - 1]
        BY <1>2, <1>7, <2>1
      <4> QED
        BY <1>1, <1>5, <1>6, <2>1, <4>1
    <3> QED
      BY <1>4, <3>1, <3>2, <3>3
  <2>2. CASE i = k + 1
    BY <1>1, <1>2, <1>4, <1>5, <1>6, <1>7, <2>2, ZenonT(60)
  <2>3. CASE i \in (k + 2)..(n + 1)
    <3>1. j \notin 1..k
      <4> SUFFICES ASSUME j \in 1..k PROVE FALSE
        OBVIOUS
      <4>1. s[j] = s[i - 1]
        BY <1>2, <1>7, <2>3
      <4> QED
        BY <1>1, <1>5, <1>6, <2>3, <4>1
    <3>2. j # k + 1
      BY <1>1, <1>2, <1>5, <1>7, <2>3
    <3>3. j \in (k + 2)..(n + 1) => i = j
      <4> SUFFICES ASSUME j \in (k + 2)..(n + 1) PROVE i = j
        OBVIOUS
      <4>1. s[j - 1] = s[i - 1]
        BY <1>2, <1>7, <2>3
      <4>2. j - 1 = i - 1
        BY <1>1, <1>5, <2>3, <4>1
      <4> QED
        BY <4>2
    <3> QED
      BY <1>4, <3>1, <3>2, <3>3
  <2> QED
    BY <1>4, <2>1, <2>2, <2>3
<1>8. \A x \in D : \E i \in 1..(n + 1) : q[i] = x
  <2> SUFFICES ASSUME NEW x \in D PROVE \E i \in 1..(n + 1) : q[i] = x
    OBVIOUS
  <2>1. CASE x = t
    BY <1>1, <1>2, <1>3, <2>1
  <2>2. CASE x \in R
    <3>1. PICK i \in 1..n : s[i] = x
      BY <1>1, <2>2
    <3>2. CASE i <= k
      <4>1. i \in 1..k /\ i \in 1..(n + 1)
        BY <1>1, <1>3, <3>2
      <4> QED
        BY <1>2, <3>1, <4>1
    <3>3. CASE ~ (i <= k)
      <4>1. i + 1 \in (k + 2)..(n + 1) /\ (i + 1) - 1 = i /\ i + 1 \in 1..(n + 1)
        BY <1>1, <1>3, <3>3
      <4> QED
        BY <1>2, <3>1, <4>1
    <3> QED
      BY <3>2, <3>3
  <2> QED
    BY <2>1, <2>2
<1>9. \A i \in 1..(n + 1) : q[i] \in D
  BY <1>2, <1>4
<1>10. Range(q) = D
  BY <1>4, <1>8, <1>9 DEF Range
<1>11. IsInjective(q)
  BY <1>4, <1>7 DEF IsInjective
<1> QED
  BY <1>2, <1>10, <1>11 DEF Lists, q

LEMMA DroppedOnce ==
  ASSUME NEW R, NEW s, Lists(s, R), NEW k \in DOMAIN s
  PROVE  Lists(RemoveAt(s, k), R \ {s[k]})
<1> DEFINE q == RemoveAt(s, k)
           n == Len(s)
           t == s[k]
<1>1. /\ s \in Seq(R) /\ DOMAIN s = 1..n /\ n \in Nat
      /\ \A i \in 1..n : s[i] \in R
      /\ \A i, j \in 1..n : s[i] = s[j] => i = j
      /\ \A x \in R : \E i \in 1..n : s[i] = x
  BY DEF Lists, IsInjective, Range
<1>2. /\ q \in Seq(R) /\ Len(q) = n - 1
      /\ \A i \in 1..(k - 1) : q[i] = s[i]
      /\ \A i \in k..(n - 1) : q[i] = s[i + 1]
  <2>1. s \in Seq(R) /\ k \in 1..Len(s)
    BY <1>1
  <2>2. /\ RemoveAt(s, k) \in Seq(R) /\ Len(RemoveAt(s, k)) = Len(s) - 1
        /\ \A i \in 1..(k - 1) : RemoveAt(s, k)[i] = s[i]
        /\ \A i \in k..(Len(s) - 1) : RemoveAt(s, k)[i] = s[i + 1]
    BY <2>1, Dropped
  <2> QED
    BY <2>2
<1>3. k \in 1..n /\ t = s[k]
  BY <1>1
<1> HIDE DEF q, n, t
<1>4. DOMAIN q = 1..(n - 1) /\ \A i \in 1..(n - 1) : i \in 1..(k - 1) \/ i \in k..(n - 1)
  BY <1>1, <1>2, <1>3
<1>5. \A i \in 1..(k - 1) : i \in 1..n /\ i < k
  BY <1>1, <1>3
<1>6. \A i \in k..(n - 1) : i + 1 \in 1..n /\ i + 1 > k
  BY <1>1, <1>3
<1>7. ASSUME NEW i \in 1..(n - 1), NEW j \in 1..(n - 1), q[i] = q[j] PROVE i = j
  <2>1. CASE i \in 1..(k - 1) /\ j \in 1..(k - 1)
    BY <1>1, <1>2, <1>5, <1>7, <2>1
  <2>2. CASE i \in 1..(k - 1) /\ j \in k..(n - 1)
    <3>1. s[i] = s[j + 1]
      BY <1>2, <1>7, <2>2
    <3>2. i = j + 1
      BY <1>1, <1>5, <1>6, <2>2, <3>1
    <3> QED
      BY <1>3, <2>2, <3>2
  <2>3. CASE i \in k..(n - 1) /\ j \in 1..(k - 1)
    <3>1. s[i + 1] = s[j]
      BY <1>2, <1>7, <2>3
    <3>2. i + 1 = j
      BY <1>1, <1>5, <1>6, <2>3, <3>1
    <3> QED
      BY <1>3, <2>3, <3>2
  <2>4. CASE i \in k..(n - 1) /\ j \in k..(n - 1)
    <3>1. s[i + 1] = s[j + 1]
      BY <1>2, <1>7, <2>4
    <3>2. i + 1 = j + 1
      BY <1>1, <1>6, <2>4, <3>1
    <3> QED
      BY <3>2
  <2> QED
    BY <1>4, <2>1, <2>2, <2>3, <2>4
<1>8. \A x \in R \ {t} : \E i \in 1..(n - 1) : q[i] = x
  <2> SUFFICES ASSUME NEW x \in R \ {t} PROVE \E i \in 1..(n - 1) : q[i] = x
    OBVIOUS
  <2>1. PICK i \in 1..n : s[i] = x
    BY <1>1
  <2>2. i # k
    BY <1>3, <2>1
  <2>3. CASE i < k
    <3>1. i \in 1..(k - 1) /\ i \in 1..(n - 1)
      BY <1>1, <1>3, <2>3
    <3> QED
      BY <1>2, <2>1, <3>1
  <2>4. CASE i > k
    <3>1. i - 1 \in k..(n - 1) /\ (i - 1) + 1 = i /\ i - 1 \in 1..(n - 1)
      BY <1>1, <1>3, <2>4
    <3> QED
      BY <1>2, <2>1, <3>1
  <2> QED
    BY <1>1, <1>3, <2>2, <2>3, <2>4
<1>9. \A i \in 1..(n - 1) : q[i] \in R \ {t}
  <2> SUFFICES ASSUME NEW i \in 1..(n - 1) PROVE q[i] \in R \ {t}
    OBVIOUS
  <2>1. CASE i \in 1..(k - 1)
    BY <1>1, <1>2, <1>3, <1>5, <2>1
  <2>2. CASE i \in k..(n - 1)
    BY <1>1, <1>2, <1>3, <1>6, <2>2
  <2> QED
    BY <1>4, <2>1, <2>2
<1>10. Range(q) = R \ {t}
  BY <1>4, <1>8, <1>9 DEF Range
<1>11. IsInjective(q)
  BY <1>4, <1>7 DEF IsInjective
<1>12. q \in Seq(R \ {t})
  <2>1. q = [i \in 1..(n - 1) |-> q[i]] /\ n - 1 \in Nat
    BY <1>1, <1>2, <1>3, <1>4
  <2> QED
    BY <1>9, <2>1
<1> QED
  BY <1>10, <1>11, <1>12 DEF Lists, q, t

(* _BRWalletInsertTx lists one more, once.                                 *)
LEMMA InsertTxLists ==
  ASSUME NEW r, NEW R, NEW s, Lists(s, R), NEW t, t \notin R
  PROVE  Lists(InsertTx(r, s, t), R \cup {t})
<1> DEFINE T == {0} \cup {i \in DOMAIN s : ~ Ascending(r, s[i], t)}
<1>1. Len(s) \in Nat /\ DOMAIN s = 1..Len(s)
  BY DEF Lists
<1>2. T \subseteq 0..Len(s) /\ T # {}
  BY <1>1
<1>3. Max(T) \in 0..Len(s)
  <2> HIDE DEF T
  <2>1. Max(T) \in T
    BY <1>1, <1>2, Greatest
  <2> QED
    BY <1>2, <2>1
<1> DEFINE k == Max(T)
<1>4. InsertTx(r, s, t) = InsertAt(s, k + 1, t)
  BY DEF InsertTx
<1> HIDE DEF k
<1>5. k \in 0..Len(s)
  BY <1>3 DEF k
<1>6. Lists(InsertAt(s, k + 1, t), R \cup {t})
  BY <1>5, InsertedOnce
<1> QED
  BY <1>4, <1>6

LEMMA WithoutLists ==
  ASSUME NEW R, NEW s, Lists(s, R), NEW t
  PROVE  Lists(Without(s, t), R \ {t})
<1>1. CASE t \notin R
  <2>1. R \ {t} = R
    BY <1>1
  <2>2. Without(s, t) = s
    BY <1>1 DEF Lists, Without
  <2> QED
    BY <2>1, <2>2
<1>2. CASE t \in R
  <2> DEFINE k == CHOOSE i \in DOMAIN s : s[i] = t
  <2>1. k \in DOMAIN s /\ s[k] = t
    <3>1. t \in Range(s)
      BY <1>2 DEF Lists
    <3>2. \E i \in DOMAIN s : s[i] = t
      BY <3>1 DEF Range
    <3> QED
      BY <3>2
  <2>2. Without(s, t) = RemoveAt(s, k)
    BY <1>2 DEF Lists, Without
  <2> HIDE DEF k
  <2>3. Lists(RemoveAt(s, k), R \ {s[k]})
    BY <2>1, DroppedOnce
  <2> QED
    BY <2>1, <2>2, <2>3
<1> QED
  BY <1>1, <1>2

----------------------------------------------------------------------------
(* The order of the list. *)

Ordered(r, s) ==
  \A i, j \in DOMAIN s : i < j => r[s[i]].height <= r[s[j]].height

(* _BRWalletTxIsAscending goes by height, and by descent only between      *)
(* transactions of the same height.                                        *)
LEMMA AscendingByHeight ==
  ASSUME NEW r, NEW t \in DOMAIN r, NEW u,
         r[t].height \in Nat, r[u].height \in Nat
  PROVE  /\ r[t].height > r[u].height => Ascending(r, t, u)
         /\ Ascending(r, t, u) => r[t].height >= r[u].height
<1> DEFINE N == Cardinality(Txs)
           S == SUBSET DOMAIN r
           Line(d, X) == {v \in DOMAIN r :
                            \/ r[v].height > r[u].height
                            \/ /\ r[v].height = r[u].height
                               /\ \/ u \in Parents(v)
                                  \/ d > 0 /\ v \notin Parents(u) /\ Parents(v) \cap X # {}}
           Whole(f) == f = [d \in 0..N |-> Line(d, f[d - 1])]
           asc == CHOOSE f : Whole(f)
<1>0. N \in Nat
  BY ConstantsOK, FS_CardinalityType
<1>1. Ascending(r, t, u) = (t \in asc[N])
  BY DEF Ascending
<1>2. \E f : Whole(f)
  <2> DEFINE first == Line(0, {})
             step == [X \in S |-> Line(1, X)]
  <2>1. first \in S /\ step \in [S -> S]
    OBVIOUS
  <2>2. \A X : Line(0, X) = first
    OBVIOUS
  <2>3. \A X : \A d \in 1..N : Line(d, X) = Line(1, X)
    OBVIOUS
  <2> HIDE DEF Line
  <2>4. \A X \in S : step[X] = Line(1, X)
    OBVIOUS
  <2> HIDE DEF first, step, S, N
  <2>5. PICK f : f \in [0..N -> S] /\ f[0] = first /\ \A n \in 1..N : f[n] = step[f[n - 1]]
    <3>1. \E f : Iteration(f, S, first, step, N)
      BY <1>0, <2>1, Iterates
    <3> QED
      BY <3>1 DEF Iteration
  <2>6. ASSUME NEW d \in 0..N PROVE f[d] = Line(d, f[d - 1])
    <3>1. CASE d = 0
      BY <2>2, <2>5, <3>1
    <3>2. CASE d # 0
      <4>1. d \in 1..N /\ d - 1 \in 0..N
        BY <1>0, <3>2
      <4>2. f[d] = Line(1, f[d - 1])
        BY <2>4, <2>5, <4>1
      <4> QED
        BY <2>3, <4>1, <4>2
    <3> QED
      BY <3>1, <3>2
  <2>7. f = [d \in 0..N |-> Line(d, f[d - 1])]
    <3>1. f = [d \in 0..N |-> f[d]]
      BY <2>5
    <3> QED
      BY <2>6, <3>1
  <2> QED
    BY <2>7
<1>3. Whole(asc)
  <2> HIDE DEF Whole
  <2> QED
    BY <1>2
<1> HIDE DEF asc
<1>4. asc[N] = Line(N, asc[N - 1])
  <2>1. N \in 0..N
    BY <1>0
  <2> HIDE DEF Line, N
  <2> QED
    BY <1>3, <2>1
<1> DEFINE X == asc[N - 1]
<1>5. Ascending(r, t, u) = (t \in Line(N, X))
  BY <1>1, <1>4
<1> DEFINE x == r[t].height
           y == r[u].height
           Descends == \/ u \in Parents(t)
                       \/ N > 0 /\ t \notin Parents(u) /\ Parents(t) \cap X # {}
<1>6. Ascending(r, t, u) <=> x > y \/ (x = y /\ Descends)
  <2> HIDE DEF X, N
  <2> QED
    BY <1>5
<1>7. x \in Nat /\ y \in Nat
  OBVIOUS
<1> HIDE DEF x, y, Descends
<1>8. /\ x > y => Ascending(r, t, u)
      /\ Ascending(r, t, u) => x >= y
  BY <1>6, <1>7
<1> QED
  BY <1>8 DEF x, y

LEMMA OrderedSame ==
  ASSUME NEW r, NEW s, Ordered(r, s), NEW q, \A i \in DOMAIN s : q[s[i]].height = r[s[i]].height
  PROVE  Ordered(q, s)
BY DEF Ordered

(* _BRWalletInsertTx keeps the order of heights.                           *)
LEMMA InsertTxOrdered ==
  ASSUME NEW r, NEW R, NEW s, Lists(s, R), R \subseteq DOMAIN r, NEW t \in DOMAIN r, t \notin R,
         \A u \in DOMAIN r : r[u].height \in Nat, Ordered(r, s)
  PROVE  Ordered(r, InsertTx(r, s, t))
<1> DEFINE n == Len(s)
           T == {0} \cup {i \in DOMAIN s : ~ Ascending(r, s[i], t)}
           k == Max(T)
           q == InsertTx(r, s, t)
           h == r[t].height
           g(i) == r[s[i]].height
<1>1. /\ n \in Nat /\ DOMAIN s = 1..n /\ \A i \in 1..n : s[i] \in R /\ s[i] \in DOMAIN r
      /\ h \in Nat /\ \A i \in 1..n : g(i) \in Nat
  BY DEF Lists
<1>2. k \in T /\ \A i \in T : i <= k
  <2>1. T \subseteq 0..n /\ T # {}
    BY <1>1
  <2> HIDE DEF T, n
  <2> QED
    BY <1>1, <2>1, Greatest
<1>3. k \in 0..n
  BY <1>1, <1>2
<1>4. ASSUME NEW i \in 1..n, i > k PROVE h <= g(i)
  <2>1. Ascending(r, s[i], t)
    <3>1. i \notin T
      <4> HIDE DEF T, k, n
      <4>1. ~ (i <= k)
        BY <1>1, <1>3, <1>4
      <4> QED
        BY <1>2, <4>1
    <3> QED
      BY <1>1, <3>1
  <2>2. s[i] \in DOMAIN r /\ r[s[i]].height \in Nat /\ r[t].height \in Nat
    BY <1>1
  <2>3. r[s[i]].height >= r[t].height
    BY <2>1, <2>2, AscendingByHeight
  <2> QED
    BY <2>2, <2>3
<1>5. ASSUME NEW i \in 1..n, i <= k PROVE g(i) <= h
  <2>1. k \in 1..n /\ k \in DOMAIN s
    BY <1>1, <1>3, <1>5
  <2>2. ~ Ascending(r, s[k], t)
    BY <1>2, <2>1
  <2>3. s[k] \in DOMAIN r /\ r[s[k]].height \in Nat /\ r[t].height \in Nat
    BY <1>1, <2>1
  <2>4. ~ (r[s[k]].height > r[t].height)
    BY <2>2, <2>3, AscendingByHeight
  <2>5. g(k) <= h
    BY <2>3, <2>4
  <2>6. g(i) <= g(k)
    <3>1. CASE i = k
      BY <1>1, <3>1
    <3>2. CASE i # k
      <4>1. i < k /\ i \in DOMAIN s
        BY <1>1, <1>3, <1>5, <3>2
      <4> QED
        BY <2>1, <4>1 DEF Ordered
    <3> QED
      BY <3>1, <3>2
  <2>7. g(i) \in Nat /\ g(k) \in Nat
    BY <1>1, <2>1
  <2> HIDE DEF g, h, k
  <2> QED
    BY <1>1, <2>5, <2>6, <2>7
<1>6. /\ DOMAIN q = 1..(n + 1)
      /\ \A i \in 1..k : q[i] = s[i]
      /\ q[k + 1] = t
      /\ \A i \in (k + 2)..(n + 1) : q[i] = s[i - 1]
  <2> DEFINE S == R \cup {t}
  <2>1. s \in Seq(S) /\ t \in S
    BY DEF Lists
  <2>2. q = InsertAt(s, k + 1, t)
    BY DEF InsertTx
  <2> HIDE DEF q, k, S
  <2>3. k \in 0..Len(s)
    BY <1>3
  <2>4. q \in Seq(S) /\ Len(q) = Len(s) + 1
    BY <2>1, <2>2, <2>3, Inserted
  <2>5. \A i \in 1..k : q[i] = s[i]
    BY <2>1, <2>2, <2>3, Inserted
  <2>6. q[k + 1] = t
    BY <2>1, <2>2, <2>3, Inserted
  <2>7. \A i \in (k + 2)..(n + 1) : q[i] = s[i - 1]
    BY <2>1, <2>2, <2>3, Inserted
  <2>8. DOMAIN q = 1..(n + 1)
    BY <2>4
  <2> QED
    BY <2>5, <2>6, <2>7, <2>8, Zenon
<1> HIDE DEF T, k, q, n
<1>7. ASSUME NEW i \in 1..(n + 1), i <= k + 1 PROVE r[q[i]].height <= h
  <2>1. CASE i = k + 1
    BY <1>1, <1>6, <2>1
  <2>2. CASE i # k + 1
    <3>1. i \in 1..k /\ i \in 1..n /\ i <= k
      BY <1>1, <1>3, <1>7, <2>2
    <3> QED
      BY <1>5, <1>6, <3>1
  <2> QED
    BY <2>1, <2>2
<1>8. ASSUME NEW i \in 1..(n + 1), i >= k + 1 PROVE h <= r[q[i]].height
  <2>1. CASE i = k + 1
    BY <1>1, <1>6, <2>1
  <2>2. CASE i # k + 1
    <3>1. i \in (k + 2)..(n + 1) /\ i - 1 \in 1..n /\ i - 1 > k
      BY <1>1, <1>3, <1>8, <2>2
    <3> QED
      BY <1>4, <1>6, <3>1
  <2> QED
    BY <2>1, <2>2
<1>9. ASSUME NEW i \in 1..(n + 1) PROVE r[q[i]].height \in Nat
  <2>1. CASE i = k + 1
    BY <1>1, <1>6, <2>1
  <2>2. CASE i # k + 1
    <3>1. (i \in 1..k /\ i \in 1..n) \/ (i \in (k + 2)..(n + 1) /\ i - 1 \in 1..n)
      BY <1>1, <1>3, <2>2
    <3> QED
      BY <1>1, <1>6, <3>1
  <2> QED
    BY <2>1, <2>2
<1>10. ASSUME NEW i \in 1..(n + 1), NEW j \in 1..(n + 1), i < j
       PROVE  r[q[i]].height <= r[q[j]].height
  <2>1. CASE j <= k
    <3>1. i \in 1..k /\ j \in 1..k /\ i \in DOMAIN s /\ j \in DOMAIN s
      BY <1>1, <1>3, <1>10, <2>1
    <3>2. q[i] = s[i] /\ q[j] = s[j]
      BY <1>6, <3>1
    <3> QED
      BY <1>10, <3>1, <3>2 DEF Ordered
  <2>2. CASE i >= k + 2
    <3>1. /\ i \in (k + 2)..(n + 1) /\ j \in (k + 2)..(n + 1) /\ i - 1 < j - 1
          /\ i - 1 \in DOMAIN s /\ j - 1 \in DOMAIN s
      BY <1>1, <1>3, <1>10, <2>2
    <3>2. q[i] = s[i - 1] /\ q[j] = s[j - 1]
      BY <1>6, <3>1
    <3> QED
      BY <3>1, <3>2 DEF Ordered
  <2>3. CASE i <= k + 1 /\ j >= k + 1
    <3>1. r[q[i]].height <= h /\ h <= r[q[j]].height
      BY <1>7, <1>8, <2>3
    <3>2. r[q[i]].height \in Nat /\ r[q[j]].height \in Nat
      BY <1>9
    <3> QED
      BY <1>1, <3>1, <3>2
  <2> QED
    BY <1>3, <2>1, <2>2, <2>3
<1> QED
  BY <1>6, <1>10 DEF Ordered, q

LEMMA WithoutOrdered ==
  ASSUME NEW r, NEW R, NEW s, Lists(s, R), Ordered(r, s), NEW t
  PROVE  Ordered(r, Without(s, t))
<1>1. CASE t \notin Range(s)
  BY <1>1 DEF Without
<1>2. CASE t \in Range(s)
  <2> DEFINE k == CHOOSE i \in DOMAIN s : s[i] = t
             n == Len(s)
             q == RemoveAt(s, k)
             from(i) == IF i < k THEN i ELSE i + 1
  <2>1. k \in DOMAIN s
    <3>1. \E i \in DOMAIN s : s[i] = t
      BY <1>2 DEF Range
    <3> QED
      BY <3>1
  <2>2. Without(s, t) = q
    BY <1>2 DEF Without
  <2>3. s \in Seq(R) /\ n \in Nat /\ DOMAIN s = 1..n
    BY DEF Lists
  <2> HIDE DEF k
  <2>4. k \in 1..Len(s)
    BY <2>1, <2>3
  <2>5. /\ q \in Seq(R) /\ Len(q) = Len(s) - 1
        /\ \A i \in 1..(k - 1) : q[i] = s[i]
        /\ \A i \in k..(Len(s) - 1) : q[i] = s[i + 1]
    BY <2>3, <2>4, Dropped
  <2> HIDE DEF q
  <2>6. DOMAIN q = 1..(n - 1)
    BY <2>3, <2>4, <2>5
  <2>7. ASSUME NEW i \in 1..(n - 1) PROVE q[i] = s[from(i)] /\ from(i) \in 1..n
    <3>1. CASE i < k
      <4>1. i \in 1..(k - 1)
        BY <2>3, <2>4, <3>1
      <4> QED
        BY <2>3, <2>5, <3>1, <4>1
    <3>2. CASE ~ (i < k)
      <4>1. i \in k..(Len(s) - 1)
        BY <2>3, <2>4, <3>2
      <4> QED
        BY <2>3, <2>5, <3>2, <4>1
    <3> QED
      BY <3>1, <3>2
  <2>8. ASSUME NEW i \in 1..(n - 1), NEW j \in 1..(n - 1), i < j
        PROVE  r[q[i]].height <= r[q[j]].height
    <3>1. from(i) < from(j)
      BY <2>3, <2>4, <2>8
    <3>2. from(i) \in DOMAIN s /\ from(j) \in DOMAIN s
      BY <2>3, <2>7
    <3> HIDE DEF from
    <3>3. r[s[from(i)]].height <= r[s[from(j)]].height
      BY <3>1, <3>2 DEF Ordered
    <3> QED
      BY <2>7, <3>3
  <2> QED
    BY <2>2, <2>6, <2>8 DEF Ordered
<1> QED
  BY <1>1, <1>2

----------------------------------------------------------------------------
(* The records.  A height is vouched for by signatures, or by a server:    *)
(* then the record is marked, unless a load may have dropped the mark.     *)

Claimed == {c[1] : c \in Claims}
Gullible(t) == t \in Claimed /\ "load" \in Api

HeightOK(t, e) ==
  e.height # Unconfirmed => Signed[t] = Ins[t] \/ (t \in Claimed /\ e.always) \/ Gullible(t)

CheckOK(t, e) == e \in Record /\ \A A \in e.accepted : A \subseteq Signed[t]

RecordOK(t, e) == CheckOK(t, e) /\ HeightOK(t, e)

Records(r) == DOMAIN r \subseteq Txs /\ \A t \in DOMAIN r : RecordOK(t, r[t])

SameHeights(r, q) ==
  /\ DOMAIN q = DOMAIN r
  /\ \A t \in DOMAIN r : q[t].height = r[t].height /\ q[t].always = r[t].always

LEMMA OwnedOK ==
  ASSUME NEW r, NEW w, NEW t \in Txs
  PROVE  /\ OwnedInputs(r, w, t) \subseteq Ins[t]
         /\ OwnedInputs(r, w, t) \subseteq Outpoints
         /\ \A q : DOMAIN q = DOMAIN r => OwnedInputs(q, w, t) = OwnedInputs(r, w, t)
<1>1. OwnedInputs(r, w, t) \subseteq Ins[t]
  BY DEF OwnedInputs
<1>2. Ins[t] \subseteq Outpoints
  BY InsAreOutpoints
<1>3. ASSUME NEW q, DOMAIN q = DOMAIN r PROVE OwnedInputs(q, w, t) = OwnedInputs(r, w, t)
  BY <1>3 DEF OwnedInputs
<1> QED
  BY <1>1, <1>2, <1>3

(* What a check of the signatures concludes, and what it leaves behind.    *)
Verdict(c, r, w, t, e) ==
  /\ c.ok \in BOOLEAN /\ CheckOK(t, c.rec)
  /\ c.rec.height = e.height /\ c.rec.always = e.always
  /\ c.ok => OwnedInputs(r, w, t) \subseteq Signed[t] \/ Gullible(t)
  /\ Signed[t] = Ins[t] => c.ok

LEMMA SignaturesChecked ==
  ASSUME NEW r, NEW w, NEW t \in Txs, NEW e, CheckOK(t, e), NEW always \in BOOLEAN,
         always \/ HeightOK(t, e)
  PROVE  Verdict(SpendsSigned(r, w, t, e, always), r, w, t, e)
<1> DEFINE owned == OwnedInputs(r, w, t)
           exempt == e.height # Unconfirmed /\ ~ always /\ ~ e.always
           fresh == Unaccepted(e, owned)
           c == SpendsSigned(r, w, t, e, always)
<1>1. /\ c.ok = (exempt \/ ~ fresh \/ owned \subseteq Signed[t])
      /\ c.rec = IF ~ exempt /\ fresh /\ owned \subseteq Signed[t]
                 THEN [e EXCEPT !.accepted = {owned}] ELSE e
  BY DEF SpendsSigned
<1>2. owned \subseteq Ins[t] /\ owned \subseteq Outpoints
  BY OwnedOK
<1> HIDE DEF c, owned
<1>3. e \in Record /\ e.always \in BOOLEAN
  BY DEF CheckOK, Record
<1>4. c.ok \in BOOLEAN
  BY <1>1
<1>5. c.rec.height = e.height /\ c.rec.always = e.always
  BY <1>1, <1>3 DEF Record
<1>6. CheckOK(t, c.rec)
  <2>1. CASE c.rec = e
    BY <2>1
  <2>2. CASE c.rec = [e EXCEPT !.accepted = {owned}] /\ owned \subseteq Signed[t]
    <3>1. {owned} \in SUBSET SUBSET Outpoints
      BY <1>2
    <3>2. c.rec \in Record /\ c.rec.accepted = {owned}
      BY <1>3, <2>2, <3>1 DEF Record
    <3> QED
      BY <1>5, <2>2, <3>2 DEF CheckOK
  <2> QED
    BY <1>1, <2>1, <2>2
<1>7. ASSUME c.ok PROVE owned \subseteq Signed[t] \/ Gullible(t)
  <2>1. CASE exempt
    BY <1>2, <2>1 DEF HeightOK
  <2>2. CASE ~ fresh
    <3>1. e.accepted = {owned}
      BY <2>2 DEF Unaccepted
    <3> QED
      BY <3>1 DEF CheckOK
  <2> QED
    BY <1>1, <1>7, <2>1, <2>2
<1>8. Signed[t] = Ins[t] => c.ok
  BY <1>1, <1>2
<1> QED
  BY <1>4, <1>5, <1>6, <1>7, <1>8 DEF c, owned, Verdict

----------------------------------------------------------------------------
(* The pass over the list: what it keeps, and what it finds.               *)

CreditFields == {"spent", "invalid", "pending", "used", "utxos", "assetUtxos", "immature",
                 "nextMaturity", "coinbaseOutputs", "window"}

LEMMA NoCreditFields ==
  /\ DOMAIN NoCredit = CreditFields
  /\ NoCredit.spent = {} /\ NoCredit.invalid = {} /\ NoCredit.used = {} /\ NoCredit.utxos = {}
BY DEF NoCredit, CreditFields

(* The coins of c are outputs of the records r that pay its window; those  *)
(* of a coin generation are deep enough below the tip.                     *)
CoinsOf(c, r) ==
  \A o \in c.utxos :
     o[1] \in DOMAIN r /\ o[2] \in DOMAIN Pays[o[1]] /\ Pays[o[1]][o[2]] \in 1..c.window

RipeAt(c, r, wtip) ==
  \A o \in c.utxos : o[1] \in Coinbase =>
     r[o[1]].height # Unconfirmed /\ ~ (wtip < r[o[1]].height + Maturity)

Passed(acc, r, w, wtip) ==
  /\ DOMAIN acc = {"rec", "credit"}
  /\ Records(acc.rec) /\ SameHeights(r, acc.rec)
  /\ DOMAIN acc.credit = CreditFields
  /\ acc.credit.window = w /\ acc.credit.used \subseteq Addresses
  /\ CoinsOf(acc.credit, r) /\ RipeAt(acc.credit, r, wtip)
  /\ \A t \in acc.credit.invalid : r[t].height = Unconfirmed \/ Signed[t] # Ins[t]

Judged(c, r, w, t) ==
  t \notin c.invalid => /\ Ins[t] \subseteq c.spent
                        /\ OwnedInputs(r, w, t) \subseteq Signed[t] \/ Gullible(t)

Extends(c, d) == c.invalid \subseteq d.invalid /\ c.spent \subseteq d.spent

LEMMA CountedOK ==
  ASSUME NEW c, DOMAIN c = CreditFields, NEW t, NEW h, NEW w, NEW wtip, NEW over
  PROVE  LET d == Counted(c, t, h, w, wtip, over)
         IN /\ DOMAIN d = CreditFields
            /\ d.spent = c.spent /\ d.invalid = c.invalid /\ d.window = c.window
            /\ d.used = c.used \cup PaysOf(t)
            /\ d.utxos \subseteq c.utxos \cup Coins(t, w)
            /\ t \in Coinbase /\ ~ (d.utxos \subseteq c.utxos)
                  => h # Unconfirmed /\ ~ (wtip < h + Maturity)
<1> DEFINE coins == Coins(t, w)
           paid == [c EXCEPT !.used = @ \cup PaysOf(t),
                             !.coinbaseOutputs = @ + (IF t \in Coinbase THEN Cardinality(coins) ELSE 0)]
           young == t \in Coinbase /\ (h = Unconfirmed \/ wtip < h + Maturity)
           d == Counted(c, t, h, w, wtip, over)
           late == IF coins = {} \/ h = Unconfirmed THEN paid.nextMaturity
                   ELSE Min({paid.nextMaturity, h + Maturity})
<1>1. /\ DOMAIN paid = CreditFields
      /\ paid.spent = c.spent /\ paid.invalid = c.invalid /\ paid.window = c.window
      /\ paid.used = c.used \cup PaysOf(t) /\ paid.utxos = c.utxos
  BY DEF CreditFields
<1>2. d = IF young
          THEN [paid EXCEPT !.immature = @ \cup coins, !.nextMaturity = late]
          ELSE [paid EXCEPT !.utxos = @ \cup (coins \ over), !.assetUtxos = @ \cup (coins \cap over)]
  BY DEF Counted
<1> HIDE DEF coins, paid, young, d, late
<1>3. /\ DOMAIN d = CreditFields
      /\ d.spent = c.spent /\ d.invalid = c.invalid /\ d.window = c.window
      /\ d.used = c.used \cup PaysOf(t)
      /\ d.utxos \subseteq c.utxos \cup coins
      /\ young => d.utxos \subseteq c.utxos
  <2>1. CASE young
    BY <1>1, <1>2, <2>1 DEF CreditFields
  <2>2. CASE ~ young
    BY <1>1, <1>2, <2>2 DEF CreditFields
  <2> QED
    BY <2>1, <2>2
<1> QED
  BY <1>3 DEF d, coins, young

LEMMA CoinsPay ==
  ASSUME NEW t, NEW w, NEW o \in Coins(t, w)
  PROVE  o[1] = t /\ o[2] \in DOMAIN Pays[o[1]] /\ Pays[o[1]][o[2]] \in 1..w
BY DEF Coins

LEMMA WeighedOK ==
  ASSUME NEW acc, NEW r, NEW w, NEW wtip, Passed(acc, r, w, wtip),
         DOMAIN r \subseteq Txs, NEW t \in DOMAIN r, NEW over
  PROVE  LET b == Weighed(acc, t, w, wtip, over)
         IN /\ Passed(b, r, w, wtip) /\ Extends(acc.credit, b.credit)
            /\ Judged(b.credit, r, w, t)
<1> DEFINE q == acc.rec
           c == acc.credit
           h == q[t].height
           doubled == h = Unconfirmed /\ (Ins[t] \cap c.spent # {} \/ Parents(t) \cap c.invalid # {})
           check == SpendsSigned(q, w, t, q[t], FALSE)
           spends == [c EXCEPT !.spent = @ \cup Ins[t]]
           waits == h = Unconfirmed /\ (t \in Delayed \/ Parents(t) \cap c.pending # {})
           kept == IF waits THEN [spends EXCEPT !.pending = @ \cup {t}, !.used = @ \cup PaysOf(t)]
                   ELSE Counted(spends, t, h, w, wtip, over)
           b == Weighed(acc, t, w, wtip, over)
<1>1. b = IF doubled \/ ~ check.ok THEN [acc EXCEPT !.credit.invalid = @ \cup {t}]
          ELSE [rec |-> [q EXCEPT ![t] = check.rec], credit |-> kept]
  BY DEF Weighed
<1>2. /\ DOMAIN acc = {"rec", "credit"}
      /\ Records(q) /\ SameHeights(r, q)
      /\ DOMAIN c = CreditFields
      /\ c.window = w /\ c.used \subseteq Addresses
      /\ CoinsOf(c, r) /\ RipeAt(c, r, wtip)
      /\ \A u \in c.invalid : r[u].height = Unconfirmed \/ Signed[u] # Ins[u]
  BY DEF Passed
<1>3. t \in Txs /\ t \in DOMAIN q /\ DOMAIN q = DOMAIN r /\ h = r[t].height
  BY <1>2 DEF SameHeights
<1>4. /\ check.ok \in BOOLEAN /\ RecordOK(t, check.rec)
      /\ check.rec.height = h /\ check.rec.always = q[t].always
      /\ check.ok => OwnedInputs(q, w, t) \subseteq Signed[t] \/ Gullible(t)
      /\ Signed[t] = Ins[t] => check.ok
  <2>1. RecordOK(t, q[t])
    BY <1>2, <1>3 DEF Records
  <2>2. PICK e : e = q[t]
    OBVIOUS
  <2>3. PICK x : x = FALSE
    OBVIOUS
  <2>4. CheckOK(t, e) /\ HeightOK(t, e) /\ x \in BOOLEAN
    BY <2>1, <2>2, <2>3 DEF RecordOK
  <2> HIDE DEF q
  <2>5. Verdict(SpendsSigned(q, w, t, e, x), q, w, t, e)
    BY <1>3, <2>4, SignaturesChecked
  <2>6. check = SpendsSigned(q, w, t, e, x)
    BY <2>2, <2>3
  <2> HIDE DEF check
  <2> QED
    BY <2>2, <2>4, <2>5, <2>6 DEF Verdict, RecordOK, HeightOK
<1>5. OwnedInputs(q, w, t) = OwnedInputs(r, w, t)
  BY <1>3, OwnedOK
<1>6. PaysOf(t) \subseteq Addresses
  BY <1>3 DEF Addresses
<1>7. CASE doubled \/ ~ check.ok
  <2>1. /\ DOMAIN b = {"rec", "credit"} /\ b.rec = q
        /\ b.credit = [c EXCEPT !.invalid = @ \cup {t}]
    BY <1>1, <1>2, <1>7
  <2>2. h = Unconfirmed \/ Signed[t] # Ins[t]
    BY <1>4, <1>7
  <2> DEFINE d == b.credit
  <2>3. /\ DOMAIN d = CreditFields /\ d.invalid = c.invalid \cup {t} /\ d.spent = c.spent
        /\ d.window = c.window /\ d.used = c.used /\ d.utxos = c.utxos
    BY <1>2, <2>1 DEF CreditFields
  <2> HIDE DEF b, c, q
  <2>4. CoinsOf(b.credit, r) /\ RipeAt(b.credit, r, wtip)
    BY <1>2, <2>3 DEF CoinsOf, RipeAt
  <2>5. \A u \in d.invalid : r[u].height = Unconfirmed \/ Signed[u] # Ins[u]
    BY <1>2, <1>3, <2>2, <2>3
  <2>6. Passed(b, r, w, wtip)
    BY <1>2, <2>1, <2>3, <2>4, <2>5 DEF Passed
  <2>7. Extends(c, b.credit) /\ Judged(b.credit, r, w, t)
    BY <2>3 DEF Extends, Judged
  <2> QED
    BY <2>6, <2>7 DEF b, c
<1>8. CASE ~ (doubled \/ ~ check.ok)
  <2>1. b = [rec |-> [q EXCEPT ![t] = check.rec], credit |-> kept]
    BY <1>1, <1>8
  <2>2. /\ DOMAIN spends = CreditFields /\ spends.spent = c.spent \cup Ins[t]
        /\ spends.invalid = c.invalid /\ spends.window = c.window
        /\ spends.used = c.used /\ spends.utxos = c.utxos
    BY <1>2 DEF CreditFields
  <2> DEFINE p == spends
  <2>3. /\ DOMAIN kept = CreditFields /\ kept.spent = p.spent /\ kept.invalid = p.invalid
        /\ kept.window = p.window /\ kept.used = p.used \cup PaysOf(t)
        /\ kept.utxos \subseteq p.utxos \cup Coins(t, w)
        /\ t \in Coinbase /\ ~ (kept.utxos \subseteq p.utxos)
              => h # Unconfirmed /\ ~ (wtip < h + Maturity)
    <3>1. CASE waits
      <4>1. kept = [p EXCEPT !.pending = @ \cup {t}, !.used = @ \cup PaysOf(t)]
        BY <3>1
      <4> HIDE DEF p, kept
      <4> QED
        BY <2>2, <4>1 DEF CreditFields, p
    <3>2. CASE ~ waits
      <4>1. kept = Counted(p, t, h, w, wtip, over)
        BY <3>2
      <4>2. DOMAIN p = CreditFields
        BY <2>2
      <4> HIDE DEF p, kept, h
      <4> QED
        BY <4>1, <4>2, CountedOK
    <3> QED
      BY <3>1, <3>2
  <2>4. /\ DOMAIN b = {"rec", "credit"} /\ b.rec = [q EXCEPT ![t] = check.rec] /\ b.credit = kept
    BY <2>1
  <2>5. /\ DOMAIN kept = CreditFields /\ kept.spent = c.spent \cup Ins[t]
        /\ kept.invalid = c.invalid /\ kept.window = w /\ kept.used \subseteq Addresses
        /\ kept.utxos \subseteq c.utxos \cup Coins(t, w)
        /\ t \in Coinbase /\ ~ (kept.utxos \subseteq c.utxos)
              => h # Unconfirmed /\ ~ (wtip < h + Maturity)
    <3> HIDE DEF kept, p
    <3> QED
      BY <1>2, <1>6, <2>2, <2>3 DEF p
  <2>6. Records(b.rec) /\ SameHeights(r, b.rec)
    <3> HIDE DEF check, q, b, kept
    <3>1. DOMAIN b.rec = DOMAIN q /\ b.rec[t] = check.rec
          /\ \A u \in DOMAIN q : u # t => b.rec[u] = q[u]
      BY <1>3, <2>4
    <3>2. Records(b.rec)
      BY <1>2, <1>4, <3>1 DEF Records
    <3>3. SameHeights(r, b.rec)
      BY <1>2, <1>3, <1>4, <3>1 DEF SameHeights, h, q
    <3> QED
      BY <3>2, <3>3
  <2> HIDE DEF b, c, q, kept, p
  <2>7. CoinsOf(b.credit, r)
    BY <1>2, <2>4, <2>5, CoinsPay DEF CoinsOf
  <2>8. RipeAt(b.credit, r, wtip)
    <3> SUFFICES ASSUME NEW o \in kept.utxos, o[1] \in Coinbase
                 PROVE  r[o[1]].height # Unconfirmed /\ ~ (wtip < r[o[1]].height + Maturity)
      BY <2>4 DEF RipeAt
    <3>1. CASE o \in c.utxos
      BY <1>2, <3>1 DEF RipeAt
    <3>2. CASE o \notin c.utxos
      <4>1. o \in Coins(t, w)
        BY <2>5, <3>2
      <4>2. o[1] = t
        BY <4>1, CoinsPay
      <4> QED
        BY <1>3, <2>5, <3>2, <4>2
    <3> QED
      BY <3>1, <3>2
  <2>9. Passed(b, r, w, wtip)
    BY <1>2, <2>4, <2>5, <2>6, <2>7, <2>8 DEF Passed
  <2>10. Extends(c, b.credit)
    BY <2>4, <2>5 DEF Extends
  <2>11. Judged(b.credit, r, w, t)
    BY <1>4, <1>5, <1>8, <2>4, <2>5 DEF Judged
  <2> QED
    BY <2>10, <2>11, <2>9 DEF b, c
<1> QED
  BY <1>7, <1>8

PassOf(f, b, r, s, w, wtip, over) ==
  /\ f[0] = [rec |-> r, credit |-> [NoCredit EXCEPT !.window = w]]
  /\ \A n \in 1..Len(s) : f[n] = Weighed(f[n - 1], s[n], w, wtip, over)
  /\ b = [f[Len(s)] EXCEPT !.credit.utxos = @ \ f[Len(s)].credit.spent]

LEMMA RebuildFolds ==
  ASSUME NEW r, NEW s, Len(s) \in Nat, NEW w, NEW wtip, NEW over
  PROVE  \E f : PassOf(f, Rebuild(r, s, w, wtip, over), r, s, w, wtip, over)
<1> DEFINE M == Len(s)
           base == [rec |-> r, credit |-> [NoCredit EXCEPT !.window = w]]
           More(n, x) == Weighed(x, s[n], w, wtip, over)
<1> DEFINE Upto(k, f) == f = [n \in 0..k |-> IF n = 0 THEN base ELSE More(n, f[n - 1])]
           T == {k \in 0..M : \E f : Upto(k, f)}
           all == CHOOSE f : Upto(M, f)
<1>0. M \in Nat
  OBVIOUS
<1>1. Rebuild(r, s, w, wtip, over) = [all[M] EXCEPT !.credit.utxos = @ \ all[M].credit.spent]
  BY DEF Rebuild
<1> HIDE DEF More, base, M
<1>2. 0 \in T
  <2> DEFINE g == [n \in 0..0 |-> base]
  <2>1. Upto(0, g)
    OBVIOUS
  <2> HIDE DEF g, Upto
  <2> QED
    BY <1>0, <2>1
<1>3. ASSUME NEW k \in 1..M, k - 1 \in T PROVE k \in T
  <2>1. PICK g : Upto(k - 1, g)
    BY <1>3
  <2> DEFINE f == [n \in 0..k |-> IF n = k THEN More(k, g[k - 1]) ELSE g[n]]
             h == [n \in 0..k |-> IF n = 0 THEN base ELSE More(n, f[n - 1])]
  <2>2. ASSUME NEW n \in 0..k PROVE f[n] = h[n]
    <3>1. CASE n = k
      <4>1. k # 0 /\ k - 1 \in 0..k /\ k - 1 # k
        BY <1>0, <1>3
      <4> QED
        BY <3>1, <4>1
    <3>2. CASE n = 0
      <4>1. k # 0 /\ 0 \in 0..(k - 1)
        BY <1>0, <1>3
      <4> QED
        BY <2>1, <3>2, <4>1
    <3>3. CASE n # k /\ n # 0
      <4>1. n \in 0..(k - 1) /\ n - 1 \in 0..k /\ n - 1 # k
        BY <1>0, <1>3, <3>3
      <4>2. g[n] = More(n, g[n - 1])
        BY <2>1, <3>3, <4>1
      <4> QED
        BY <3>3, <4>1, <4>2
    <3> QED
      BY <3>1, <3>2, <3>3
  <2>3. f = h
    <3>1. f = [n \in 0..k |-> f[n]] /\ h = [n \in 0..k |-> h[n]]
      OBVIOUS
    <3> HIDE DEF f, h
    <3> QED
      BY <2>2, <3>1
  <2>4. Upto(k, f)
    BY <2>3
  <2>5. k \in 0..M
    BY <1>0
  <2> HIDE DEF Upto, f
  <2> QED
    BY <2>4, <2>5
<1>4. M \in T
  <2>1. \A k \in 0..M : k \in T
    <3> HIDE DEF T
    <3> QED
      BY <1>0, <1>2, <1>3, Climb
  <2>2. M \in 0..M
    BY <1>0
  <2> QED
    BY <2>1, <2>2
<1>5. Upto(M, all)
  <2> HIDE DEF Upto
  <2>1. \E f : Upto(M, f)
    BY <1>4
  <2> QED
    BY <2>1
<1> HIDE DEF all
<1>6. all[0] = base /\ \A n \in 1..M : all[n] = More(n, all[n - 1])
  <2>1. \A n \in 0..M : all[n] = IF n = 0 THEN base ELSE More(n, all[n - 1])
    BY <1>5
  <2>2. 0 \in 0..M /\ \A n \in 1..M : n \in 0..M /\ n # 0
    BY <1>0
  <2> HIDE DEF Upto
  <2> QED
    BY <2>1, <2>2
<1> QED
  BY <1>1, <1>6 DEF M, base, More, PassOf

(* What the wallet offers agrees with the records r and the list s: no coin *)
(* that an accepted spend takes, or a proven one, and no accepted spend of  *)
(* a coin it does not sign.                                                 *)
Offers(c, r, s) ==
  /\ DOMAIN c = CreditFields /\ c.used \subseteq Addresses
  /\ CoinsOf(c, r)
  /\ \A t \in Range(s) :
        t \notin c.invalid \/ (r[t].height # Unconfirmed /\ Signed[t] = Ins[t])
           => Ins[t] \cap c.utxos = {}
  /\ \A t \in Range(s) \ c.invalid :
        OwnedInputs(r, c.window, t) \subseteq Signed[t] \/ Gullible(t)

LEMMA Rebuilt ==
  ASSUME NEW r, Records(r), NEW s, Lists(s, Range(s)), Range(s) \subseteq DOMAIN r,
         NEW w, NEW wtip, NEW over
  PROVE  LET b == Rebuild(r, s, w, wtip, over)
         IN /\ Records(b.rec) /\ SameHeights(r, b.rec)
            /\ Offers(b.credit, b.rec, s) /\ b.credit.window = w
            /\ RipeAt(b.credit, r, wtip)
<1> DEFINE M == Len(s)
           b == Rebuild(r, s, w, wtip, over)
           base == [rec |-> r, credit |-> [NoCredit EXCEPT !.window = w]]
<1>1. /\ M \in Nat /\ DOMAIN s = 1..M /\ DOMAIN r \subseteq Txs
      /\ \A i \in 1..M : s[i] \in DOMAIN r
  <2>1. s \in Seq(Range(s))
    BY DEF Lists
  <2>2. \A i \in DOMAIN s : s[i] \in DOMAIN r
    BY DEF Range
  <2> QED
    BY <2>1, <2>2 DEF Records
<1>2. PICK f : /\ f[0] = base
               /\ \A n \in 1..M : f[n] = Weighed(f[n - 1], s[n], w, wtip, over)
               /\ b = [f[M] EXCEPT !.credit.utxos = @ \ f[M].credit.spent]
  <2>1. \E f : PassOf(f, b, r, s, w, wtip, over)
    <3> HIDE DEF base
    <3> QED
      BY <1>1, RebuildFolds
  <2> QED
    BY <2>1 DEF PassOf
<1> DEFINE done(n) == /\ Passed(f[n], r, w, wtip)
                      /\ \A i \in 1..n : Judged(f[n].credit, r, w, s[i])
           T == {n \in 0..M : done(n)}
<1> HIDE DEF M, b
<1>3. 0 \in T
  <2>1. /\ DOMAIN base = {"rec", "credit"} /\ base.rec = r
        /\ base.credit = [NoCredit EXCEPT !.window = w]
    OBVIOUS
  <2> DEFINE c == base.credit
  <2>2. /\ DOMAIN c = CreditFields /\ c.window = w /\ c.used = {} /\ c.utxos = {} /\ c.invalid = {}
    BY <2>1, NoCreditFields DEF CreditFields
  <2> HIDE DEF base
  <2>3. Passed(base, r, w, wtip)
    BY <2>1, <2>2 DEF Passed, CoinsOf, RipeAt, SameHeights
  <2>4. 0 \in 0..M /\ 1..0 = {}
    BY <1>1
  <2>5. f[0] = base
    BY <1>2
  <2> QED
    BY <2>3, <2>4, <2>5
<1> HIDE DEF base
<1>4. ASSUME NEW n \in 1..M, n - 1 \in T PROVE n \in T
  <2> DEFINE acc == f[n - 1]
             nxt == f[n]
             t == s[n]
  <2>1. Passed(acc, r, w, wtip) /\ \A i \in 1..(n - 1) : Judged(acc.credit, r, w, s[i])
    BY <1>4
  <2>2. t \in DOMAIN r /\ nxt = Weighed(acc, t, w, wtip, over)
    BY <1>1, <1>2
  <2> HIDE DEF acc, nxt, t
  <2>3. /\ Passed(nxt, r, w, wtip) /\ Extends(acc.credit, nxt.credit) /\ Judged(nxt.credit, r, w, t)
    BY <1>1, <2>1, <2>2, WeighedOK
  <2>4. ASSUME NEW i \in 1..n PROVE Judged(nxt.credit, r, w, s[i])
    <3>1. CASE i = n
      BY <2>3, <3>1 DEF t
    <3>2. CASE i # n
      <4>1. i \in 1..(n - 1)
        BY <1>1, <3>2
      <4>2. Judged(acc.credit, r, w, s[i])
        BY <2>1, <4>1
      <4> QED
        BY <2>3, <4>2 DEF Judged, Extends
    <3> QED
      BY <3>1, <3>2
  <2>5. n \in 0..M
    BY <1>1
  <2> QED
    BY <2>3, <2>4, <2>5 DEF nxt
<1>5. done(M)
  <2>1. \A n \in 0..M : n \in T
    <3> HIDE DEF T
    <3> QED
      BY <1>1, <1>3, <1>4, Climb
  <2>2. M \in 0..M
    BY <1>1
  <2> QED
    BY <2>1, <2>2
<1> DEFINE g == f[M]
           c == g.credit
           d == b.credit
<1>6. Passed(g, r, w, wtip) /\ \A i \in 1..M : Judged(c, r, w, s[i])
  BY <1>5
<1>7. b = [g EXCEPT !.credit.utxos = @ \ c.spent]
  BY <1>2
<1> HIDE DEF g
<1>8. /\ Records(g.rec) /\ SameHeights(r, g.rec) /\ DOMAIN g = {"rec", "credit"}
      /\ DOMAIN c = CreditFields /\ c.window = w /\ c.used \subseteq Addresses
      /\ CoinsOf(c, r) /\ RipeAt(c, r, wtip)
      /\ \A t \in c.invalid : r[t].height = Unconfirmed \/ Signed[t] # Ins[t]
  BY <1>6 DEF Passed
<1>9. b.rec = g.rec /\ d = [c EXCEPT !.utxos = @ \ c.spent]
  BY <1>7, <1>8
<1> HIDE DEF c, d
<1>10. /\ DOMAIN d = CreditFields /\ d.window = w /\ d.used = c.used /\ d.invalid = c.invalid
       /\ d.utxos = c.utxos \ c.spent
  BY <1>8, <1>9 DEF CreditFields
<1>11. DOMAIN b.rec = DOMAIN r /\ \A t \in DOMAIN r : b.rec[t].height = r[t].height
  BY <1>8, <1>9 DEF SameHeights
<1>12. \A t \in Range(s) : Judged(c, r, w, t)
  BY <1>1, <1>6 DEF Range
<1>13. CoinsOf(d, b.rec)
  BY <1>8, <1>10, <1>11 DEF CoinsOf
<1>14. ASSUME NEW t \in Range(s),
              t \notin d.invalid \/ (b.rec[t].height # Unconfirmed /\ Signed[t] = Ins[t])
       PROVE  Ins[t] \cap d.utxos = {}
  <2>1. t \in DOMAIN r
    OBVIOUS
  <2>2. t \notin c.invalid
    BY <1>8, <1>10, <1>11, <1>14, <2>1
  <2> QED
    BY <1>10, <1>12, <2>2 DEF Judged
<1>15. ASSUME NEW t \in Range(s) \ d.invalid
       PROVE  OwnedInputs(b.rec, d.window, t) \subseteq Signed[t] \/ Gullible(t)
  <2>1. t \in Txs
    BY <1>1
  <2>2. OwnedInputs(b.rec, w, t) = OwnedInputs(r, w, t)
    BY <1>11, <2>1, OwnedOK
  <2> QED
    BY <1>10, <1>12, <2>2 DEF Judged
<1>16. Offers(d, b.rec, s)
  BY <1>8, <1>10, <1>13, <1>14, <1>15 DEF Offers
<1>17. Records(b.rec) /\ SameHeights(r, b.rec)
  BY <1>8, <1>9
<1>18. RipeAt(d, r, wtip)
  BY <1>8, <1>10 DEF RipeAt
<1> QED
  BY <1>10, <1>16, <1>17, <1>18 DEF b, d

(* The records and the balance after a call that rebuilds, or need not.    *)
LEMMA Settled ==
  ASSUME NEW r, Records(r), NEW s, Lists(s, Range(s)), Range(s) \subseteq DOMAIN r,
         NEW w, NEW wtip, NEW over, NEW needed \in BOOLEAN,
         needed \/ Offers(credit, r, s),
         Settle(r, s, w, wtip, over, needed)
  PROVE  /\ Records(rec') /\ SameHeights(r, rec') /\ Offers(credit', rec', s)
         /\ credit'.window = w \/ credit'.window = credit.window
         /\ transactions' = s /\ tip' = wtip
         /\ RipeAt(credit', r, wtip) \/ (~ needed /\ rec' = r /\ credit' = credit)
<1>1. CASE needed
  <2> DEFINE b == Rebuild(r, s, w, wtip, over)
  <2>1. rec' = b.rec /\ credit' = b.credit /\ transactions' = s /\ tip' = wtip
    BY <1>1 DEF Settle
  <2>2. /\ Records(b.rec) /\ SameHeights(r, b.rec)
        /\ Offers(b.credit, b.rec, s) /\ b.credit.window = w
        /\ RipeAt(b.credit, r, wtip)
    BY Rebuilt
  <2> HIDE DEF b
  <2> QED
    BY <2>1, <2>2
<1>2. CASE ~ needed
  <2>1. rec' = r /\ credit' = credit /\ transactions' = s /\ tip' = wtip
    BY <1>2 DEF Settle
  <2>2. SameHeights(r, r)
    BY DEF SameHeights
  <2>3. Offers(credit, r, s)
    BY <1>2
  <2> QED
    BY <1>2, <2>1, <2>2, <2>3
<1> QED
  BY <1>1, <1>2

----------------------------------------------------------------------------
(* Heights stamped in place. *)

(* No coin is offered that a proven spend in the list takes.               *)
Clear(r) ==
  \A t \in Range(transactions) :
     r[t].height # Unconfirmed /\ Signed[t] = Ins[t] => Ins[t] \cap credit.utxos = {}

Stamping(acc) ==
  /\ DOMAIN acc = {"rec", "list", "foreign", "needed"}
  /\ Records(acc.rec) /\ DOMAIN acc.rec = DOMAIN rec
  /\ Lists(acc.list, Range(transactions))
  /\ acc.foreign = foreign /\ acc.needed \in BOOLEAN
  /\ acc.needed \/ Clear(acc.rec)

(* The height comes with a proof, or a server vouches for it.              *)
Vouched(t, h, unproven) ==
  h # Unconfirmed => Signed[t] = Ins[t] \/ (unproven /\ t \in Claimed)

LEMMA StampedOK ==
  ASSUME DualKey, NEW acc, Stamping(acc), NEW t \in Txs, NEW h \in 1..Unconfirmed,
         NEW unproven \in BOOLEAN, NEW restamp, Vouched(t, h, unproven),
         Offers(credit, rec, transactions), credit.window \in Nat, window \in Nat,
         credit.window <= window, Range(transactions) \subseteq DOMAIN rec
  PROVE  Stamping(Stamped(acc, t, h, unproven, restamp))
<1> DEFINE r == acc.rec
           old == r[t].height
           back == old # Unconfirmed /\ h = Unconfirmed
           new == [r[t] EXCEPT !.height = h, !.always = @ \/ unproven,
                               !.accepted = IF back THEN {} ELSE @]
           with == [r EXCEPT ![t] = new]
           matters == \/ t \in credit.pending \cup credit.invalid \cup Coinbase
                      \/ old # Unconfirmed /\ old # h
           b == Stamped(acc, t, h, unproven, restamp)
           L == Range(transactions)
<1>1. CASE t \notin DOMAIN r \/ (old = h /\ ~ restamp) \/ (unproven /\ old # Unconfirmed)
  <2>1. b = acc
    BY <1>1 DEF Stamped
  <2> QED
    BY <2>1
<1>2. CASE ~ (t \notin DOMAIN r \/ (old = h /\ ~ restamp) \/ (unproven /\ old # Unconfirmed))
  <2>1. b = IF ContainsTx(with, window, t)
            THEN [acc EXCEPT !.rec = with,
                             !.list = IF t \in Range(@) THEN InsertTx(with, Without(@, t), t) ELSE @,
                             !.needed = @ \/ matters]
            ELSE [acc EXCEPT !.rec = with]
    BY <1>2 DEF Stamped
  <2>2. /\ DOMAIN acc = {"rec", "list", "foreign", "needed"}
        /\ Records(r) /\ DOMAIN r = DOMAIN rec /\ Lists(acc.list, L)
        /\ acc.foreign = foreign /\ acc.needed \in BOOLEAN
        /\ acc.needed \/ Clear(r)
    BY DEF Stamping
  <2>3. t \in DOMAIN r
    BY <1>2
  <2>4. RecordOK(t, new) /\ new.height = h
    <3>1. RecordOK(t, r[t])
      BY <2>2, <2>3 DEF Records
    <3>2. PICK e : e = r[t]
      OBVIOUS
    <3>3. e \in Record /\ \A A \in e.accepted : A \subseteq Signed[t]
      BY <3>1, <3>2 DEF RecordOK, CheckOK
    <3>4. /\ new \in Record /\ new.height = h /\ new.always = (e.always \/ unproven)
          /\ new.accepted \subseteq e.accepted
      <4> HIDE DEF r
      <4> QED
        BY <3>2, <3>3 DEF Record
    <3>5. e.always \in BOOLEAN
      BY <3>3 DEF Record
    <3> HIDE DEF new
    <3>6. \A A \in new.accepted : A \subseteq Signed[t]
      BY <3>3, <3>4
    <3>7. new.height # Unconfirmed =>
            Signed[t] = Ins[t] \/ (t \in Claimed /\ new.always) \/ Gullible(t)
      BY <3>4, <3>5 DEF Vouched
    <3> QED
      BY <3>4, <3>6, <3>7 DEF RecordOK, CheckOK, HeightOK
  <2>5. /\ DOMAIN with = DOMAIN r /\ with[t] = new
        /\ \A u \in DOMAIN r : u # t => with[u] = r[u]
    <3> HIDE DEF r, new
    <3> QED
      BY <2>3
  <2> HIDE DEF new, with, r
  <2>6. Records(with)
    BY <2>2, <2>4, <2>5 DEF Records
  <2>8. CASE ContainsTx(with, window, t)
    <3> DEFINE list == IF t \in Range(acc.list) THEN InsertTx(with, Without(acc.list, t), t) ELSE acc.list
               need == acc.needed \/ matters
    <3>1. b = [acc EXCEPT !.rec = with, !.list = list, !.needed = need]
      BY <2>1, <2>8
    <3> HIDE DEF list, need
    <3>2. /\ DOMAIN b = {"rec", "list", "foreign", "needed"} /\ b.rec = with /\ b.list = list
          /\ b.foreign = foreign /\ b.needed = need
      BY <2>2, <3>1
    <3>3. Lists(list, L)
      <4>1. CASE t \notin Range(acc.list)
        BY <2>2, <4>1 DEF list
      <4>2. CASE t \in Range(acc.list)
        <5>1. t \in L
          BY <2>2, <4>2 DEF Lists
        <5> DEFINE rest == Without(acc.list, t)
                   R == L \ {t}
        <5>2. Lists(rest, R)
          BY <2>2, WithoutLists
        <5>3. t \notin R /\ R \cup {t} = L
          BY <5>1
        <5>4. list = InsertTx(with, rest, t)
          BY <4>2 DEF list
        <5> HIDE DEF rest, R, L
        <5>5. Lists(InsertTx(with, rest, t), R \cup {t})
          BY <5>2, <5>3, InsertTxLists
        <5> QED
          BY <5>3, <5>4, <5>5
      <4> QED
        BY <4>1, <4>2
    <3>4. need \in BOOLEAN
      BY <2>2 DEF need
    <3>5. ASSUME ~ need PROVE Clear(with)
      <4>1. t \notin credit.invalid /\ Clear(r)
        BY <2>2, <3>5 DEF need
      <4> SUFFICES ASSUME NEW u \in L, with[u].height # Unconfirmed, Signed[u] = Ins[u]
                   PROVE  Ins[u] \cap credit.utxos = {}
        BY DEF Clear
      <4>2. CASE u = t
        BY <4>1, <4>2 DEF Offers
      <4>3. CASE u # t
        <5>1. u \in DOMAIN r => with[u].height = r[u].height
          BY <2>5, <4>3
        <5>2. u \in DOMAIN r
          BY <2>2
        <5> QED
          BY <4>1, <5>1, <5>2 DEF Clear
      <4> QED
        BY <4>2, <4>3
    <3> QED
      BY <2>2, <2>5, <2>6, <3>2, <3>3, <3>4, <3>5 DEF Stamping
  <2>9. CASE ~ ContainsTx(with, window, t)
    <3>1. b = [acc EXCEPT !.rec = with]
      BY <2>1, <2>9
    <3>2. /\ DOMAIN b = {"rec", "list", "foreign", "needed"} /\ b.rec = with /\ b.list = acc.list
          /\ b.foreign = foreign /\ b.needed = acc.needed
      BY <2>2, <3>1
    <3>3. Ins[t] \cap credit.utxos = {}
      <4> SUFFICES ASSUME NEW o \in Ins[t], o \in credit.utxos PROVE FALSE
        OBVIOUS
      <4>1. o[1] \in DOMAIN rec /\ Pays[o[1]][o[2]] \in 1..credit.window
        BY DEF Offers, CoinsOf
      <4>2. o \in OwnedInputs(with, window, t)
        BY <2>2, <2>5, <4>1 DEF OwnedInputs
      <4> QED
        BY <2>9, <4>2 DEF ContainsTx
    <3>4. ASSUME Clear(r) PROVE Clear(with)
      <4> SUFFICES ASSUME NEW u \in L, with[u].height # Unconfirmed, Signed[u] = Ins[u]
                   PROVE  Ins[u] \cap credit.utxos = {}
        BY DEF Clear
      <4>1. CASE u = t
        BY <3>3, <4>1
      <4>2. CASE u # t
        <5>1. u \in DOMAIN r => with[u].height = r[u].height
          BY <2>5, <4>2
        <5>2. u \in DOMAIN r
          BY <2>2
        <5> QED
          BY <3>4, <5>1, <5>2 DEF Clear
      <4> QED
        BY <4>1, <4>2
    <3> QED
      BY <2>2, <2>5, <2>6, <3>2, <3>4 DEF Stamping
  <2> QED
    BY <2>8, <2>9
<1> QED
  BY <1>1, <1>2

----------------------------------------------------------------------------
(* The invariant. *)

(* The records, the list, and what is offered from them.                   *)
Holding(r, s, fs, c) ==
  /\ Records(r) /\ Lists(s, Range(s)) /\ Range(s) \subseteq DOMAIN r
  /\ fs \subseteq DOMAIN r \ Range(s)
  /\ Offers(c, r, s)

Windows(c, w) == c.window \in Nat /\ w \in 1..MaxWindow /\ c.window <= w

Rest ==
  /\ tip \in 0..MaxHeight /\ overrides \subseteq Outpoints /\ growing \in BOOLEAN

OnChain ==
  best \in 1..MaxHeight /\ mined \in [Txs -> 0..MaxHeight] /\ Mineable(mined)

WalletInv == Holding(rec, transactions, foreign, credit) /\ Windows(credit, window) /\ Rest

Inv == WalletInv /\ OnChain

(* A call that settles on r and s, and on fs for the foreign records.      *)
LEMMA SettledInv ==
  ASSUME Windows(credit, window),
         NEW r, Records(r), NEW s, Lists(s, Range(s)), Range(s) \subseteq DOMAIN r,
         NEW fs, fs \subseteq DOMAIN r \ Range(s),
         NEW wtip, wtip \in 0..MaxHeight, NEW over, NEW needed \in BOOLEAN,
         needed \/ Offers(credit, r, s),
         Settle(r, s, window, wtip, over, needed),
         foreign' = fs, window' = window,
         overrides' \subseteq Outpoints, growing' \in BOOLEAN
  PROVE  WalletInv'
<1>1. /\ Records(rec') /\ SameHeights(r, rec') /\ Offers(credit', rec', s)
      /\ credit'.window = window \/ credit'.window = credit.window
      /\ transactions' = s /\ tip' = wtip
  BY Settled
<1>2. DOMAIN rec' = DOMAIN r
  BY <1>1 DEF SameHeights
<1>3. Holding(rec', transactions', foreign', credit')
  BY <1>1, <1>2 DEF Holding
<1>4. Windows(credit', window')
  BY <1>1 DEF Windows
<1>5. Rest'
  BY <1>1 DEF Rest
<1> QED
  BY <1>3, <1>4, <1>5 DEF WalletInv

----------------------------------------------------------------------------
(* BRWalletUpdateTransactions. *)

StampsOf(f, hashes, h, unproven, restamp, raised) ==
  /\ f[0] = [rec |-> rec, list |-> transactions, foreign |-> foreign,
             needed |-> raised /\ credit.coinbaseOutputs > 0 /\ h >= credit.nextMaturity]
  /\ \A n \in 1..Len(hashes) : f[n] = Stamped(f[n - 1], hashes[n], h, unproven, restamp)

LEMMA UpdateFolds ==
  ASSUME NEW hashes, Len(hashes) \in Nat, NEW h, NEW unproven, NEW restamp,
         UpdateTransactions(hashes, h, unproven, restamp)
  PROVE  \E f : LET raised == ~ unproven /\ h # Unconfirmed /\ h > tip
                    b == f[Len(hashes)]
                IN /\ StampsOf(f, hashes, h, unproven, restamp, raised)
                   /\ Settle(b.rec, b.list, window, IF raised THEN h ELSE tip, overrides, b.needed)
                   /\ foreign' = b.foreign
                   /\ UNCHANGED <<window, overrides, growing, removals>>
<1> DEFINE M == Len(hashes)
           raised == ~ unproven /\ h # Unconfirmed /\ h > tip
           base == [rec |-> rec, list |-> transactions, foreign |-> foreign,
                    needed |-> raised /\ credit.coinbaseOutputs > 0 /\ h >= credit.nextMaturity]
           More(n, x) == Stamped(x, hashes[n], h, unproven, restamp)
<1> DEFINE Upto(k, f) == f = [n \in 0..k |-> IF n = 0 THEN base ELSE More(n, f[n - 1])]
           T == {k \in 0..M : \E f : Upto(k, f)}
           all == CHOOSE f : Upto(M, f)
<1>0. M \in Nat
  OBVIOUS
<1>1. /\ Settle(all[M].rec, all[M].list, window, IF raised THEN h ELSE tip, overrides, all[M].needed)
      /\ foreign' = all[M].foreign
      /\ UNCHANGED <<window, overrides, growing, removals>>
  BY DEF UpdateTransactions
<1> HIDE DEF More, base, M
<1>2. 0 \in T
  <2> DEFINE g == [n \in 0..0 |-> base]
  <2>1. Upto(0, g)
    OBVIOUS
  <2> HIDE DEF g, Upto
  <2> QED
    BY <1>0, <2>1
<1>3. ASSUME NEW k \in 1..M, k - 1 \in T PROVE k \in T
  <2>1. PICK g : Upto(k - 1, g)
    BY <1>3
  <2> DEFINE f == [n \in 0..k |-> IF n = k THEN More(k, g[k - 1]) ELSE g[n]]
             g1 == [n \in 0..k |-> IF n = 0 THEN base ELSE More(n, f[n - 1])]
  <2>2. ASSUME NEW n \in 0..k PROVE f[n] = g1[n]
    <3>1. CASE n = k
      <4>1. k # 0 /\ k - 1 \in 0..k /\ k - 1 # k
        BY <1>0, <1>3
      <4> QED
        BY <3>1, <4>1
    <3>2. CASE n = 0
      <4>1. k # 0 /\ 0 \in 0..(k - 1)
        BY <1>0, <1>3
      <4> QED
        BY <2>1, <3>2, <4>1
    <3>3. CASE n # k /\ n # 0
      <4>1. n \in 0..(k - 1) /\ n - 1 \in 0..k /\ n - 1 # k
        BY <1>0, <1>3, <3>3
      <4>2. g[n] = More(n, g[n - 1])
        BY <2>1, <3>3, <4>1
      <4> QED
        BY <3>3, <4>1, <4>2
    <3> QED
      BY <3>1, <3>2, <3>3
  <2>3. f = g1
    <3>1. f = [n \in 0..k |-> f[n]] /\ g1 = [n \in 0..k |-> g1[n]]
      OBVIOUS
    <3> HIDE DEF f, g1
    <3> QED
      BY <2>2, <3>1
  <2>4. Upto(k, f)
    BY <2>3
  <2>5. k \in 0..M
    BY <1>0
  <2> HIDE DEF Upto, f
  <2> QED
    BY <2>4, <2>5
<1>4. M \in T
  <2>1. \A k \in 0..M : k \in T
    <3> HIDE DEF T
    <3> QED
      BY <1>0, <1>2, <1>3, Climb
  <2>2. M \in 0..M
    BY <1>0
  <2> QED
    BY <2>1, <2>2
<1>5. Upto(M, all)
  <2> HIDE DEF Upto
  <2>1. \E f : Upto(M, f)
    BY <1>4
  <2> QED
    BY <2>1
<1> HIDE DEF all
<1>6. all[0] = base /\ \A n \in 1..M : all[n] = More(n, all[n - 1])
  <2>1. \A n \in 0..M : all[n] = IF n = 0 THEN base ELSE More(n, all[n - 1])
    BY <1>5
  <2>2. 0 \in 0..M /\ \A n \in 1..M : n \in 0..M /\ n # 0
    BY <1>0
  <2> HIDE DEF Upto
  <2> QED
    BY <2>1, <2>2
<1> HIDE DEF raised
<1>7. StampsOf(all, hashes, h, unproven, restamp, raised)
  BY <1>6 DEF M, base, More, StampsOf
<1> QED
  BY <1>1, <1>7 DEF M, raised

(* Every hash of the call leaves what the next one starts from.            *)
LEMMA Stampings ==
  ASSUME DualKey, WalletInv,
         NEW hashes, Len(hashes) \in Nat, NEW h \in 1..Unconfirmed,
         NEW unproven \in BOOLEAN, NEW restamp, NEW raised \in BOOLEAN,
         \A n \in 1..Len(hashes) : hashes[n] \in Txs /\ Vouched(hashes[n], h, unproven),
         NEW f, StampsOf(f, hashes, h, unproven, restamp, raised)
  PROVE  \A n \in 0..Len(hashes) : Stamping(f[n])
<1> DEFINE M == Len(hashes)
<1>1. /\ Records(rec) /\ Lists(transactions, Range(transactions))
      /\ Range(transactions) \subseteq DOMAIN rec
      /\ foreign \subseteq DOMAIN rec \ Range(transactions) /\ Offers(credit, rec, transactions)
      /\ Windows(credit, window) /\ Rest
  BY DEF WalletInv, Holding
<1>2. credit.window \in Nat /\ window \in Nat /\ credit.window <= window
  BY <1>1, MaxWindowOK DEF Windows
<1>3. /\ f[0] = [rec |-> rec, list |-> transactions, foreign |-> foreign,
                 needed |-> raised /\ credit.coinbaseOutputs > 0 /\ h >= credit.nextMaturity]
      /\ \A n \in 1..M : f[n] = Stamped(f[n - 1], hashes[n], h, unproven, restamp)
  BY DEF StampsOf
<1> HIDE DEF M
<1> DEFINE T == {n \in 0..M : Stamping(f[n])}
<1>4. M \in Nat
  BY DEF M
<1>5. 0 \in T
  <2> DEFINE need == raised /\ credit.coinbaseOutputs > 0 /\ h >= credit.nextMaturity
             g == [rec |-> rec, list |-> transactions, foreign |-> foreign, needed |-> need]
  <2>1. need \in BOOLEAN
    OBVIOUS
  <2>2. f[0] = g
    BY <1>3
  <2> HIDE DEF need
  <2>3. /\ DOMAIN g = {"rec", "list", "foreign", "needed"} /\ g.rec = rec /\ g.list = transactions
        /\ g.foreign = foreign /\ g.needed = need
    OBVIOUS
  <2> HIDE DEF g
  <2>4. Clear(rec)
    BY <1>1 DEF Clear, Offers
  <2>5. Stamping(g)
    BY <1>1, <2>1, <2>3, <2>4 DEF Stamping
  <2> QED
    BY <1>4, <2>2, <2>5
<1>6. ASSUME NEW n \in 1..M, n - 1 \in T PROVE n \in T
  <2>1. Stamping(f[n - 1]) /\ f[n] = Stamped(f[n - 1], hashes[n], h, unproven, restamp)
    BY <1>3, <1>6
  <2>2. hashes[n] \in Txs /\ Vouched(hashes[n], h, unproven)
    BY DEF M
  <2> DEFINE acc == f[n - 1]
             t == hashes[n]
  <2> HIDE DEF acc, t, T
  <2>3. Stamping(Stamped(acc, t, h, unproven, restamp))
    <3>1. Stamping(acc) /\ t \in Txs /\ Vouched(t, h, unproven)
      BY <2>1, <2>2 DEF acc, t
    <3> QED
      BY <1>1, <1>2, <3>1, StampedOK
  <2>4. n \in 0..M
    BY <1>4
  <2> QED
    BY <2>1, <2>3, <2>4 DEF acc, t, T
<1>7. \A n \in 0..M : n \in T
  <2> HIDE DEF T
  <2> QED
    BY <1>4, <1>5, <1>6, Climb
<1> QED
  BY <1>7 DEF M

LEMMA Updated ==
  ASSUME DualKey, WalletInv,
         NEW hashes, Len(hashes) \in Nat, NEW h \in 1..Unconfirmed,
         NEW unproven \in BOOLEAN, NEW restamp,
         \A n \in 1..Len(hashes) : hashes[n] \in Txs /\ Vouched(hashes[n], h, unproven),
         UpdateTransactions(hashes, h, unproven, restamp)
  PROVE  WalletInv'
<1> DEFINE M == Len(hashes)
           raised == ~ unproven /\ h # Unconfirmed /\ h > tip
<1>1. PICK f : /\ StampsOf(f, hashes, h, unproven, restamp, raised)
               /\ Settle(f[M].rec, f[M].list, window, IF raised THEN h ELSE tip, overrides, f[M].needed)
               /\ foreign' = f[M].foreign
               /\ UNCHANGED <<window, overrides, growing, removals>>
  BY UpdateFolds
<1>2. /\ Records(rec) /\ Lists(transactions, Range(transactions))
      /\ Range(transactions) \subseteq DOMAIN rec
      /\ foreign \subseteq DOMAIN rec \ Range(transactions) /\ Offers(credit, rec, transactions)
      /\ Windows(credit, window) /\ Rest
  BY DEF WalletInv, Holding
<1>3. credit.window \in Nat /\ window \in Nat /\ credit.window <= window
  BY <1>2, MaxWindowOK DEF Windows
<1>4. raised \in BOOLEAN /\ (raised => h \in 0..MaxHeight)
  BY ConstantsOK DEF Unconfirmed
<1>5. Stamping(f[M])
  <2>1. StampsOf(f, hashes, h, unproven, restamp, raised)
    BY <1>1
  <2> HIDE DEF raised
  <2>2. \A n \in 0..M : Stamping(f[n])
    BY <1>4, <2>1, Stampings
  <2>3. M \in 0..M
    OBVIOUS
  <2> QED
    BY <2>2, <2>3
<1> HIDE DEF raised, M
<1> DEFINE b == f[M]
           r == b.rec
           s == b.list
           wtip == IF raised THEN h ELSE tip
           needed == b.needed
<1> HIDE DEF b
<1>6. /\ Records(r) /\ DOMAIN r = DOMAIN rec /\ Lists(s, Range(transactions))
      /\ b.foreign = foreign /\ needed \in BOOLEAN
      /\ needed \/ Clear(r)
  BY <1>5 DEF b, Stamping
<1>7. Range(s) = Range(transactions)
  BY <1>6 DEF Lists
<1>8. Lists(s, Range(s))
  BY <1>6, <1>7
<1>9. ASSUME Clear(r) PROVE Offers(credit, r, s)
  <2> HIDE DEF r, s
  <2>1. CoinsOf(credit, r)
    BY <1>2, <1>6 DEF Offers, CoinsOf
  <2>2. ASSUME NEW t \in Range(s),
               t \notin credit.invalid \/ (r[t].height # Unconfirmed /\ Signed[t] = Ins[t])
        PROVE  Ins[t] \cap credit.utxos = {}
    BY <1>2, <1>7, <1>9, <2>2 DEF Offers, Clear
  <2>3. ASSUME NEW t \in Range(s) \ credit.invalid
        PROVE  OwnedInputs(r, credit.window, t) \subseteq Signed[t] \/ Gullible(t)
    <3>1. t \in Range(transactions) \ credit.invalid /\ t \in Txs
      BY <1>2, <1>7 DEF Records
    <3>2. OwnedInputs(r, credit.window, t) = OwnedInputs(rec, credit.window, t)
      BY <1>6, <3>1, OwnedOK
    <3> QED
      BY <1>2, <3>1, <3>2 DEF Offers
  <2> QED
    BY <1>2, <2>1, <2>2, <2>3 DEF Offers
<1>10. Settle(r, s, window, wtip, overrides, needed) /\ foreign' = foreign
  <2>1. b = f[M]
    BY DEF b
  <2>2. Settle(f[M].rec, f[M].list, window, wtip, overrides, f[M].needed) /\ foreign' = f[M].foreign
    BY <1>1, Zenon
  <2> QED
    BY <1>6, <2>1, <2>2
<1>11. wtip \in 0..MaxHeight
  BY <1>2, <1>4 DEF Rest
<1>12. foreign \subseteq DOMAIN r \ Range(s) /\ Range(s) \subseteq DOMAIN r
  BY <1>2, <1>6, <1>7
<1>13. window' = window /\ overrides' \subseteq Outpoints /\ growing' \in BOOLEAN
  BY <1>1, <1>2 DEF Rest
<1>14. needed \/ Offers(credit, r, s)
  BY <1>6, <1>9
<1> HIDE DEF r, s, wtip, needed
<1>15. Windows(credit, window)
  BY DEF WalletInv
<1>16. Records(r)
  BY <1>6
<1>17. needed \in BOOLEAN
  BY <1>6
<1> QED
  BY <1>8, <1>10, <1>11, <1>12, <1>13, <1>14, <1>15, <1>16, <1>17, SettledInv, Zenon

----------------------------------------------------------------------------
(* The other calls. *)

LEMMA InvParts ==
  ASSUME WalletInv
  PROVE  /\ Records(rec) /\ Lists(transactions, Range(transactions))
         /\ Range(transactions) \subseteq DOMAIN rec /\ DOMAIN rec \subseteq Txs
         /\ foreign \subseteq DOMAIN rec \ Range(transactions)
         /\ Offers(credit, rec, transactions)
         /\ Windows(credit, window)
         /\ tip \in 0..MaxHeight /\ overrides \subseteq Outpoints /\ growing \in BOOLEAN
BY DEF WalletInv, Holding, Records, Rest

LEMMA HeightSet ==
  ASSUME WalletInv, NEW h \in 0..MaxHeight, SetBlockHeight(h)
  PROVE  WalletInv'
<1> DEFINE needed == TipMatters(h)
<1>1. needed \in BOOLEAN
  BY DEF TipMatters
<1>2. Settle(rec, transactions, window, h, overrides, needed)
      /\ UNCHANGED <<foreign, window, overrides, growing>>
  BY DEF SetBlockHeight
<1> HIDE DEF needed
<1>3. foreign' = foreign /\ window' = window /\ overrides' \subseteq Outpoints /\ growing' \in BOOLEAN
  BY <1>2, InvParts
<1>4. needed \/ Offers(credit, rec, transactions)
  BY InvParts
<1>5. /\ Records(rec) /\ Lists(transactions, Range(transactions))
      /\ Range(transactions) \subseteq DOMAIN rec /\ foreign \subseteq DOMAIN rec \ Range(transactions)
      /\ Windows(credit, window)
  BY InvParts
<1> QED
  BY <1>1, <1>2, <1>3, <1>4, <1>5, SettledInv, Zenon

LEMMA AssetRegistered ==
  ASSUME WalletInv, NEW o \in Outpoints, RegisterAssetOutpoint(o)
  PROVE  WalletInv'
<1> DEFINE over == overrides \cup {o}
<1>1. /\ overrides' = over /\ Settle(rec, transactions, window, tip, over, TRUE)
      /\ UNCHANGED <<foreign, window, growing>>
  BY DEF RegisterAssetOutpoint
<1>2. foreign' = foreign /\ window' = window /\ overrides' \subseteq Outpoints /\ growing' \in BOOLEAN
  BY <1>1, InvParts
<1> HIDE DEF over
<1>3. PICK needed \in BOOLEAN : needed
  OBVIOUS
<1>4. Settle(rec, transactions, window, tip, over, needed)
  BY <1>1, <1>3 DEF Settle
<1>5. /\ Records(rec) /\ Lists(transactions, Range(transactions))
      /\ Range(transactions) \subseteq DOMAIN rec /\ foreign \subseteq DOMAIN rec \ Range(transactions)
      /\ Windows(credit, window) /\ tip \in 0..MaxHeight
  BY InvParts
<1>6. needed \/ Offers(credit, rec, transactions)
  BY <1>3
<1> QED
  BY <1>2, <1>4, <1>5, <1>6, SettledInv, Zenon

LEMMA AddressesGenerated ==
  ASSUME WalletInv, UnusedAddrs
  PROVE  WalletInv'
<1>1. credit.used \subseteq Addresses /\ Windows(credit, window)
  BY InvParts DEF Offers
<1>2. window \in 0..MaxWindow /\ window \in 1..MaxWindow /\ MaxWindow \in Nat
  BY <1>1, MaxWindowOK DEF Windows
<1>3. window' \in window..MaxWindow
  <2>1. window' = GrownWindow(credit.used, window, Gap)
    BY DEF UnusedAddrs
  <2> DEFINE used == credit.used
  <2>2. used \subseteq Addresses
    BY <1>1
  <2> HIDE DEF used
  <2>3. Gap \in {Gap, Gap + Cushion}
    OBVIOUS
  <2>4. GrownWindow(used, window, Gap) \in window..MaxWindow
    BY <1>2, <2>2, <2>3, Grown
  <2> QED
    BY <2>1, <2>4 DEF used
<1>4. /\ growing' = FALSE
      /\ UNCHANGED <<rec, transactions, foreign, tip, overrides, credit>>
  BY DEF UnusedAddrs
<1>5. Windows(credit', window')
  BY <1>1, <1>2, <1>3, <1>4 DEF Windows
<1>6. Rest'
  BY <1>4 DEF WalletInv, Rest
<1>7. Holding(rec', transactions', foreign', credit')
  BY <1>4 DEF WalletInv
<1> QED
  BY <1>5, <1>6, <1>7 DEF WalletInv

(* A list, a credit and records that keep their domain and heights.        *)
LEMMA OffersSame ==
  ASSUME NEW c, NEW r, NEW s, Offers(c, r, s), Range(s) \subseteq Txs, NEW q, SameHeights(r, q),
         Range(s) \subseteq DOMAIN r
  PROVE  Offers(c, q, s)
<1>1. CoinsOf(c, q)
  BY DEF Offers, CoinsOf, SameHeights
<1>2. ASSUME NEW t \in Range(s) \ c.invalid
      PROVE  OwnedInputs(q, c.window, t) \subseteq Signed[t] \/ Gullible(t)
  <2>1. DOMAIN q = DOMAIN r /\ t \in Txs
    BY DEF SameHeights
  <2>2. OwnedInputs(q, c.window, t) = OwnedInputs(r, c.window, t)
    BY <2>1, OwnedOK
  <2> QED
    BY <2>2 DEF Offers
<1> QED
  BY <1>1, <1>2 DEF Offers, SameHeights

LEMMA ForgottenOK ==
  ASSUME NEW t, NEW e, RecordOK(t, e)
  PROVE  RecordOK(t, Forgotten(e)) /\ Forgotten(e).height = Unconfirmed /\ Forgotten(e).always = e.always
<1>1. Unconfirmed \in 1..Unconfirmed
  BY ConstantsOK DEF Unconfirmed
<1>2. e \in Record
  BY DEF RecordOK, CheckOK
<1>3. /\ Forgotten(e) \in Record /\ Forgotten(e).height = Unconfirmed
      /\ Forgotten(e).accepted = {} /\ Forgotten(e).always = e.always
  BY <1>1, <1>2 DEF Forgotten, Record
<1> QED
  BY <1>3 DEF RecordOK, CheckOK, HeightOK

LEMMA Unwound ==
  ASSUME WalletInv, NEW h \in 0..MaxHeight, SetTxUnconfirmedAfter(h)
  PROVE  WalletInv'
<1> DEFINE last == Max({0} \cup {i \in DOMAIN transactions : StaysConfirmed(transactions[i], h)})
           after == {transactions[i] : i \in (last + 1)..Len(transactions)}
           r == [t \in DOMAIN rec |-> IF t \in after THEN Forgotten(rec[t]) ELSE rec[t]]
           needed == after # {}
<1>1. /\ Settle(r, transactions, window, h, overrides, needed)
      /\ UNCHANGED <<foreign, window, overrides, growing>>
  BY DEF SetTxUnconfirmedAfter
<1> HIDE DEF after
<1>2. /\ Records(rec) /\ Lists(transactions, Range(transactions))
      /\ Range(transactions) \subseteq DOMAIN rec /\ DOMAIN rec \subseteq Txs
      /\ foreign \subseteq DOMAIN rec \ Range(transactions)
      /\ Windows(credit, window) /\ Offers(credit, rec, transactions)
      /\ overrides \subseteq Outpoints /\ growing \in BOOLEAN
  BY InvParts
<1>3. ASSUME NEW t \in DOMAIN rec PROVE RecordOK(t, r[t])
  <2>1. RecordOK(t, rec[t])
    BY <1>2 DEF Records
  <2>2. r[t] = rec[t] \/ r[t] = Forgotten(rec[t])
    OBVIOUS
  <2> QED
    BY <2>1, <2>2, ForgottenOK
<1>4. DOMAIN r = DOMAIN rec
  OBVIOUS
<1>5. Records(r)
  BY <1>2, <1>3, <1>4 DEF Records
<1>6. ASSUME ~ needed PROVE Offers(credit, r, transactions)
  <2>1. SameHeights(rec, r)
    BY <1>6 DEF SameHeights
  <2> HIDE DEF r
  <2>2. Range(transactions) \subseteq Txs
    BY <1>2
  <2> QED
    BY <1>2, <2>1, <2>2, OffersSame
<1>7. needed \in BOOLEAN
  OBVIOUS
<1> HIDE DEF r, needed
<1>8. needed \/ Offers(credit, r, transactions)
  BY <1>6
<1>9. foreign \subseteq DOMAIN r \ Range(transactions) /\ Range(transactions) \subseteq DOMAIN r
  BY <1>2, <1>4
<1>10. foreign' = foreign /\ window' = window /\ overrides' \subseteq Outpoints /\ growing' \in BOOLEAN
  BY <1>1, <1>2
<1>11. Windows(credit, window) /\ Lists(transactions, Range(transactions))
  BY <1>2
<1> QED
  BY <1>1, <1>5, <1>7, <1>8, <1>9, <1>10, <1>11, SettledInv, Zenon

LEMMA TransactionRemoved ==
  ASSUME WalletInv, NEW t \in Txs, RemoveTransaction(t)
  PROVE  WalletInv'
<1> DEFINE dependants == IF t \in DOMAIN rec THEN Dependants(t) ELSE <<>>
<1>1. /\ Records(rec) /\ Lists(transactions, Range(transactions))
      /\ Range(transactions) \subseteq DOMAIN rec
      /\ foreign \subseteq DOMAIN rec \ Range(transactions)
      /\ Windows(credit, window)
      /\ tip \in 0..MaxHeight /\ overrides \subseteq Outpoints /\ growing \in BOOLEAN
  BY InvParts
<1>2. CASE dependants # <<>> \/ t \notin DOMAIN rec
  <2>1. UNCHANGED <<rec, transactions, foreign, tip, credit, window, overrides, growing>>
    BY <1>2 DEF RemoveTransaction
  <2> QED
    BY <2>1 DEF WalletInv, Holding, Rest
<1>3. CASE ~ (dependants # <<>> \/ t \notin DOMAIN rec)
  <2> DEFINE r == [u \in DOMAIN rec \ {t} |-> rec[u]]
             s == Without(transactions, t)
             fs == foreign \ {t}
  <2>1. /\ Settle(r, s, window, tip, overrides, TRUE)
        /\ foreign' = fs
        /\ UNCHANGED <<window, overrides, growing>>
    BY <1>3 DEF RemoveTransaction, NotForeign
  <2>2. DOMAIN r = DOMAIN rec \ {t} /\ \A u \in DOMAIN r : r[u] = rec[u]
    OBVIOUS
  <2>3. Records(r)
    BY <1>1, <2>2 DEF Records
  <2>4. Lists(s, Range(transactions) \ {t})
    BY <1>1, WithoutLists
  <2>5. Range(s) = Range(transactions) \ {t}
    BY <2>4 DEF Lists
  <2>6. PICK needed \in BOOLEAN : needed
    OBVIOUS
  <2> HIDE DEF r, s, fs
  <2>7. Settle(r, s, window, tip, overrides, needed)
    BY <2>1, <2>6 DEF Settle
  <2>8. Lists(s, Range(s)) /\ Range(s) \subseteq DOMAIN r
    BY <1>1, <2>2, <2>4, <2>5
  <2>9. fs \subseteq DOMAIN r \ Range(s)
    BY <1>1, <2>2, <2>5 DEF fs
  <2>10. window' = window /\ overrides' \subseteq Outpoints /\ growing' \in BOOLEAN
    BY <1>1, <2>1
  <2>11. Windows(credit, window) /\ tip \in 0..MaxHeight
    BY <1>1
  <2>12. needed \/ Offers(credit, r, s)
    BY <2>6
  <2> QED
    BY <2>1, <2>3, <2>7, <2>8, <2>9, <2>10, <2>11, <2>12, SettledInv, Zenon
<1> QED
  BY <1>2, <1>3

----------------------------------------------------------------------------
(* Registration. *)

(* What the caller may vouch for: a proven transaction, or a server's      *)
(* claim of a height.                                                      *)
Asked(t, asked, h, own) ==
  \/ asked = "checked" /\ h = Unconfirmed
  \/ asked = "trusted" /\ h = Unconfirmed /\ (own \/ Signed[t] = Ins[t])
  \/ asked = "unproven" /\ t \in Claimed /\ ~ own

NewRecord(t, asked, h, own) ==
  LET e == IF t \in DOMAIN rec THEN rec[t] ELSE Fresh(h)
      mode == CheckedMode(t, asked, own)
      check == SpendsSigned(rec, window, t, e, mode = "unproven")
  IN CASE mode = "trusted"  -> [e EXCEPT !.accepted = {OwnedInputs(rec, window, t)}]
       [] mode = "checked"  -> check.rec
       [] mode = "unproven" -> [check.rec EXCEPT !.always = TRUE]

LEMMA FreshOK ==
  ASSUME NEW t, NEW h \in 1..Unconfirmed
  PROVE  CheckOK(t, Fresh(h)) /\ Fresh(h).height = h /\ Fresh(h).always = FALSE
BY DEF Fresh, CheckOK, Record

LEMMA NewRecordOK ==
  ASSUME Records(rec), NEW t \in Txs, NEW asked, NEW h \in 1..Unconfirmed, NEW own \in BOOLEAN,
         Asked(t, asked, h, own)
  PROVE  RecordOK(t, NewRecord(t, asked, h, own))
<1> DEFINE e == IF t \in DOMAIN rec THEN rec[t] ELSE Fresh(h)
           mode == CheckedMode(t, asked, own)
           proven == mode = "unproven"
           check == SpendsSigned(rec, window, t, e, proven)
           owned == OwnedInputs(rec, window, t)
           new == NewRecord(t, asked, h, own)
<1>1. new = CASE mode = "trusted"  -> [e EXCEPT !.accepted = {owned}]
              [] mode = "checked"  -> check.rec
              [] mode = "unproven" -> [check.rec EXCEPT !.always = TRUE]
  BY DEF NewRecord
<1>2. \/ mode = "trusted" /\ h = Unconfirmed /\ Signed[t] = Ins[t]
      \/ mode = "checked" /\ h = Unconfirmed
      \/ mode = "unproven" /\ t \in Claimed
  BY DEF CheckedMode, Asked
<1>3. CheckOK(t, e)
  BY FreshOK DEF Records, RecordOK
<1>4. mode # "unproven" => HeightOK(t, e)
  <2>1. CASE t \in DOMAIN rec
    BY <2>1 DEF Records, RecordOK
  <2>2. CASE t \notin DOMAIN rec /\ mode # "unproven"
    <3>1. h = Unconfirmed
      BY <1>2, <2>2
    <3>2. e = Fresh(h)
      BY <2>2
    <3> QED
      BY <3>1, <3>2, FreshOK DEF HeightOK
  <2> QED
    BY <2>1, <2>2
<1>5. proven \in BOOLEAN
  OBVIOUS
<1>6. owned \subseteq Ins[t] /\ owned \subseteq Outpoints
  BY OwnedOK
<1> HIDE DEF e, mode
<1>7. Verdict(check, rec, window, t, e)
  <2>1. proven \/ HeightOK(t, e)
    BY <1>4
  <2> HIDE DEF proven
  <2> QED
    BY <1>3, <1>5, <2>1, SignaturesChecked
<1> HIDE DEF check, owned, proven
<1>8. CASE mode = "trusted"
  <2>1. new = [e EXCEPT !.accepted = {owned}] /\ Signed[t] = Ins[t] /\ HeightOK(t, e)
    BY <1>1, <1>2, <1>4, <1>8
  <2>2. {owned} \in SUBSET SUBSET Outpoints
    BY <1>6
  <2>3. e \in Record
    BY <1>3 DEF CheckOK
  <2>4. new \in Record /\ new.accepted = {owned} /\ new.height = e.height
    BY <2>1, <2>2, <2>3 DEF Record
  <2>5. CheckOK(t, new)
    BY <1>6, <2>1, <2>4 DEF CheckOK
  <2>6. HeightOK(t, new)
    BY <2>1 DEF HeightOK
  <2> QED
    BY <2>5, <2>6 DEF RecordOK
<1>9. CASE mode = "checked"
  <2>1. new = check.rec /\ HeightOK(t, e)
    BY <1>1, <1>4, <1>9
  <2> QED
    BY <1>7, <2>1 DEF Verdict, RecordOK, HeightOK
<1>10. CASE mode = "unproven"
  <2>1. new = [check.rec EXCEPT !.always = TRUE] /\ t \in Claimed
    BY <1>1, <1>2, <1>10
  <2>2. CheckOK(t, check.rec)
    BY <1>7 DEF Verdict
  <2> DEFINE c == check.rec
  <2>3. c \in Record /\ \A A \in c.accepted : A \subseteq Signed[t]
    BY <2>2 DEF CheckOK
  <2> HIDE DEF c
  <2>4. new = [c EXCEPT !.always = TRUE]
    BY <2>1 DEF c
  <2>5. new \in Record /\ new.accepted = c.accepted /\ new.always = TRUE
    BY <2>3, <2>4 DEF Record
  <2>6. CheckOK(t, new)
    BY <2>3, <2>5 DEF CheckOK
  <2>7. HeightOK(t, new)
    BY <2>1, <2>5 DEF HeightOK
  <2> QED
    BY <2>6, <2>7 DEF RecordOK
<1> QED
  BY <1>2, <1>8, <1>9, <1>10

LEMMA Registered ==
  ASSUME WalletInv, NEW t \in Txs, NEW asked, NEW h \in 1..Unconfirmed, NEW own \in BOOLEAN,
         Asked(t, asked, h, own), RegisterTx(t, asked, h, own)
  PROVE  WalletInv'
<1> DEFINE new == NewRecord(t, asked, h, own)
           r == With(rec, t, new)
           s == InsertTx(r, transactions, t)
           fs == foreign \ {t}
           mine == ContainsTx(rec, window, t)
           held == t \in DOMAIN rec
<1>1. /\ Records(rec) /\ Lists(transactions, Range(transactions))
      /\ Range(transactions) \subseteq DOMAIN rec
      /\ foreign \subseteq DOMAIN rec \ Range(transactions) /\ DOMAIN rec \subseteq Txs
      /\ Windows(credit, window) /\ Offers(credit, rec, transactions)
      /\ tip \in 0..MaxHeight /\ overrides \subseteq Outpoints /\ growing \in BOOLEAN
  BY InvParts
<1>2. /\ held => t \in foreign /\ mine
      /\ IF mine
         THEN Settle(r, s, window, tip, overrides, TRUE) /\ foreign' = fs /\ growing' = TRUE
         ELSE /\ rec' = r /\ foreign' = foreign \cup {t}
              /\ UNCHANGED <<transactions, tip, credit, growing>>
      /\ UNCHANGED <<window, overrides>>
  BY DEF RegisterTx, NewRecord, NotForeign
<1>3. RecordOK(t, new)
  BY <1>1, NewRecordOK
<1> HIDE DEF new
<1>4. /\ DOMAIN r = DOMAIN rec \cup {t} /\ r[t] = new
      /\ \A u \in DOMAIN rec : u # t => r[u] = rec[u]
  BY DEF With
<1> HIDE DEF r
<1>5. Records(r)
  BY <1>1, <1>3, <1>4 DEF Records
<1>6. t \notin Range(transactions)
  BY <1>1, <1>2
<1>7. CASE mine
  <2>1. Lists(s, Range(transactions) \cup {t})
    BY <1>1, <1>6, InsertTxLists
  <2> HIDE DEF s
  <2>2. Range(s) = Range(transactions) \cup {t}
    BY <2>1 DEF Lists
  <2>3. Lists(s, Range(s)) /\ Range(s) \subseteq DOMAIN r
    BY <1>1, <1>4, <2>1, <2>2
  <2>4. fs \subseteq DOMAIN r \ Range(s)
    BY <1>1, <1>4, <2>2
  <2>5. PICK needed \in BOOLEAN : needed
    OBVIOUS
  <2>6. Settle(r, s, window, tip, overrides, needed) /\ foreign' = fs
    BY <1>2, <1>7, <2>5 DEF Settle
  <2>7. window' = window /\ overrides' \subseteq Outpoints /\ growing' \in BOOLEAN
    BY <1>1, <1>2, <1>7
  <2>8. Windows(credit, window) /\ tip \in 0..MaxHeight
    BY <1>1
  <2>9. needed \/ Offers(credit, r, s)
    BY <2>5
  <2> HIDE DEF fs
  <2> QED
    BY <1>5, <2>3, <2>4, <2>6, <2>7, <2>8, <2>9, SettledInv, Zenon
<1>8. CASE ~ mine
  <2>1. t \notin DOMAIN rec
    BY <1>2, <1>8
  <2>2. /\ rec' = r /\ foreign' = foreign \cup {t}
        /\ UNCHANGED <<transactions, tip, credit, growing, window, overrides>>
    BY <1>2, <1>8
  <2>3. PaysOf(t) \cap 1..window = {}
    BY <1>8 DEF ContainsTx
  <2>4. credit.window \in Nat /\ window \in Nat /\ credit.window <= window
    BY <1>1, MaxWindowOK DEF Windows
  <2>5. ASSUME NEW u \in Range(transactions)
        PROVE  OwnedInputs(r, credit.window, u) = OwnedInputs(rec, credit.window, u)
    <3>1. u \in Txs
      BY <1>1
    <3>2. ASSUME NEW o \in Ins[u], o[1] = t PROVE Pays[o[1]][o[2]] \notin 1..credit.window
      <4>1. o[2] \in DOMAIN Pays[t]
        BY <3>1, <3>2, InsAreOutpoints
      <4>2. Pays[t][o[2]] # 0 => Pays[t][o[2]] \in PaysOf(t)
        BY <4>1 DEF PaysOf
      <4>3. Pays[t][o[2]] \notin 1..window
        BY <2>3, <2>4, <4>2
      <4> QED
        BY <2>4, <3>2, <4>3
    <3> QED
      BY <1>4, <3>2 DEF OwnedInputs
  <2>6. Offers(credit, r, transactions)
    <3>1. CoinsOf(credit, r)
      BY <1>1, <1>4 DEF Offers, CoinsOf
    <3>2. \A u \in Range(transactions) : r[u].height = rec[u].height
      BY <1>1, <1>4, <1>6
    <3> QED
      BY <1>1, <2>5, <3>1, <3>2 DEF Offers
  <2>7. Holding(rec', transactions', foreign', credit')
    BY <1>1, <1>4, <1>5, <1>6, <2>1, <2>2, <2>6 DEF Holding
  <2>8. Windows(credit', window') /\ Rest'
    BY <1>1, <2>2 DEF Rest
  <2> QED
    BY <2>7, <2>8 DEF WalletInv
<1> QED
  BY <1>7, <1>8

----------------------------------------------------------------------------
(* A load. *)

Saved == [t \in Range(transactions) |-> Fresh(rec[t].height)]

Reread(n, x) ==
  LET r == With(x.rec, transactions[n], Saved[transactions[n]])
  IN [rec |-> r, list |-> InsertTx(r, x.list, transactions[n])]

LoadsOf(f) ==
  /\ f[0] = [rec |-> <<>>, list |-> <<>>]
  /\ \A n \in 1..Len(transactions) : f[n] = Reread(n, f[n - 1])

Seed == Max({0} \cup ({Saved[t].height : t \in DOMAIN Saved} \ {Unconfirmed}))
Opened == GrownWindow(UNION {PaysOf(t) : t \in DOMAIN Saved}, Gap + Cushion, Gap + Cushion)

LoadedAs(x) ==
  LET first == Rebuild(x.rec, x.list, Opened, Seed, {})
      again == first.credit.coinbaseOutputs > 0
                   /\ ~ (best >= Seed /\ best < first.credit.nextMaturity)
      built == IF again THEN Rebuild(first.rec, x.list, Opened, best, {}) ELSE first
  IN /\ rec' = built.rec /\ credit' = built.credit /\ transactions' = x.list
     /\ foreign' = {} /\ tip' = best /\ window' = Opened /\ overrides' = {}
     /\ growing' = FALSE

LEMMA LoadFolds ==
  ASSUME Load, Len(transactions) \in Nat
  PROVE  \E f : LoadsOf(f) /\ LoadedAs(f[Len(transactions)])
<1> DEFINE M == Len(transactions)
           base == [rec |-> <<>>, list |-> <<>>]
           More(n, x) == [rec |-> With(x.rec, transactions[n], Saved[transactions[n]]),
                          list |-> InsertTx(With(x.rec, transactions[n], Saved[transactions[n]]),
                                            x.list, transactions[n])]
<1> DEFINE Upto(k, f) == f = [n \in 0..k |-> IF n = 0 THEN base ELSE More(n, f[n - 1])]
           T == {k \in 0..M : \E f : Upto(k, f)}
           all == CHOOSE f : Upto(M, f)
<1>0. M \in Nat
  OBVIOUS
<1>1. LoadedAs(all[M])
  BY DEF Load, LoadedAs, Saved, Seed, Opened
<1> HIDE DEF More, base, M
<1>2. 0 \in T
  <2> DEFINE g == [n \in 0..0 |-> base]
  <2>1. Upto(0, g)
    OBVIOUS
  <2> HIDE DEF g, Upto
  <2> QED
    BY <1>0, <2>1
<1>3. ASSUME NEW k \in 1..M, k - 1 \in T PROVE k \in T
  <2>1. PICK g : Upto(k - 1, g)
    BY <1>3
  <2> DEFINE f == [n \in 0..k |-> IF n = k THEN More(k, g[k - 1]) ELSE g[n]]
             h == [n \in 0..k |-> IF n = 0 THEN base ELSE More(n, f[n - 1])]
  <2>2. ASSUME NEW n \in 0..k PROVE f[n] = h[n]
    <3>1. CASE n = k
      <4>1. k # 0 /\ k - 1 \in 0..k /\ k - 1 # k
        BY <1>0, <1>3
      <4> QED
        BY <3>1, <4>1
    <3>2. CASE n = 0
      <4>1. k # 0 /\ 0 \in 0..(k - 1)
        BY <1>0, <1>3
      <4> QED
        BY <2>1, <3>2, <4>1
    <3>3. CASE n # k /\ n # 0
      <4>1. n \in 0..(k - 1) /\ n - 1 \in 0..k /\ n - 1 # k
        BY <1>0, <1>3, <3>3
      <4>2. g[n] = More(n, g[n - 1])
        BY <2>1, <3>3, <4>1
      <4> QED
        BY <3>3, <4>1, <4>2
    <3> QED
      BY <3>1, <3>2, <3>3
  <2>3. f = h
    <3>1. f = [n \in 0..k |-> f[n]] /\ h = [n \in 0..k |-> h[n]]
      OBVIOUS
    <3> HIDE DEF f, h
    <3> QED
      BY <2>2, <3>1
  <2>4. Upto(k, f)
    BY <2>3
  <2>5. k \in 0..M
    BY <1>0
  <2> HIDE DEF Upto, f
  <2> QED
    BY <2>4, <2>5
<1>4. M \in T
  <2>1. \A k \in 0..M : k \in T
    <3> HIDE DEF T
    <3> QED
      BY <1>0, <1>2, <1>3, Climb
  <2>2. M \in 0..M
    BY <1>0
  <2> QED
    BY <2>1, <2>2
<1>5. Upto(M, all)
  <2> HIDE DEF Upto
  <2>1. \E f : Upto(M, f)
    BY <1>4
  <2> QED
    BY <2>1
<1> HIDE DEF all
<1>6. all[0] = base /\ \A n \in 1..M : all[n] = More(n, all[n - 1])
  <2>1. \A n \in 0..M : all[n] = IF n = 0 THEN base ELSE More(n, all[n - 1])
    BY <1>5
  <2>2. 0 \in 0..M /\ \A n \in 1..M : n \in 0..M /\ n # 0
    BY <1>0
  <2> HIDE DEF Upto
  <2> QED
    BY <2>1, <2>2
<1>7. LoadsOf(all)
  BY <1>6 DEF M, base, More, LoadsOf, Reread
<1> QED
  BY <1>1, <1>7 DEF M

(* What a load builds the balance from: the transactions saved, in order.  *)
LEMMA LoadBuilds ==
  ASSUME WalletInv, Load
  PROVE  \E x : /\ LoadedAs(x) /\ DOMAIN x.rec = Range(transactions)
                /\ \A t \in Range(transactions) : x.rec[t] = Saved[t]
                /\ Lists(x.list, Range(transactions)) /\ Ordered(x.rec, x.list)
<1> DEFINE M == Len(transactions)
           R(n) == {transactions[i] : i \in 1..n}
<1>1. /\ Records(rec) /\ Lists(transactions, Range(transactions))
      /\ Range(transactions) \subseteq DOMAIN rec /\ DOMAIN rec \subseteq Txs
  BY InvParts
<1>2. /\ M \in Nat /\ DOMAIN transactions = 1..M
      /\ \A i, j \in 1..M : transactions[i] = transactions[j] => i = j
  BY <1>1 DEF Lists, IsInjective
<1>3. PICK f : LoadsOf(f) /\ LoadedAs(f[M])
  BY <1>2, LoadFolds
<1> DEFINE done(n) == /\ DOMAIN f[n].rec = R(n)
                      /\ \A t \in R(n) : f[n].rec[t] = Saved[t]
                      /\ Lists(f[n].list, R(n)) /\ Ordered(f[n].rec, f[n].list)
           T == {n \in 0..M : done(n)}
<1> HIDE DEF M
<1>4. 0 \in T
  <2>1. f[0] = [rec |-> <<>>, list |-> <<>>]
    BY <1>3 DEF LoadsOf
  <2>2. f[0].rec = <<>> /\ f[0].list = <<>>
    BY <2>1
  <2>3. R(0) = {}
    OBVIOUS
  <2>4. DOMAIN <<>> = {}
    OBVIOUS
  <2>5. Lists(<<>>, {})
    BY DEF Lists, IsInjective, Range
  <2>6. /\ DOMAIN f[0].rec = R(0) /\ \A t \in R(0) : f[0].rec[t] = Saved[t]
        /\ Lists(f[0].list, R(0)) /\ Ordered(f[0].rec, f[0].list)
    <3> HIDE DEF R
    <3>1. DOMAIN f[0].rec = R(0)
      BY <2>2, <2>3, <2>4
    <3>2. Lists(f[0].list, R(0))
      BY <2>2, <2>3, <2>5
    <3>3. Ordered(f[0].rec, f[0].list)
      BY <2>2, <2>4 DEF Ordered
    <3> QED
      BY <2>3, <3>1, <3>2, <3>3
  <2>7. 0 \in 0..M
    BY <1>2
  <2> HIDE DEF R
  <2> QED
    BY <2>6, <2>7
<1>5. \A t \in Range(transactions) : Saved[t].height \in Nat
  <2> SUFFICES ASSUME NEW t \in Range(transactions) PROVE Saved[t].height \in Nat
    OBVIOUS
  <2>1. t \in DOMAIN rec
    BY <1>1
  <2>2. rec[t] \in Record
    BY <1>1, <2>1 DEF Records, RecordOK, CheckOK
  <2>3. rec[t].height \in Nat
    BY <2>2, ConstantsOK DEF Record, Unconfirmed
  <2> QED
    BY <2>3 DEF Saved, Fresh
<1>6. ASSUME NEW n \in 1..M, n - 1 \in T PROVE n \in T
  <2> DEFINE x == f[n - 1]
             t == transactions[n]
             r == With(x.rec, t, Saved[t])
             D == R(n - 1)
             list == InsertTx(r, x.list, t)
  <2>1. DOMAIN x.rec = D /\ (\A u \in D : x.rec[u] = Saved[u]) /\ Lists(x.list, D)
        /\ Ordered(x.rec, x.list)
    BY <1>6
  <2>2. f[n] = Reread(n, f[n - 1])
    BY <1>3 DEF LoadsOf, M
  <2>3. f[n].rec = r /\ f[n].list = list
    BY <2>2 DEF Reread
  <2>4. t \notin D /\ R(n) = D \cup {t}
    <3>1. \A i \in 1..(n - 1) : i \in 1..M /\ i # n
      BY <1>2
    <3>2. \A i \in 1..n : i \in 1..(n - 1) \/ i = n
      BY <1>2
    <3>3. 1..(n - 1) \subseteq 1..n /\ n \in 1..n
      BY <1>2
    <3> QED
      BY <1>2, <3>1, <3>2, <3>3
  <2>5. D \cup {t} \subseteq Range(transactions)
    BY <1>2 DEF Range
  <2> HIDE DEF t, x, D, R
  <2>6. DOMAIN r = D \cup {t} /\ \A u \in D \cup {t} : r[u] = Saved[u]
    BY <2>1 DEF With
  <2> HIDE DEF r
  <2>7. Lists(list, D \cup {t})
    BY <2>1, <2>4, InsertTxLists
  <2>8. n \in 0..M
    BY <1>2
  <2>9. Ordered(r, x.list)
    <3>1. ASSUME NEW i \in DOMAIN x.list PROVE r[x.list[i]].height = x.rec[x.list[i]].height
      <4>1. x.list[i] \in D
        BY <2>1 DEF Lists
      <4> QED
        BY <2>1, <2>6, <4>1
    <3> QED
      BY <2>1, <3>1, OrderedSame
  <2>10. \A u \in DOMAIN r : r[u].height \in Nat
    BY <1>5, <2>6, <2>5
  <2>11. Ordered(r, list)
    BY <2>1, <2>4, <2>6, <2>9, <2>10, InsertTxOrdered
  <2> HIDE DEF list
  <2> QED
    BY <2>3, <2>4, <2>6, <2>7, <2>8, <2>11
<1>7. done(M)
  <2>1. \A n \in 0..M : n \in T
    <3> HIDE DEF T
    <3> QED
      BY <1>2, <1>4, <1>6, Climb
  <2>2. M \in 0..M
    BY <1>2
  <2> QED
    BY <2>1, <2>2
<1>8. R(M) = Range(transactions)
  BY <1>2 DEF Range
<1> QED
  BY <1>3, <1>7, <1>8 DEF done

LEMMA OpenedOK ==
  ASSUME Range(transactions) \subseteq Txs
  PROVE  Opened \in 1..MaxWindow /\ Opened >= Gap + Cushion
<1> DEFINE used == UNION {PaysOf(t) : t \in DOMAIN Saved}
           gap == Gap + Cushion
<1>1. used \subseteq Addresses
  BY DEF Saved, Addresses
<1>2. gap \in 0..MaxWindow /\ gap \in {Gap, Gap + Cushion} /\ gap \in 1..MaxWindow /\ MaxWindow \in Nat
  BY MaxWindowOK
<1>3. Opened = GrownWindow(used, gap, gap)
  BY DEF Opened
<1> HIDE DEF used, gap
<1>4. GrownWindow(used, gap, gap) \in gap..MaxWindow
  BY <1>1, <1>2, Grown
<1>5. Opened \in 1..MaxWindow /\ Opened >= gap
  BY <1>2, <1>3, <1>4
<1> QED
  BY <1>5 DEF gap

LEMMA Reloads ==
  ASSUME WalletInv, best \in 0..MaxHeight, "load" \in Api, Load
  PROVE  WalletInv'
<1>1. /\ Records(rec) /\ Lists(transactions, Range(transactions))
      /\ Range(transactions) \subseteq DOMAIN rec /\ DOMAIN rec \subseteq Txs
  BY InvParts
<1>2. PICK x : /\ LoadedAs(x) /\ DOMAIN x.rec = Range(transactions)
               /\ \A t \in Range(transactions) : x.rec[t] = Saved[t]
               /\ Lists(x.list, Range(transactions))
  BY LoadBuilds
<1> DEFINE r == x.rec
           s == x.list
           w == Opened
           first == Rebuild(r, s, w, Seed, {})
           again == first.credit.coinbaseOutputs > 0
                   /\ ~ (best >= Seed /\ best < first.credit.nextMaturity)
           built == IF again THEN Rebuild(first.rec, s, w, best, {}) ELSE first
<1>3. /\ rec' = built.rec /\ credit' = built.credit /\ transactions' = s
      /\ foreign' = {} /\ tip' = best /\ window' = w /\ overrides' = {} /\ growing' = FALSE
  BY <1>2 DEF LoadedAs
<1> HIDE DEF again
<1>4. DOMAIN r = Range(transactions) /\ Lists(s, Range(transactions))
      /\ \A t \in Range(transactions) : r[t] = Saved[t]
  BY <1>2
<1> HIDE DEF r, s
<1>5. Range(s) = Range(transactions)
  BY <1>4 DEF Lists
<1>6. Lists(s, Range(s)) /\ Range(s) \subseteq DOMAIN r
  BY <1>4, <1>5
<1>7. Records(r)
  <2> SUFFICES ASSUME NEW t \in Range(transactions) PROVE RecordOK(t, r[t])
    BY <1>1, <1>4 DEF Records
  <2>1. RecordOK(t, rec[t])
    BY <1>1 DEF Records
  <2> DEFINE h == rec[t].height
  <2>2. r[t] = Fresh(h)
    BY <1>4 DEF Saved
  <2>3. h \in 1..Unconfirmed
    BY <2>1 DEF RecordOK, CheckOK, Record
  <2>4. h # Unconfirmed => Signed[t] = Ins[t] \/ Gullible(t)
    BY <2>1 DEF RecordOK, HeightOK, Gullible
  <2> HIDE DEF h
  <2>5. CheckOK(t, Fresh(h)) /\ Fresh(h).height = h
    BY <2>3, FreshOK
  <2>6. HeightOK(t, Fresh(h))
    BY <2>4, <2>5 DEF HeightOK
  <2> QED
    BY <2>2, <2>5, <2>6 DEF RecordOK
<1>8. /\ Records(first.rec) /\ SameHeights(r, first.rec)
      /\ Offers(first.credit, first.rec, s) /\ first.credit.window = w
  <2> DEFINE seed == Seed
             none == {}
  <2> HIDE DEF w, seed, none
  <2>1. /\ Records(Rebuild(r, s, w, seed, none).rec) /\ SameHeights(r, Rebuild(r, s, w, seed, none).rec)
        /\ Offers(Rebuild(r, s, w, seed, none).credit, Rebuild(r, s, w, seed, none).rec, s)
        /\ Rebuild(r, s, w, seed, none).credit.window = w
    BY <1>6, <1>7, Rebuilt
  <2> QED
    BY <2>1 DEF seed, none
<1> DEFINE q == first.rec
<1>9. Range(s) \subseteq DOMAIN q /\ DOMAIN q = DOMAIN r
  BY <1>6, <1>8 DEF SameHeights
<1>10. /\ Records(built.rec) /\ DOMAIN built.rec = DOMAIN r
       /\ Offers(built.credit, built.rec, s) /\ built.credit.window = w
  <2>1. CASE again
    <3> DEFINE none == {}
               second == Rebuild(q, s, w, best, none)
    <3>1. built = second
      BY <2>1
    <3>2. Records(q)
      BY <1>8
    <3> HIDE DEF w, none, q
    <3>3. /\ Records(second.rec) /\ SameHeights(q, second.rec)
          /\ Offers(second.credit, second.rec, s) /\ second.credit.window = w
      BY <1>6, <1>9, <3>2, Rebuilt
    <3> HIDE DEF second, built
    <3> QED
      BY <1>9, <3>1, <3>3 DEF SameHeights
  <2>2. CASE ~ again
    <3>1. built = first
      BY <2>2
    <3> HIDE DEF first, built
    <3> QED
      BY <1>8, <3>1 DEF SameHeights
  <2> QED
    BY <2>1, <2>2
<1>11. w \in 1..MaxWindow
  BY <1>1, OpenedOK
<1> HIDE DEF built, w
<1>12. Holding(rec', transactions', foreign', credit')
  BY <1>3, <1>6, <1>10 DEF Holding
<1>13. Windows(credit', window')
  BY <1>3, <1>10, <1>11, MaxWindowOK DEF Windows
<1>14. Rest'
  BY <1>3 DEF Rest
<1> QED
  BY <1>12, <1>13, <1>14 DEF WalletInv

----------------------------------------------------------------------------
(* Every step. *)

LEMMA InitOK ==
  ASSUME Init
  PROVE  Inv
<1>1. /\ rec = <<>> /\ transactions = <<>> /\ foreign = {} /\ tip = 1
      /\ window = Gap + Cushion /\ overrides = {} /\ growing = FALSE
      /\ credit = [NoCredit EXCEPT !.window = Gap + Cushion]
      /\ best = 1 /\ mined \in [Txs -> 0..1] /\ Mineable(mined)
  BY DEF Init
<1>2. /\ DOMAIN credit = CreditFields /\ credit.window = Gap + Cushion
      /\ credit.used = {} /\ credit.utxos = {} /\ credit.invalid = {}
  BY <1>1, NoCreditFields DEF CreditFields
<1>3. DOMAIN rec = {} /\ Range(transactions) = {}
  BY <1>1 DEF Range
<1>4. Records(rec)
  BY <1>3 DEF Records
<1>5. Lists(transactions, Range(transactions))
  BY <1>1, <1>3 DEF Lists, IsInjective
<1>6. Offers(credit, rec, transactions)
  BY <1>2, <1>3 DEF Offers, CoinsOf
<1>7. Windows(credit, window)
  BY <1>1, <1>2, MaxWindowOK DEF Windows
<1>8. Rest
  <2>1. 1 \in 0..MaxHeight
    BY ConstantsOK
  <2> QED
    BY <1>1, <2>1 DEF Rest
<1>9. OnChain
  <2>1. 0..1 \subseteq 0..MaxHeight /\ 1 \in 1..MaxHeight
    BY ConstantsOK
  <2> QED
    BY <1>1, <2>1 DEF OnChain
<1>10. Holding(rec, transactions, foreign, credit)
  BY <1>1, <1>3, <1>4, <1>5, <1>6 DEF Holding
<1> QED
  BY <1>7, <1>8, <1>9, <1>10 DEF Inv, WalletInv

LEMMA ChainGrows ==
  ASSUME OnChain, best < MaxHeight, NEW from, mined' \in Extensions(from, best + 1), best' = best + 1
  PROVE  OnChain'
<1>1. mined' \in [Txs -> 0..(best + 1)] /\ Mineable(mined')
  BY DEF Extensions
<1>2. 0..(best + 1) \subseteq 0..MaxHeight /\ best + 1 \in 1..MaxHeight
  BY ConstantsOK DEF OnChain
<1> QED
  BY <1>1, <1>2 DEF OnChain

LEMMA MinedIsSigned ==
  ASSUME OnChain, NEW t \in Txs, mined[t] # 0
  PROVE  Signed[t] = Ins[t]
<1>1. mined[t] > 0
  BY DEF OnChain
<1> QED
  BY <1>1 DEF OnChain, Mineable

LEMMA OneUpdated ==
  ASSUME DualKey, WalletInv, NEW t \in Txs, NEW h \in 1..Unconfirmed,
         NEW unproven \in BOOLEAN, NEW restamp, Vouched(t, h, unproven),
         UpdateTransactions(<<t>>, h, unproven, restamp)
  PROVE  WalletInv'
<1> DEFINE hashes == <<t>>
<1>1. Len(hashes) = 1 /\ \A n \in 1..1 : hashes[n] = t
  OBVIOUS
<1>2. UpdateTransactions(hashes, h, unproven, restamp)
  OBVIOUS
<1> HIDE DEF hashes
<1>3. Len(hashes) \in Nat /\ \A n \in 1..Len(hashes) : hashes[n] \in Txs /\ Vouched(hashes[n], h, unproven)
  BY <1>1
<1> QED
  BY <1>2, <1>3, Updated

LEMMA NextOK ==
  ASSUME DualKey, Inv, Next
  PROVE  Inv'
<1>0. /\ WalletInv /\ OnChain /\ best \in 1..MaxHeight /\ MaxHeight \in Nat
      /\ Unconfirmed \in 1..Unconfirmed /\ \A h \in 1..MaxHeight : h \in 1..Unconfirmed
  BY ConstantsOK DEF Inv, OnChain, Unconfirmed
<1>1. CASE Block
  <2>1. best + 1 \in 0..MaxHeight /\ OnChain'
    BY <1>0, <1>1, ChainGrows DEF Block
  <2> DEFINE h == best + 1
  <2>2. SetBlockHeight(h)
    BY <1>1 DEF Block
  <2> HIDE DEF h
  <2>3. h \in 0..MaxHeight
    BY <2>1 DEF h
  <2> QED
    BY <1>0, <2>1, <2>2, <2>3, HeightSet DEF Inv
<1>2. CASE Reloaded
  <2>1. Load /\ "load" \in Api /\ UNCHANGED chain /\ best \in 0..MaxHeight
    BY <1>0, <1>2 DEF Reloaded
  <2>2. OnChain'
    BY <1>0, <2>1 DEF OnChain, chain, Mineable
  <2> QED
    BY <1>0, <2>1, <2>2, Reloads DEF Inv
<1>3. CASE Generated
  <2>1. UnusedAddrs /\ UNCHANGED chain
    BY <1>3 DEF Generated
  <2>2. OnChain'
    BY <1>0, <2>1 DEF OnChain, chain, Mineable
  <2> QED
    BY <1>0, <2>1, <2>2, AddressesGenerated DEF Inv
<1>4. ASSUME NEW h \in 1..MaxHeight, Reorg(h) PROVE Inv'
  <2>1. SetTxUnconfirmedAfter(h) /\ OnChain'
    BY <1>0, <1>4, ChainGrows DEF Reorg
  <2>2. h \in 0..MaxHeight
    BY <1>0
  <2> QED
    BY <1>0, <2>1, <2>2, Unwound DEF Inv
<1>5. ASSUME NEW h \in 1..MaxHeight, Confirmed(h) PROVE Inv'
  <2>1. PICK hashes \in SetToSeqs(InBlocks(h)) : UpdateTransactions(hashes, h, FALSE, FALSE)
    BY <1>5 DEF Confirmed
  <2>2. UNCHANGED chain
    BY <1>5 DEF Confirmed
  <2> DEFINE B == InBlocks(h)
             N == Cardinality(B)
  <2>3. N \in Nat
    <3>1. B \in SUBSET Txs
      BY DEF InBlocks
    <3>2. IsFiniteSet(B)
      BY <3>1, ConstantsOK, FS_Subset
    <3> HIDE DEF B
    <3> QED
      BY <3>2, FS_CardinalityType
  <2>4. hashes \in [1..N -> B]
    BY <2>1 DEF SetToSeqs
  <2> HIDE DEF N
  <2>5. Len(hashes) = N /\ \A n \in 1..N : hashes[n] \in B
    BY <2>3, <2>4
  <2>6. \A t \in B : t \in Txs /\ Signed[t] = Ins[t]
    <3> SUFFICES ASSUME NEW t \in B PROVE t \in Txs /\ Signed[t] = Ins[t]
      OBVIOUS
    <3>1. t \in Txs /\ mined[t] # 0
      BY DEF InBlocks
    <3> QED
      BY <1>0, <3>1, MinedIsSigned
  <2> HIDE DEF B
  <2>7. \A n \in 1..Len(hashes) : hashes[n] \in Txs /\ Vouched(hashes[n], h, FALSE)
    BY <2>5, <2>6 DEF Vouched
  <2>8. PICK no \in BOOLEAN : no = FALSE
    OBVIOUS
  <2>9. UpdateTransactions(hashes, h, no, FALSE)
    BY <2>1, <2>8
  <2>10. \A n \in 1..Len(hashes) : hashes[n] \in Txs /\ Vouched(hashes[n], h, no)
    BY <2>7, <2>8
  <2>11. WalletInv'
    BY <1>0, <2>3, <2>5, <2>9, <2>10, Updated
  <2>12. OnChain'
    BY <1>0, <2>2 DEF OnChain, chain, Mineable
  <2> QED
    BY <2>11, <2>12 DEF Inv
<1>6. ASSUME NEW t \in Txs, Relayed(t) PROVE Inv'
  <2>1. RegisterTx(t, "checked", Unconfirmed, FALSE) /\ UNCHANGED chain
    BY <1>6 DEF Relayed
  <2>2. Asked(t, "checked", Unconfirmed, FALSE)
    BY DEF Asked
  <2>3. WalletInv'
    BY <1>0, <2>1, <2>2, Registered
  <2>4. OnChain'
    BY <1>0, <2>1 DEF OnChain, chain, Mineable
  <2> QED
    BY <2>3, <2>4 DEF Inv
<1>7. ASSUME NEW t \in Txs, Delivered(t) PROVE Inv'
  <2>1. mined[t] \in 1..best /\ RegisterTx(t, "trusted", Unconfirmed, FALSE) /\ UNCHANGED chain
    BY <1>7 DEF Delivered
  <2>2. Signed[t] = Ins[t]
    BY <1>0, <2>1, MinedIsSigned
  <2>3. Asked(t, "trusted", Unconfirmed, FALSE)
    BY <2>2 DEF Asked
  <2>4. WalletInv'
    BY <1>0, <2>1, <2>3, Registered
  <2>5. OnChain'
    BY <1>0, <2>1 DEF OnChain, chain, Mineable
  <2> QED
    BY <2>4, <2>5 DEF Inv
<1>8. ASSUME NEW t \in Txs, NEW own \in BOOLEAN, HasTx(t, own) PROVE Inv'
  <2>1. RegisterTx(t, "trusted", Unconfirmed, own) /\ UNCHANGED chain
    BY <1>8 DEF HasTx
  <2>2. Asked(t, "trusted", Unconfirmed, own)
    BY <1>8 DEF HasTx, Asked
  <2>3. WalletInv'
    BY <1>0, <2>1, <2>2, Registered
  <2>4. OnChain'
    BY <1>0, <2>1 DEF OnChain, chain, Mineable
  <2> QED
    BY <2>3, <2>4 DEF Inv
<1>9. ASSUME NEW t \in Txs, Restamped(t) PROVE Inv'
  <2>1. UpdateTransactions(<<t>>, Unconfirmed, FALSE, TRUE) /\ UNCHANGED chain
    BY <1>9 DEF Restamped
  <2>2. Vouched(t, Unconfirmed, FALSE)
    BY DEF Vouched
  <2>3. WalletInv'
    BY <1>0, <2>1, <2>2, OneUpdated
  <2>4. OnChain'
    BY <1>0, <2>1 DEF OnChain, chain, Mineable
  <2> QED
    BY <2>3, <2>4 DEF Inv
<1>10. ASSUME NEW t \in Txs, Removed(t) PROVE Inv'
  <2>1. RemoveTransaction(t) /\ UNCHANGED chain
    BY <1>10 DEF Removed
  <2>2. OnChain'
    BY <1>0, <2>1 DEF OnChain, chain, Mineable
  <2> QED
    BY <1>0, <2>1, <2>2, TransactionRemoved DEF Inv
<1>11. ASSUME NEW t \in Txs, NEW h \in 1..MaxHeight, Reported(t, h) PROVE Inv'
  <2>1. /\ <<t, h>> \in Claims /\ UNCHANGED chain
        /\ \/ RegisterTx(t, "unproven", h, FALSE)
           \/ UpdateTransactions(<<t>>, h, TRUE, FALSE)
    BY <1>11 DEF Reported
  <2>2. t \in Claimed
    <3>1. <<t, h>>[1] = t
      OBVIOUS
    <3> QED
      BY <2>1, <3>1 DEF Claimed
  <2>3. ASSUME RegisterTx(t, "unproven", h, FALSE) PROVE WalletInv'
    <3>1. Asked(t, "unproven", h, FALSE)
      BY <2>2 DEF Asked
    <3> QED
      BY <1>0, <2>3, <3>1, Registered
  <2>4. ASSUME UpdateTransactions(<<t>>, h, TRUE, FALSE) PROVE WalletInv'
    <3>1. PICK yes \in BOOLEAN : yes = TRUE
      OBVIOUS
    <3>2. Vouched(t, h, yes)
      BY <2>2, <3>1 DEF Vouched
    <3>3. UpdateTransactions(<<t>>, h, yes, FALSE)
      BY <2>4, <3>1
    <3> QED
      BY <1>0, <3>2, <3>3, OneUpdated
  <2>5. OnChain'
    BY <1>0, <2>1 DEF OnChain, chain, Mineable
  <2> QED
    BY <2>1, <2>3, <2>4, <2>5 DEF Inv
<1>12. ASSUME NEW o \in Assets, AssetFound(o) PROVE Inv'
  <2>1. RegisterAssetOutpoint(o) /\ UNCHANGED chain /\ o \in Outpoints
    BY <1>12, ConstantsOK DEF AssetFound
  <2>2. OnChain'
    BY <1>0, <2>1 DEF OnChain, chain, Mineable
  <2> QED
    BY <1>0, <2>1, <2>2, AssetRegistered DEF Inv
<1> QED
  BY <1>1, <1>2, <1>3, <1>4, <1>5, <1>6, <1>7, <1>8, <1>9, <1>10, <1>11, <1>12 DEF Next

LEMMA InvHolds ==
  ASSUME DualKey
  PROVE  Spec => []Inv
<1>1. Init => Inv
  BY InitOK
<1>2. Inv /\ [Next]_vars => Inv'
  <2>1. Inv /\ Next => Inv'
    BY NextOK
  <2>2. Inv /\ UNCHANGED vars => Inv'
    BY DEF vars, Inv, WalletInv, Holding, Rest, OnChain, Mineable
  <2> QED
    BY <2>1, <2>2
<1> QED
  BY <1>1, <1>2, PTL DEF Spec

----------------------------------------------------------------------------
(* The list stays in the order of heights, while the wallet recognises     *)
(* what it lists: a transaction it no longer recognises is stamped where   *)
(* it stands.                                                              *)

Recognised == \A t \in Range(transactions) : ContainsTx(rec, window, t)

LEMMA ContainsSame ==
  ASSUME NEW r, NEW q, DOMAIN q = DOMAIN r, NEW w, NEW t \in Txs
  PROVE  ContainsTx(q, w, t) = ContainsTx(r, w, t)
<1>1. OwnedInputs(q, w, t) = OwnedInputs(r, w, t)
  BY OwnedOK
<1> QED
  BY <1>1 DEF ContainsTx

LEMMA HeightsAreNumbers ==
  ASSUME NEW r, Records(r), NEW t \in DOMAIN r
  PROVE  r[t].height \in Nat /\ r[t].height <= Unconfirmed
<1>1. r[t] \in Record
  BY DEF Records, RecordOK, CheckOK
<1> QED
  BY <1>1, ConstantsOK DEF Record, Unconfirmed

(* A rebuild moves no height, and offers what is ripe.                     *)
LEMMA SettledKeeps ==
  ASSUME NEW r, Records(r), NEW s, Lists(s, Range(s)), Range(s) \subseteq DOMAIN r,
         NEW w, NEW wtip, NEW over, NEW needed, Settle(r, s, w, wtip, over, needed)
  PROVE  /\ SameHeights(r, rec') /\ transactions' = s /\ tip' = wtip
         /\ RipeAt(credit', r, wtip) \/ (~ needed /\ rec' = r /\ credit' = credit)
<1>1. CASE needed
  <2> DEFINE b == Rebuild(r, s, w, wtip, over)
  <2>1. rec' = b.rec /\ credit' = b.credit /\ transactions' = s /\ tip' = wtip
    BY <1>1 DEF Settle
  <2>2. SameHeights(r, b.rec) /\ RipeAt(b.credit, r, wtip)
    BY Rebuilt
  <2> HIDE DEF b
  <2> QED
    BY <2>1, <2>2
<1>2. CASE ~ needed
  BY <1>2 DEF Settle, SameHeights
<1> QED
  BY <1>1, <1>2

LEMMA SettledOrder ==
  ASSUME NEW r, Records(r), NEW s, Lists(s, Range(s)), Range(s) \subseteq DOMAIN r, Ordered(r, s),
         NEW w, NEW wtip, NEW over, NEW needed, Settle(r, s, w, wtip, over, needed)
  PROVE  ListedByHeight'
<1>1. SameHeights(r, rec') /\ transactions' = s
  BY SettledKeeps
<1>2. ASSUME NEW i \in DOMAIN s PROVE rec'[s[i]].height = r[s[i]].height
  <2>1. s[i] \in DOMAIN r
    BY DEF Range
  <2> QED
    BY <1>1, <2>1 DEF SameHeights
<1>3. Ordered(rec', s)
  BY <1>2, OrderedSame
<1> QED
  BY <1>1, <1>3 DEF ListedByHeight, Ordered

(* A height is the chain's, or a server claims it.                         *)
Told(t, h, unproven) ==
  (h # Unconfirmed => mined[t] = h \/ unproven) /\ (unproven => t \in Claimed)

(* A call stamps a record with its height or not at all, marks those a     *)
(* server claims, and takes note of a coin generation it stamps.           *)
Marks(r, h) ==
  \A u \in DOMAIN rec :
     /\ \/ r[u].height = rec[u].height
        \/ r[u].height = h /\ (h # Unconfirmed => mined[u] = h \/ r[u].always)
     /\ rec[u].always => r[u].always
     /\ r[u].always => rec[u].always \/ u \in Claimed

Noticed(acc) ==
  acc.needed \/ \A u \in Range(transactions) \cap Coinbase : acc.rec[u].height = rec[u].height

Keeping(acc, h) == Ordered(acc.rec, acc.list) /\ Marks(acc.rec, h) /\ Noticed(acc)

LEMMA StampedKeeps ==
  ASSUME DualKey, Recognised, NEW acc, Stamping(acc), NEW h \in 1..Unconfirmed, Keeping(acc, h),
         NEW t \in Txs, NEW unproven \in BOOLEAN, NEW restamp, Told(t, h, unproven),
         Range(transactions) \subseteq DOMAIN rec
  PROVE  Keeping(Stamped(acc, t, h, unproven, restamp), h)
<1> DEFINE r == acc.rec
           old == r[t].height
           back == old # Unconfirmed /\ h = Unconfirmed
           new == [r[t] EXCEPT !.height = h, !.always = @ \/ unproven,
                               !.accepted = IF back THEN {} ELSE @]
           with == [r EXCEPT ![t] = new]
           matters == \/ t \in credit.pending \cup credit.invalid \cup Coinbase
                      \/ old # Unconfirmed /\ old # h
           b == Stamped(acc, t, h, unproven, restamp)
           L == Range(transactions)
<1>1. CASE t \notin DOMAIN r \/ (old = h /\ ~ restamp) \/ (unproven /\ old # Unconfirmed)
  <2>1. b = acc
    BY <1>1 DEF Stamped
  <2> QED
    BY <2>1
<1>2. CASE ~ (t \notin DOMAIN r \/ (old = h /\ ~ restamp) \/ (unproven /\ old # Unconfirmed))
  <2>1. /\ DOMAIN acc = {"rec", "list", "foreign", "needed"}
        /\ Records(r) /\ DOMAIN r = DOMAIN rec /\ Lists(acc.list, L)
        /\ Ordered(r, acc.list) /\ Marks(r, h) /\ Noticed(acc)
    BY DEF Stamping, Keeping
  <2>2. t \in DOMAIN r
    BY <1>2
  <2>3. r[t] \in Record
    BY <2>1, <2>2 DEF Records, RecordOK, CheckOK
  <2>4. new.height = h /\ new.always = (r[t].always \/ unproven)
    <3> HIDE DEF r
    <3> QED
      BY <2>3 DEF Record
  <2>5. /\ DOMAIN with = DOMAIN r /\ with[t] = new
        /\ \A u \in DOMAIN r : u # t => with[u] = r[u]
    <3> HIDE DEF r, new
    <3> QED
      BY <2>2
  <2>6. b = IF ContainsTx(with, window, t)
            THEN [acc EXCEPT !.rec = with,
                             !.list = IF t \in Range(@) THEN InsertTx(with, Without(@, t), t) ELSE @,
                             !.needed = @ \/ matters]
            ELSE [acc EXCEPT !.rec = with]
    BY <1>2 DEF Stamped
  <2>7. /\ b.rec = with
        /\ b.list = IF t \in L THEN InsertTx(with, Without(acc.list, t), t) ELSE acc.list
        /\ b.needed = (acc.needed \/ matters) \/ (b.needed = acc.needed /\ t \notin L)
    <3>1. Range(acc.list) = L
      BY <2>1 DEF Lists
    <3>2. CASE ContainsTx(with, window, t)
      <4>1. b = [acc EXCEPT !.rec = with,
                            !.list = IF t \in Range(acc.list) THEN InsertTx(with, Without(acc.list, t), t)
                                     ELSE acc.list,
                            !.needed = acc.needed \/ matters]
        BY <2>6, <3>2
      <4> HIDE DEF with, L, matters, b
      <4> QED
        BY <2>1, <3>1, <4>1
    <3>3. CASE ~ ContainsTx(with, window, t)
      <4>1. b = [acc EXCEPT !.rec = with]
        BY <2>6, <3>3
      <4>2. t \notin L
        <5>1. ~ ContainsTx(rec, window, t)
          BY <2>1, <2>5, <3>3, ContainsSame
        <5> QED
          BY <5>1 DEF Recognised
      <4> HIDE DEF with, b
      <4> QED
        BY <2>1, <4>1, <4>2
    <3> QED
      BY <3>2, <3>3
  <2> HIDE DEF new, with, b, old, matters
  <2>8. \A u \in DOMAIN with : with[u].height \in Nat
    <3> HIDE DEF r
    <3> SUFFICES ASSUME NEW u \in DOMAIN with PROVE with[u].height \in Nat
      OBVIOUS
    <3>1. CASE u = t
      BY <2>4, <2>5, <3>1, ConstantsOK DEF Unconfirmed
    <3>2. CASE u # t
      <4>1. u \in DOMAIN r /\ with[u] = r[u]
        BY <2>5, <3>2
      <4> QED
        BY <2>1, <4>1, HeightsAreNumbers
    <3> QED
      BY <3>1, <3>2
  <2>9. Ordered(b.rec, b.list)
    <3> HIDE DEF r
    <3>1. CASE t \notin L
      <4>1. ASSUME NEW i \in DOMAIN acc.list PROVE with[acc.list[i]].height = r[acc.list[i]].height
        <5>1. acc.list[i] \in L
          BY <2>1 DEF Lists
        <5> QED
          BY <2>1, <2>5, <3>1, <5>1
      <4>2. Ordered(with, acc.list)
        BY <2>1, <4>1, OrderedSame
      <4> QED
        BY <2>7, <3>1, <4>2
    <3>2. CASE t \in L
      <4> DEFINE rest == Without(acc.list, t)
                 R == L \ {t}
      <4>1. Lists(rest, R)
        BY <2>1, WithoutLists
      <4>2. Ordered(r, rest)
        BY <2>1, WithoutOrdered
      <4> HIDE DEF rest
      <4>3. ASSUME NEW i \in DOMAIN rest PROVE with[rest[i]].height = r[rest[i]].height
        <5>1. rest[i] \in R
          BY <4>1 DEF Lists
        <5> QED
          BY <2>1, <2>5, <5>1
      <4>4. Ordered(with, rest)
        BY <4>2, <4>3, OrderedSame
      <4>5. t \in DOMAIN with /\ t \notin R /\ R \subseteq DOMAIN with
        BY <2>1, <2>2, <2>5
      <4> HIDE DEF R
      <4>6. Ordered(with, InsertTx(with, rest, t))
        BY <2>8, <4>1, <4>4, <4>5, InsertTxOrdered
      <4> QED
        BY <2>7, <3>2, <4>6 DEF rest
    <3> QED
      BY <3>1, <3>2
  <2>10. Marks(with, h)
    <3> HIDE DEF r
    <3> SUFFICES ASSUME NEW u \in DOMAIN rec
                 PROVE  /\ \/ with[u].height = rec[u].height
                           \/ /\ with[u].height = h
                              /\ h # Unconfirmed => mined[u] = h \/ with[u].always
                        /\ rec[u].always => with[u].always
                        /\ with[u].always => rec[u].always \/ u \in Claimed
      BY DEF Marks
    <3>1. CASE u = t
      BY <2>1, <2>4, <2>5, <3>1 DEF Marks, Told
    <3>2. CASE u # t
      BY <2>1, <2>5, <3>2 DEF Marks
    <3> QED
      BY <3>1, <3>2
  <2>11. Noticed(b)
    <3>1. CASE t \in L /\ t \in Coinbase
      <4>1. matters
        BY <3>1 DEF matters
      <4> QED
        BY <2>7, <3>1, <4>1 DEF Noticed
    <3>2. CASE ~ (t \in L /\ t \in Coinbase)
      <4>1. ASSUME NEW u \in L \cap Coinbase PROVE with[u].height = r[u].height
        BY <2>1, <2>5, <3>2
      <4>2. acc.needed => b.needed
        BY <2>7
      <4> QED
        BY <2>1, <2>7, <4>1, <4>2 DEF Noticed
    <3> QED
      BY <3>1, <3>2
  <2> QED
    BY <2>7, <2>9, <2>10, <2>11 DEF Keeping, b
<1> QED
  BY <1>1, <1>2

LEMMA ToldIsVouched ==
  ASSUME OnChain, NEW t \in Txs, NEW h \in 1..Unconfirmed, NEW unproven \in BOOLEAN,
         Told(t, h, unproven)
  PROVE  Vouched(t, h, unproven)
<1>1. CASE mined[t] = h
  BY <1>1, MinedIsSigned DEF Vouched
<1>2. CASE mined[t] # h
  BY <1>2 DEF Told, Vouched
<1> QED
  BY <1>1, <1>2

(* What BRWalletUpdateTransactions settles on, after the last hash.        *)
LEMMA UpdateKeeps ==
  ASSUME DualKey, Inv, Recognised, ListedByHeight,
         NEW hashes, Len(hashes) \in Nat, NEW h \in 1..Unconfirmed,
         NEW unproven \in BOOLEAN, NEW restamp,
         \A n \in 1..Len(hashes) : hashes[n] \in Txs /\ Told(hashes[n], h, unproven),
         UpdateTransactions(hashes, h, unproven, restamp)
  PROVE  \E b, wtip : /\ Stamping(b) /\ Keeping(b, h)
                      /\ Settle(b.rec, b.list, window, wtip, overrides, b.needed)
                      /\ wtip = tip \/ (h # Unconfirmed /\ wtip = h)
<1> DEFINE M == Len(hashes)
           raised == ~ unproven /\ h # Unconfirmed /\ h > tip
<1>0. WalletInv /\ OnChain
  BY DEF Inv
<1>1. PICK f : /\ StampsOf(f, hashes, h, unproven, restamp, raised)
               /\ Settle(f[M].rec, f[M].list, window, IF raised THEN h ELSE tip, overrides, f[M].needed)
  BY UpdateFolds
<1>2. M \in Nat /\ \A n \in 1..M : hashes[n] \in Txs /\ Told(hashes[n], h, unproven)
  OBVIOUS
<1>3. /\ \A n \in 0..M : Stamping(f[n])
      /\ \A n \in 1..M : f[n] = Stamped(f[n - 1], hashes[n], h, unproven, restamp)
      /\ f[0].rec = rec /\ f[0].list = transactions
  <2>1. StampsOf(f, hashes, h, unproven, restamp, raised) /\ raised \in BOOLEAN
    BY <1>1
  <2>2. \A n \in 1..Len(hashes) : hashes[n] \in Txs /\ Vouched(hashes[n], h, unproven)
    BY <1>0, ToldIsVouched
  <2> HIDE DEF raised
  <2>3. \A n \in 0..Len(hashes) : Stamping(f[n])
    BY <1>0, <2>1, <2>2, Stampings
  <2> QED
    BY <2>1, <2>3 DEF StampsOf
<1> HIDE DEF M
<1> DEFINE T == {n \in 0..M : Keeping(f[n], h)}
<1>4. 0 \in T
  <2>1. Ordered(rec, transactions) /\ Marks(rec, h)
    BY DEF ListedByHeight, Ordered, Marks
  <2>2. Noticed(f[0])
    BY <1>3 DEF Noticed
  <2> QED
    BY <1>2, <1>3, <2>1, <2>2 DEF Keeping
<1>5. ASSUME NEW n \in 1..M, n - 1 \in T PROVE n \in T
  <2> DEFINE acc == f[n - 1]
             t == hashes[n]
  <2>1. n - 1 \in 0..M /\ n \in 0..M
    BY <1>2
  <2>2. Stamping(acc) /\ Keeping(acc, h) /\ t \in Txs /\ Told(t, h, unproven)
    BY <1>2, <1>3, <1>5, <2>1
  <2>3. f[n] = Stamped(acc, t, h, unproven, restamp)
    BY <1>3
  <2>4. Range(transactions) \subseteq DOMAIN rec
    BY <1>0, InvParts
  <2> HIDE DEF acc, t, T
  <2>5. Keeping(Stamped(acc, t, h, unproven, restamp), h)
    BY <2>2, <2>4, StampedKeeps
  <2> QED
    BY <2>1, <2>3, <2>5 DEF T
<1>6. M \in T
  <2>1. \A n \in 0..M : n \in T
    <3> HIDE DEF T
    <3> QED
      BY <1>2, <1>4, <1>5, Climb
  <2>2. M \in 0..M
    BY <1>2
  <2> QED
    BY <2>1, <2>2
<1>7. Stamping(f[M]) /\ Keeping(f[M], h)
  <2>1. M \in 0..M
    BY <1>2
  <2> QED
    BY <1>3, <1>6, <2>1
<1> DEFINE wtip == IF raised THEN h ELSE tip
<1>8. wtip = tip \/ (h # Unconfirmed /\ wtip = h)
  OBVIOUS
<1>9. Settle(f[M].rec, f[M].list, window, wtip, overrides, f[M].needed)
  BY <1>1
<1> HIDE DEF wtip
<1> QED
  BY <1>7, <1>8, <1>9

LEMMA UpdatedOrdered ==
  ASSUME DualKey, Inv, Recognised, ListedByHeight,
         NEW hashes, Len(hashes) \in Nat, NEW h \in 1..Unconfirmed,
         NEW unproven \in BOOLEAN, NEW restamp,
         \A n \in 1..Len(hashes) : hashes[n] \in Txs /\ Told(hashes[n], h, unproven),
         UpdateTransactions(hashes, h, unproven, restamp)
  PROVE  ListedByHeight'
<1>1. PICK b, wtip : /\ Stamping(b) /\ Keeping(b, h)
                     /\ Settle(b.rec, b.list, window, wtip, overrides, b.needed)
  BY UpdateKeeps
<1> DEFINE r == b.rec
           s == b.list
           needed == b.needed
<1>2. /\ Records(r) /\ DOMAIN r = DOMAIN rec /\ Lists(s, Range(transactions)) /\ Ordered(r, s)
      /\ Settle(r, s, window, wtip, overrides, needed)
  BY <1>1 DEF Stamping, Keeping
<1> HIDE DEF r, s, needed
<1>3. Lists(s, Range(s)) /\ Range(s) \subseteq DOMAIN r
  <2>1. Range(s) = Range(transactions)
    BY <1>2 DEF Lists
  <2>2. Range(transactions) \subseteq DOMAIN rec
    BY InvParts DEF Inv
  <2> QED
    BY <1>2, <2>1, <2>2
<1> QED
  BY <1>2, <1>3, SettledOrder

(* What a reorganisation settles on: of the wallet's own, those above the  *)
(* branch are unconfirmed, and those up to it are what they were.          *)
LEMMA UnwindSettles ==
  ASSUME WalletInv, ListedByHeight, NEW h \in 0..MaxHeight, SetTxUnconfirmedAfter(h)
  PROVE  \E r, needed :
            /\ Records(r) /\ DOMAIN r = DOMAIN rec /\ Ordered(r, transactions)
            /\ \A t \in DOMAIN rec : /\ r[t].height \in {rec[t].height, Unconfirmed}
                                     /\ r[t].always = rec[t].always
            /\ \A t \in Range(transactions) : r[t].height = Unconfirmed \/ r[t].height <= h
            /\ needed \/ \A t \in DOMAIN rec : r[t] = rec[t]
            /\ Settle(r, transactions, window, h, overrides, needed)
<1> DEFINE L == DOMAIN transactions
           stays == {i \in L : StaysConfirmed(transactions[i], h)}
           last == Max({0} \cup stays)
           after == {transactions[i] : i \in (last + 1)..Len(transactions)}
           r == [t \in DOMAIN rec |-> IF t \in after THEN Forgotten(rec[t]) ELSE rec[t]]
           needed == after # {}
<1>1. Settle(r, transactions, window, h, overrides, needed)
  BY DEF SetTxUnconfirmedAfter
<1>2. /\ Records(rec) /\ Lists(transactions, Range(transactions))
      /\ Range(transactions) \subseteq DOMAIN rec /\ DOMAIN rec \subseteq Txs
  BY InvParts
<1>3. /\ Len(transactions) \in Nat /\ L = 1..Len(transactions)
      /\ \A i, j \in L : transactions[i] = transactions[j] => i = j
      /\ \A i \in L : transactions[i] \in DOMAIN rec
  BY <1>2 DEF Lists, IsInjective, Range
<1>4. last \in 0..Len(transactions) /\ (last # 0 => last \in stays)
  <2> DEFINE T == {0} \cup stays
  <2>1. T \subseteq 0..Len(transactions) /\ T # {}
    BY <1>3
  <2> HIDE DEF T
  <2>2. Max(T) \in T
    BY <1>3, <2>1, Greatest
  <2> QED
    BY <2>1, <2>2 DEF T
<1> HIDE DEF last
<1>5. ASSUME NEW t \in DOMAIN rec
      PROVE  /\ RecordOK(t, r[t]) /\ r[t].height \in {rec[t].height, Unconfirmed}
             /\ r[t].always = rec[t].always
  <2>1. RecordOK(t, rec[t])
    BY <1>2 DEF Records
  <2>2. RecordOK(t, Forgotten(rec[t])) /\ Forgotten(rec[t]).height = Unconfirmed
        /\ Forgotten(rec[t]).always = rec[t].always
    BY <2>1, ForgottenOK
  <2>3. r[t] = Forgotten(rec[t]) \/ r[t] = rec[t]
    OBVIOUS
  <2> HIDE DEF r
  <2> QED
    BY <2>1, <2>2, <2>3
<1>6. DOMAIN r = DOMAIN rec
  OBVIOUS
<1>7. ASSUME NEW i \in L
      PROVE  r[transactions[i]].height = IF i <= last THEN rec[transactions[i]].height ELSE Unconfirmed
  <2>1. CASE i <= last
    <3>1. transactions[i] \notin after
      BY <1>3, <1>4, <2>1
    <3> QED
      BY <1>3, <2>1, <3>1
  <2>2. CASE ~ (i <= last)
    <3>1. i \in (last + 1)..Len(transactions)
      BY <1>3, <1>4, <2>2
    <3>2. r[transactions[i]] = Forgotten(rec[transactions[i]])
      BY <1>3, <3>1
    <3>3. transactions[i] \in DOMAIN rec
      BY <1>3
    <3>4. rec[transactions[i]] \in Record
      BY <1>2, <3>3 DEF Records, RecordOK, CheckOK
    <3>5. Forgotten(rec[transactions[i]]).height = Unconfirmed
      BY <3>4 DEF Forgotten, Record
    <3> QED
      BY <2>2, <3>2, <3>5
  <2> QED
    BY <2>1, <2>2
<1>8. needed \/ \A t \in DOMAIN rec : r[t] = rec[t]
  OBVIOUS
<1> HIDE DEF r, after, needed
<1>9. Records(r)
  BY <1>2, <1>5, <1>6 DEF Records
<1>10. ASSUME NEW i \in L
       PROVE  rec[transactions[i]].height \in Nat /\ rec[transactions[i]].height <= Unconfirmed
  BY <1>2, <1>3, HeightsAreNumbers
<1>11. ASSUME NEW i \in L, NEW j \in L, i < j
       PROVE  r[transactions[i]].height <= r[transactions[j]].height
  <2>1. rec[transactions[i]].height <= rec[transactions[j]].height
    BY <1>11 DEF ListedByHeight
  <2>2. Unconfirmed \in Nat
    BY ConstantsOK DEF Unconfirmed
  <2> QED
    BY <1>3, <1>4, <1>7, <1>10, <1>11, <2>1, <2>2
<1>12. Ordered(r, transactions)
  BY <1>11 DEF Ordered
<1>13. ASSUME NEW t \in Range(transactions) PROVE r[t].height = Unconfirmed \/ r[t].height <= h
  <2>1. PICK i \in L : t = transactions[i]
    BY DEF Range
  <2>2. CASE i <= last
    <3>1. last \in L /\ StaysConfirmed(transactions[last], h)
      BY <1>3, <1>4, <2>2
    <3>2. rec[transactions[last]].height <= h
      BY <3>1 DEF StaysConfirmed
    <3>3. rec[t].height <= rec[transactions[last]].height
      BY <1>3, <1>4, <1>10, <2>1, <2>2, <3>1 DEF ListedByHeight
    <3>4. rec[t].height \in Nat /\ rec[transactions[last]].height \in Nat /\ h \in Int
      BY <1>10, <2>1, <3>1
    <3>5. r[t].height = rec[t].height
      BY <1>7, <2>1, <2>2
    <3> QED
      BY <3>2, <3>3, <3>4, <3>5
  <2>3. CASE ~ (i <= last)
    BY <1>7, <2>1, <2>3
  <2> QED
    BY <2>2, <2>3
<1> QED
  BY <1>1, <1>5, <1>6, <1>8, <1>9, <1>12, <1>13

(* What a removal leaves.                                                  *)
LEMMA RemoveSettles ==
  ASSUME WalletInv, ListedByHeight, NEW t \in Txs, RemoveTransaction(t)
  PROVE  \/ UNCHANGED <<rec, transactions, tip, credit>>
         \/ \E r, s, needed :
               /\ Records(r) /\ DOMAIN r = DOMAIN rec \ {t} /\ \A u \in DOMAIN r : r[u] = rec[u]
               /\ Lists(s, Range(s)) /\ Range(s) = Range(transactions) \ {t}
               /\ Range(s) \subseteq DOMAIN r /\ Ordered(r, s)
               /\ needed /\ Settle(r, s, window, tip, overrides, needed)
<1> DEFINE dependants == IF t \in DOMAIN rec THEN Dependants(t) ELSE <<>>
           r == [u \in DOMAIN rec \ {t} |-> rec[u]]
           s == Without(transactions, t)
           needed == TRUE
<1>1. /\ Records(rec) /\ Lists(transactions, Range(transactions))
      /\ Range(transactions) \subseteq DOMAIN rec
  BY InvParts
<1>2. CASE dependants # <<>> \/ t \notin DOMAIN rec
  BY <1>2 DEF RemoveTransaction
<1>3. CASE ~ (dependants # <<>> \/ t \notin DOMAIN rec)
  <2>1. needed /\ Settle(r, s, window, tip, overrides, needed)
    BY <1>3 DEF RemoveTransaction
  <2>2. DOMAIN r = DOMAIN rec \ {t} /\ \A u \in DOMAIN r : r[u] = rec[u]
    OBVIOUS
  <2>3. Records(r)
    BY <1>1, <2>2 DEF Records
  <2>4. Lists(s, Range(transactions) \ {t})
    BY <1>1, WithoutLists
  <2>5. Range(s) = Range(transactions) \ {t}
    BY <2>4 DEF Lists
  <2>6. Ordered(rec, s)
    <3>1. Ordered(rec, transactions)
      BY DEF ListedByHeight, Ordered
    <3> QED
      BY <1>1, <3>1, WithoutOrdered
  <2> HIDE DEF r, s, needed
  <2>7. Lists(s, Range(s)) /\ Range(s) \subseteq DOMAIN r
    BY <1>1, <2>2, <2>4, <2>5
  <2>8. ASSUME NEW i \in DOMAIN s PROVE r[s[i]].height = rec[s[i]].height
    <3>1. s[i] \in Range(s)
      BY DEF Range
    <3> QED
      BY <2>2, <2>7, <3>1
  <2>9. Ordered(r, s)
    BY <2>6, <2>8, OrderedSame
  <2> QED
    BY <2>1, <2>2, <2>3, <2>5, <2>7, <2>9
<1> QED
  BY <1>2, <1>3

(* What a registration leaves: a new record, listed when it is the         *)
(* wallet's.                                                               *)
RegisteredAs(t, new, r, s, needed) ==
  /\ Records(r) /\ DOMAIN r = DOMAIN rec \cup {t} /\ r[t] = new
  /\ \A u \in DOMAIN rec : u # t => r[u] = rec[u]
  /\ t \notin Range(transactions) /\ (t \in DOMAIN rec => ContainsTx(rec, window, t))
  /\ Lists(s, Range(s)) /\ Range(s) = Range(transactions) \cup {t}
  /\ Range(s) \subseteq DOMAIN r /\ Ordered(r, s) /\ Ordered(r, transactions)
  /\ \/ ContainsTx(rec, window, t) /\ needed /\ Settle(r, s, window, tip, overrides, needed)
     \/ ~ ContainsTx(rec, window, t) /\ rec' = r /\ UNCHANGED <<transactions, tip, credit>>

LEMMA RegisterSettles ==
  ASSUME WalletInv, ListedByHeight,
         NEW t \in Txs, NEW asked, NEW h \in 1..Unconfirmed, NEW own \in BOOLEAN,
         Asked(t, asked, h, own), RegisterTx(t, asked, h, own)
  PROVE  \E r, s, needed : RegisteredAs(t, NewRecord(t, asked, h, own), r, s, needed)
<1> DEFINE new == NewRecord(t, asked, h, own)
           r == With(rec, t, new)
           s == InsertTx(r, transactions, t)
           mine == ContainsTx(rec, window, t)
           held == t \in DOMAIN rec
           needed == TRUE
<1>1. /\ Records(rec) /\ Lists(transactions, Range(transactions))
      /\ Range(transactions) \subseteq DOMAIN rec
      /\ foreign \subseteq DOMAIN rec \ Range(transactions) /\ DOMAIN rec \subseteq Txs
  BY InvParts
<1>2. /\ held => t \in foreign /\ mine
      /\ IF mine THEN needed /\ Settle(r, s, window, tip, overrides, needed)
                 ELSE rec' = r /\ UNCHANGED <<transactions, tip, credit>>
  BY DEF RegisterTx, NewRecord
<1>3. RecordOK(t, new)
  BY <1>1, NewRecordOK
<1> HIDE DEF new
<1>4. /\ DOMAIN r = DOMAIN rec \cup {t} /\ r[t] = new
      /\ \A u \in DOMAIN rec : u # t => r[u] = rec[u]
  BY DEF With
<1> HIDE DEF r, needed
<1>5. Records(r)
  BY <1>1, <1>3, <1>4 DEF Records
<1>6. t \notin Range(transactions)
  BY <1>1, <1>2
<1>7. Ordered(r, transactions)
  <2>1. ASSUME NEW i \in DOMAIN transactions
        PROVE  r[transactions[i]].height = rec[transactions[i]].height
    <3>1. transactions[i] \in Range(transactions)
      BY DEF Range
    <3> QED
      BY <1>1, <1>4, <1>6, <3>1
  <2>2. Ordered(rec, transactions)
    BY DEF ListedByHeight, Ordered
  <2> QED
    BY <2>1, <2>2, OrderedSame
<1>8. Lists(s, Range(transactions) \cup {t})
  BY <1>1, <1>6, InsertTxLists
<1>9. Ordered(r, s)
  <2>1. t \in DOMAIN r /\ Range(transactions) \subseteq DOMAIN r
    BY <1>1, <1>4
  <2>2. \A u \in DOMAIN r : r[u].height \in Nat
    BY <1>5, HeightsAreNumbers
  <2> QED
    BY <1>1, <1>6, <1>7, <2>1, <2>2, InsertTxOrdered
<1> HIDE DEF s
<1>10. Range(s) = Range(transactions) \cup {t}
  BY <1>8 DEF Lists
<1>11. Lists(s, Range(s)) /\ Range(s) \subseteq DOMAIN r
  BY <1>1, <1>4, <1>8, <1>10
<1>12. \/ mine /\ needed /\ Settle(r, s, window, tip, overrides, needed)
       \/ ~ mine /\ rec' = r /\ UNCHANGED <<transactions, tip, credit>>
  BY <1>2
<1>13. RegisteredAs(t, new, r, s, needed)
  <2> HIDE DEF held, mine
  <2>1. held => mine
    BY <1>2
  <2> QED
    BY <1>4, <1>5, <1>6, <1>7, <1>9, <1>10, <1>11, <1>12, <2>1 DEF RegisteredAs, held, mine
<1> QED
  BY <1>13 DEF new

LEMMA RipeSame ==
  ASSUME NEW c, NEW r, CoinsOf(c, r), NEW q, SameHeights(r, q), NEW wtip, RipeAt(c, r, wtip)
  PROVE  RipeAt(c, q, wtip)
BY DEF CoinsOf, SameHeights, RipeAt

(* A load leaves the saved heights in their order, and a balance built at  *)
(* the highest of them or at the tip.                                      *)
LEMMA LoadSettles ==
  ASSUME WalletInv, "load" \in Api, Load
  PROVE  /\ ListedByHeight' /\ Range(transactions') = Range(transactions)
         /\ DOMAIN rec' = Range(transactions)
         /\ \A t \in DOMAIN rec' : rec'[t].height = rec[t].height /\ rec'[t].always = FALSE
         /\ RipeAt(credit', rec', Seed) \/ RipeAt(credit', rec', best)
         /\ window' = Opened /\ tip' = best
<1> DEFINE L == Range(transactions)
<1>1. PICK x : /\ LoadedAs(x) /\ DOMAIN x.rec = L
               /\ \A t \in L : x.rec[t] = Saved[t]
               /\ Lists(x.list, L) /\ Ordered(x.rec, x.list)
  BY LoadBuilds
<1> DEFINE r == x.rec
           s == x.list
           w == Opened
           seed == Seed
           none == {}
           first == Rebuild(r, s, w, seed, none)
           again == first.credit.coinbaseOutputs > 0
                   /\ ~ (best >= Seed /\ best < first.credit.nextMaturity)
           q == first.rec
           second == Rebuild(q, s, w, best, none)
           built == IF again THEN second ELSE first
<1>2. /\ rec' = built.rec /\ credit' = built.credit /\ transactions' = s
      /\ tip' = best /\ window' = w
  BY <1>1 DEF LoadedAs
<1> HIDE DEF again
<1>3. \A t \in L : r[t].height = rec[t].height /\ r[t].always = FALSE /\ RecordOK(t, r[t])
  <2> SUFFICES ASSUME NEW t \in L
               PROVE  r[t].height = rec[t].height /\ r[t].always = FALSE /\ RecordOK(t, r[t])
    OBVIOUS
  <2>1. RecordOK(t, rec[t])
    BY InvParts DEF Records
  <2> DEFINE h == rec[t].height
  <2>2. r[t] = Fresh(h)
    BY <1>1 DEF Saved
  <2>3. h \in 1..Unconfirmed
    BY <2>1 DEF RecordOK, CheckOK, Record
  <2>4. h # Unconfirmed => Signed[t] = Ins[t] \/ Gullible(t)
    BY <2>1 DEF RecordOK, HeightOK, Gullible
  <2> HIDE DEF h
  <2>5. CheckOK(t, Fresh(h)) /\ Fresh(h).height = h /\ Fresh(h).always = FALSE
    BY <2>3, FreshOK DEF Fresh
  <2>6. HeightOK(t, Fresh(h))
    BY <2>4, <2>5 DEF HeightOK
  <2> QED
    BY <2>2, <2>5, <2>6 DEF RecordOK, h
<1>4. Records(r) /\ Lists(s, Range(s)) /\ Range(s) = L /\ Range(s) \subseteq DOMAIN r
  <2>1. L \subseteq Txs
    BY InvParts
  <2> QED
    BY <1>1, <1>3, <2>1 DEF Records, Lists
<1> HIDE DEF r, s, w, seed, none, L
<1>5. /\ Records(q) /\ SameHeights(r, q) /\ RipeAt(first.credit, r, seed)
      /\ Offers(first.credit, q, s)
  BY <1>4, Rebuilt
<1> HIDE DEF q
<1>6. DOMAIN q = DOMAIN r
  BY <1>5 DEF SameHeights
<1>7. /\ Records(second.rec) /\ SameHeights(q, second.rec) /\ RipeAt(second.credit, q, best)
      /\ Offers(second.credit, second.rec, s)
  BY <1>4, <1>5, <1>6, Rebuilt
<1> HIDE DEF first, second
<1>8. SameHeights(r, built.rec) /\ (RipeAt(built.credit, built.rec, seed) \/ RipeAt(built.credit, built.rec, best))
  <2>1. CASE again
    <3>1. built = second
      BY <2>1
    <3>2. SameHeights(r, second.rec)
      BY <1>5, <1>7 DEF SameHeights
    <3>3. CoinsOf(second.credit, q)
      BY <1>6, <1>7 DEF Offers, CoinsOf, SameHeights
    <3>4. RipeAt(second.credit, second.rec, best)
      BY <1>7, <3>3, RipeSame
    <3> QED
      BY <3>1, <3>2, <3>4
  <2>2. CASE ~ again
    <3>1. built = first /\ q = first.rec
      BY <2>2 DEF q
    <3>2. CoinsOf(first.credit, r)
      BY <1>5, <1>6 DEF Offers, CoinsOf
    <3>3. RipeAt(first.credit, q, seed)
      BY <1>5, <3>2, RipeSame
    <3> QED
      BY <1>5, <3>1, <3>3
  <2> QED
    BY <2>1, <2>2
<1> HIDE DEF built
<1>9. SameHeights(r, rec')
  BY <1>2, <1>8
<1>10. ListedByHeight'
  <2>1. ASSUME NEW i \in DOMAIN s PROVE rec'[s[i]].height = r[s[i]].height
    <3>1. s[i] \in DOMAIN r
      BY <1>4 DEF Range
    <3> QED
      BY <1>9, <3>1 DEF SameHeights
  <2>2. Ordered(r, s)
    BY <1>1 DEF r, s
  <2>3. Ordered(rec', s)
    BY <2>1, <2>2, OrderedSame
  <2> QED
    BY <1>2, <2>3 DEF ListedByHeight, Ordered
<1>11. DOMAIN r = L
  BY <1>1 DEF r
<1>12. \A t \in DOMAIN rec' : rec'[t].height = rec[t].height /\ rec'[t].always = FALSE
  BY <1>3, <1>9, <1>11 DEF SameHeights
<1>13. DOMAIN rec' = L /\ Range(transactions') = L
  BY <1>2, <1>4, <1>9, <1>11 DEF SameHeights
<1> QED
  BY <1>2, <1>8, <1>10, <1>12, <1>13 DEF L, w, seed

(* The steps that register a transaction, and those that stamp heights.    *)
Registering ==
  \E t \in Txs, asked \in {"checked", "trusted", "unproven"}, h \in 1..Unconfirmed, own \in BOOLEAN :
     /\ Asked(t, asked, h, own) /\ RegisterTx(t, asked, h, own)
     /\ h # Unconfirmed => h <= best

Updating ==
  \E hashes \in Seq(Txs), h \in 1..Unconfirmed, unproven \in BOOLEAN, restamp \in BOOLEAN :
     /\ \A n \in 1..Len(hashes) : Told(hashes[n], h, unproven)
     /\ UpdateTransactions(hashes, h, unproven, restamp)
     /\ h # Unconfirmed => h <= best \/ InBlocks(h) # {}

LEMMA ConfirmedUpdates ==
  ASSUME NEW h \in 1..MaxHeight, Confirmed(h)
  PROVE  Updating
<1>1. PICK hashes \in SetToSeqs(InBlocks(h)) : UpdateTransactions(hashes, h, FALSE, FALSE)
  BY DEF Confirmed
<1> DEFINE B == InBlocks(h)
           N == Cardinality(B)
<1>2. B \subseteq Txs /\ \A t \in B : mined[t] = h
  BY DEF InBlocks
<1>3. N \in Nat
  <2>1. IsFiniteSet(B)
    BY <1>2, ConstantsOK, FS_Subset
  <2> HIDE DEF B
  <2> QED
    BY <2>1, FS_CardinalityType
<1>4. hashes \in [1..N -> B] /\ B # {}
  BY <1>1 DEF SetToSeqs, Confirmed
<1> HIDE DEF B, N
<1>5. hashes \in Seq(Txs) /\ Len(hashes) = N
  BY <1>2, <1>3, <1>4
<1>6. PICK no \in BOOLEAN : no = FALSE
  OBVIOUS
<1>7. \A n \in 1..Len(hashes) : Told(hashes[n], h, no)
  BY <1>2, <1>4, <1>5, <1>6 DEF Told
<1>8. UpdateTransactions(hashes, h, no, no)
  BY <1>1, <1>6
<1>9. h \in 1..Unconfirmed
  BY ConstantsOK DEF Unconfirmed
<1>10. InBlocks(h) # {}
  BY <1>4 DEF B
<1> QED
  BY <1>5, <1>7, <1>8, <1>9, <1>10 DEF Updating

LEMMA OneUpdates ==
  ASSUME NEW t \in Txs, NEW h \in 1..Unconfirmed, NEW unproven \in BOOLEAN, NEW restamp \in BOOLEAN,
         Told(t, h, unproven), UpdateTransactions(<<t>>, h, unproven, restamp),
         h # Unconfirmed => h <= best
  PROVE  Updating
<1> DEFINE hashes == <<t>>
<1>1. hashes \in Seq(Txs) /\ \A n \in 1..Len(hashes) : hashes[n] = t
  OBVIOUS
<1>2. UpdateTransactions(hashes, h, unproven, restamp)
  OBVIOUS
<1> HIDE DEF hashes
<1>3. \A n \in 1..Len(hashes) : Told(hashes[n], h, unproven)
  BY <1>1
<1> QED
  BY <1>1, <1>2, <1>3 DEF Updating

LEMMA ReportedIs ==
  ASSUME NEW t \in Txs, NEW h \in 1..MaxHeight, Reported(t, h)
  PROVE  Registering \/ Updating
<1>1. h \in 1..Unconfirmed /\ h <= best
  BY ConstantsOK DEF Unconfirmed, Reported
<1>2. t \in Claimed
  <2>1. <<t, h>> \in Claims /\ <<t, h>>[1] = t
    BY DEF Reported
  <2> QED
    BY <2>1 DEF Claimed
<1>3. CASE RegisterTx(t, "unproven", h, FALSE)
  <2>1. Asked(t, "unproven", h, FALSE)
    BY <1>2 DEF Asked
  <2> QED
    BY <1>1, <1>3, <2>1 DEF Registering
<1>4. CASE UpdateTransactions(<<t>>, h, TRUE, FALSE)
  <2>1. PICK yes \in BOOLEAN, no \in BOOLEAN : yes = TRUE /\ no = FALSE
    OBVIOUS
  <2>2. UpdateTransactions(<<t>>, h, yes, no) /\ Told(t, h, yes)
    BY <1>2, <1>4, <2>1 DEF Told
  <2> QED
    BY <1>1, <2>2, OneUpdates
<1> QED
  BY <1>3, <1>4 DEF Reported

LEMMA RestampedUpdates ==
  ASSUME NEW t \in Txs, Restamped(t)
  PROVE  Updating
<1>1. PICK yes \in BOOLEAN, no \in BOOLEAN : yes = TRUE /\ no = FALSE
  OBVIOUS
<1>2. UpdateTransactions(<<t>>, Unconfirmed, no, yes)
  BY <1>1 DEF Restamped
<1>3. Told(t, Unconfirmed, no)
  BY <1>1 DEF Told
<1>4. Unconfirmed \in 1..Unconfirmed
  BY ConstantsOK DEF Unconfirmed
<1> QED
  BY <1>2, <1>3, <1>4, OneUpdates

LEMMA Registers ==
  ASSUME OnChain, NEW t \in Txs, Relayed(t) \/ Delivered(t) \/ \E own \in BOOLEAN : HasTx(t, own)
  PROVE  Registering
<1>1. Unconfirmed \in 1..Unconfirmed
  BY ConstantsOK DEF Unconfirmed
<1>2. CASE Relayed(t)
  <2>1. RegisterTx(t, "checked", Unconfirmed, FALSE) /\ Asked(t, "checked", Unconfirmed, FALSE)
    BY <1>2 DEF Relayed, Asked
  <2> QED
    BY <1>1, <2>1 DEF Registering
<1>3. CASE Delivered(t)
  <2>1. mined[t] \in 1..best /\ RegisterTx(t, "trusted", Unconfirmed, FALSE)
    BY <1>3 DEF Delivered
  <2>2. Signed[t] = Ins[t]
    BY <2>1, MinedIsSigned DEF OnChain
  <2>3. Asked(t, "trusted", Unconfirmed, FALSE)
    BY <2>2 DEF Asked
  <2> QED
    BY <1>1, <2>1, <2>3 DEF Registering
<1>4. CASE \E own \in BOOLEAN : HasTx(t, own)
  <2>1. PICK own \in BOOLEAN : HasTx(t, own)
    BY <1>4
  <2>2. RegisterTx(t, "trusted", Unconfirmed, own) /\ Asked(t, "trusted", Unconfirmed, own)
    BY <2>1 DEF HasTx, Asked
  <2> QED
    BY <1>1, <2>2 DEF Registering
<1> QED
  BY <1>2, <1>3, <1>4

(* The steps, by what they do to the records.                              *)
LEMMA Steps ==
  ASSUME OnChain, Next
  PROVE  \/ Block \/ Reloaded \/ Generated \/ \E h \in 1..MaxHeight : Reorg(h)
         \/ /\ UNCHANGED chain
            /\ \/ Registering \/ Updating
               \/ \E t \in Txs : Removed(t)
               \/ \E o \in Assets : AssetFound(o)
<1>1. ASSUME NEW h \in 1..MaxHeight, Confirmed(h) PROVE Updating /\ UNCHANGED chain
  BY <1>1, ConfirmedUpdates DEF Confirmed
<1>2. ASSUME NEW t \in Txs, Relayed(t) \/ Delivered(t) \/ \E own \in BOOLEAN : HasTx(t, own)
      PROVE  Registering /\ UNCHANGED chain
  <2>1. Registering
    BY <1>2, Registers
  <2>2. UNCHANGED chain
    BY <1>2 DEF Relayed, Delivered, HasTx
  <2> QED
    BY <2>1, <2>2
<1>3. ASSUME NEW t \in Txs, NEW h \in 1..MaxHeight, Reported(t, h)
      PROVE  (Registering \/ Updating) /\ UNCHANGED chain
  BY <1>3, ReportedIs DEF Reported
<1>4. ASSUME NEW t \in Txs, Restamped(t) PROVE Updating /\ UNCHANGED chain
  BY <1>4, RestampedUpdates DEF Restamped
<1>5. ASSUME NEW t \in Txs, Removed(t) PROVE UNCHANGED chain
  BY <1>5 DEF Removed
<1>6. ASSUME NEW o \in Assets, AssetFound(o) PROVE UNCHANGED chain
  BY <1>6 DEF AssetFound
<1> QED
  BY <1>1, <1>2, <1>3, <1>4, <1>5, <1>6, Zenon DEF Next

LEMMA OrderStep ==
  ASSUME DualKey, Inv, Recognised, ListedByHeight, Next
  PROVE  ListedByHeight'
<1>1. WalletInv /\ OnChain
  BY DEF Inv
<1>2. /\ Records(rec) /\ Lists(transactions, Range(transactions))
      /\ Range(transactions) \subseteq DOMAIN rec /\ Ordered(rec, transactions)
  BY <1>1, InvParts DEF ListedByHeight, Ordered
<1>3. CASE Block
  <2>1. SetBlockHeight(best + 1)
    BY <1>3 DEF Block
  <2> DEFINE h == best + 1
             needed == TipMatters(h)
  <2>2. Settle(rec, transactions, window, h, overrides, needed)
    BY <2>1 DEF SetBlockHeight
  <2> HIDE DEF h, needed
  <2> QED
    BY <1>2, <2>2, SettledOrder
<1>4. CASE Reloaded
  <2>1. Load /\ "load" \in Api
    BY <1>4 DEF Reloaded
  <2> QED
    BY <1>1, <2>1, LoadSettles
<1>5. CASE Generated
  <2>1. UNCHANGED <<rec, transactions>>
    BY <1>5 DEF Generated, UnusedAddrs
  <2> QED
    BY <2>1 DEF ListedByHeight
<1>6. ASSUME NEW h \in 1..MaxHeight, Reorg(h) PROVE ListedByHeight'
  <2>1. SetTxUnconfirmedAfter(h) /\ h \in 0..MaxHeight
    BY <1>6, ConstantsOK DEF Reorg
  <2>2. PICK r, needed : /\ Records(r) /\ DOMAIN r = DOMAIN rec /\ Ordered(r, transactions)
                         /\ Settle(r, transactions, window, h, overrides, needed)
    BY <1>1, <2>1, UnwindSettles
  <2> QED
    BY <1>2, <2>2, SettledOrder
<1>7. CASE Registering
  <2>1. PICK t \in Txs, asked \in {"checked", "trusted", "unproven"}, h \in 1..Unconfirmed, own \in BOOLEAN :
           Asked(t, asked, h, own) /\ RegisterTx(t, asked, h, own)
    BY <1>7 DEF Registering
  <2>2. PICK r, s, needed : RegisteredAs(t, NewRecord(t, asked, h, own), r, s, needed)
    BY <1>1, <2>1, RegisterSettles
  <2>3. /\ Records(r) /\ Lists(s, Range(s)) /\ Range(s) \subseteq DOMAIN r
        /\ Ordered(r, s) /\ Ordered(r, transactions)
        /\ \/ Settle(r, s, window, tip, overrides, needed)
           \/ rec' = r /\ transactions' = transactions
    BY <2>2 DEF RegisteredAs
  <2>4. CASE Settle(r, s, window, tip, overrides, needed)
    BY <2>3, <2>4, SettledOrder
  <2>5. CASE rec' = r /\ transactions' = transactions
    BY <2>3, <2>5 DEF ListedByHeight, Ordered
  <2> QED
    BY <2>3, <2>4, <2>5
<1>8. CASE Updating
  <2>1. PICK hashes \in Seq(Txs), h \in 1..Unconfirmed, unproven \in BOOLEAN, restamp \in BOOLEAN :
           /\ \A n \in 1..Len(hashes) : Told(hashes[n], h, unproven)
           /\ UpdateTransactions(hashes, h, unproven, restamp)
    BY <1>8 DEF Updating
  <2>2. Len(hashes) \in Nat /\ \A n \in 1..Len(hashes) : hashes[n] \in Txs
    OBVIOUS
  <2> QED
    BY <2>1, <2>2, UpdatedOrdered
<1>9. ASSUME NEW t \in Txs, Removed(t) PROVE ListedByHeight'
  <2>1. RemoveTransaction(t)
    BY <1>9 DEF Removed
  <2>2. CASE UNCHANGED <<rec, transactions>>
    BY <2>2 DEF ListedByHeight
  <2>3. CASE \E r, s, needed : /\ Records(r) /\ Lists(s, Range(s)) /\ Range(s) \subseteq DOMAIN r
                               /\ Ordered(r, s) /\ Settle(r, s, window, tip, overrides, needed)
    BY <2>3, SettledOrder
  <2>4. \/ UNCHANGED <<rec, transactions>>
        \/ \E r, s, needed : /\ Records(r) /\ Lists(s, Range(s)) /\ Range(s) \subseteq DOMAIN r
                             /\ Ordered(r, s) /\ Settle(r, s, window, tip, overrides, needed)
    BY <1>1, <2>1, RemoveSettles
  <2> QED
    BY <2>2, <2>3, <2>4
<1>10. ASSUME NEW o \in Assets, AssetFound(o) PROVE ListedByHeight'
  <2> DEFINE over == overrides \cup {o}
             needed == TRUE
  <2>1. Settle(rec, transactions, window, tip, over, needed)
    BY <1>10 DEF AssetFound, RegisterAssetOutpoint
  <2> HIDE DEF over, needed
  <2> QED
    BY <1>2, <2>1, SettledOrder
<1> QED
  BY <1>1, <1>3, <1>4, <1>5, <1>6, <1>7, <1>8, <1>9, <1>10, Steps, Zenon

----------------------------------------------------------------------------
(* What the wallet recognises. *)

(* It pays the wallet, or spends what the wallet was paid.                 *)
Concerns(t) == PaysOf(t) # {} \/ \E o \in Ins[t] : Pays[o[1]][o[2]] # 0

(* What the wallet once recognised it goes on recognising: no record and   *)
(* no address is ever given up, or whatever concerns the wallet pays one   *)
(* of the addresses a wallet starts with.                                  *)
NeverLost ==
  \/ Api \cap {"remove", "load"} = {}
  \/ \A t \in Txs : Concerns(t) => PaysOf(t) \cap 1..(Gap + Cushion) # {}

Known == window >= Gap + Cushion /\ Recognised

LEMMA RecognisedConcerns ==
  ASSUME NEW r, NEW w \in Nat, NEW t \in Txs, ContainsTx(r, w, t)
  PROVE  Concerns(t)
<1>1. CASE PaysOf(t) \cap 1..w # {}
  BY <1>1 DEF Concerns
<1>2. CASE OwnedInputs(r, w, t) # {}
  <2>1. PICK o \in Ins[t] : Pays[o[1]][o[2]] \in 1..w
    BY <1>2 DEF OwnedInputs
  <2>2. Pays[o[1]][o[2]] # 0
    BY <2>1
  <2> QED
    BY <2>2 DEF Concerns
<1> QED
  BY <1>1, <1>2 DEF ContainsTx

LEMMA ContainsGrows ==
  ASSUME NEW r, NEW q, DOMAIN r \subseteq DOMAIN q, NEW w \in Nat, NEW v \in Nat, w <= v, NEW t \in Txs,
         ContainsTx(r, w, t)
  PROVE  ContainsTx(q, v, t)
<1>1. 1..w \subseteq 1..v
  OBVIOUS
<1>2. OwnedInputs(r, w, t) \subseteq OwnedInputs(q, v, t)
  BY <1>1 DEF OwnedInputs
<1> QED
  BY <1>1, <1>2 DEF ContainsTx

(* A step lists nothing it does not recognise; unless it removes or loads, *)
(* it gives up no record and no address.                                   *)
Gathers ==
  /\ \A t \in Range(transactions') : t \in Range(transactions) \/ ContainsTx(rec, window, t)
  /\ window' \in Nat /\ window' >= Gap + Cushion
  /\ Api \cap {"remove", "load"} = {} => DOMAIN rec \subseteq DOMAIN rec' /\ window <= window'

LEMMA SettledGathers ==
  ASSUME Known, window \in Nat, NEW r, Records(r), NEW s, Lists(s, Range(s)), Range(s) \subseteq DOMAIN r,
         \A t \in Range(s) : t \in Range(transactions) \/ ContainsTx(rec, window, t),
         "remove" \notin Api => DOMAIN rec \subseteq DOMAIN r,
         NEW wtip, NEW over, NEW needed, Settle(r, s, window, wtip, over, needed), window' = window
  PROVE  Gathers
<1>1. DOMAIN rec' = DOMAIN r /\ transactions' = s
  BY SettledKeeps DEF SameHeights
<1> QED
  BY <1>1 DEF Gathers, Known

LEMMA RegisteringGathers ==
  ASSUME Inv, Known, ListedByHeight, Registering
  PROVE  Gathers
<1>1. WalletInv /\ window \in Nat
  BY InvParts, MaxWindowOK DEF Inv, Windows
<1>2. PICK t \in Txs, asked \in {"checked", "trusted", "unproven"}, h \in 1..Unconfirmed, own \in BOOLEAN :
         Asked(t, asked, h, own) /\ RegisterTx(t, asked, h, own)
  BY DEF Registering
<1>3. PICK r, s, needed : RegisteredAs(t, NewRecord(t, asked, h, own), r, s, needed)
  BY <1>1, <1>2, RegisterSettles
<1>4. /\ Records(r) /\ DOMAIN r = DOMAIN rec \cup {t}
      /\ Lists(s, Range(s)) /\ Range(s) = Range(transactions) \cup {t} /\ Range(s) \subseteq DOMAIN r
      /\ \/ ContainsTx(rec, window, t) /\ Settle(r, s, window, tip, overrides, needed)
         \/ rec' = r /\ transactions' = transactions
  BY <1>3 DEF RegisteredAs
<1>5. window' = window
  BY <1>2 DEF RegisterTx
<1>6. CASE ContainsTx(rec, window, t) /\ Settle(r, s, window, tip, overrides, needed)
  BY <1>1, <1>4, <1>5, <1>6, SettledGathers
<1>7. CASE rec' = r /\ transactions' = transactions
  BY <1>1, <1>4, <1>5, <1>7 DEF Gathers, Known
<1> QED
  BY <1>4, <1>6, <1>7

LEMMA UpdatingGathers ==
  ASSUME DualKey, Inv, Known, ListedByHeight, Updating
  PROVE  Gathers
<1>1. PICK hashes \in Seq(Txs), h \in 1..Unconfirmed, unproven \in BOOLEAN, restamp \in BOOLEAN :
         /\ \A n \in 1..Len(hashes) : Told(hashes[n], h, unproven)
         /\ UpdateTransactions(hashes, h, unproven, restamp)
  BY DEF Updating
<1>2. Len(hashes) \in Nat /\ \A n \in 1..Len(hashes) : hashes[n] \in Txs
  OBVIOUS
<1>3. PICK b, wtip : Stamping(b) /\ Settle(b.rec, b.list, window, wtip, overrides, b.needed)
  <2>1. Recognised
    BY DEF Known
  <2> QED
    BY <1>1, <1>2, <2>1, UpdateKeeps
<1> DEFINE r == b.rec
           s == b.list
           needed == b.needed
<1>4. /\ Records(r) /\ DOMAIN r = DOMAIN rec /\ Lists(s, Range(transactions))
      /\ Settle(r, s, window, wtip, overrides, needed)
  BY <1>3 DEF Stamping
<1> HIDE DEF r, s, needed
<1>5. Range(transactions) \subseteq DOMAIN rec /\ window \in Nat
  BY InvParts, MaxWindowOK DEF Inv, Windows
<1>6. Range(s) = Range(transactions)
  BY <1>4 DEF Lists
<1>7. Lists(s, Range(s)) /\ Range(s) \subseteq DOMAIN r
  BY <1>4, <1>5, <1>6
<1>8. window' = window
  BY <1>1 DEF UpdateTransactions
<1> QED
  BY <1>4, <1>5, <1>6, <1>7, <1>8, SettledGathers

LEMMA RemovedGathers ==
  ASSUME Inv, Known, ListedByHeight, NEW t \in Txs, Removed(t)
  PROVE  Gathers
<1>1. WalletInv /\ window \in Nat
  BY InvParts, MaxWindowOK DEF Inv, Windows
<1>2. RemoveTransaction(t) /\ "remove" \in Api /\ window' = window
  BY DEF Removed, RemoveTransaction
<1>3. CASE UNCHANGED <<rec, transactions>>
  BY <1>1, <1>2, <1>3 DEF Gathers, Known
<1>4. ASSUME NEW r, NEW s, NEW needed, Records(r), Lists(s, Range(s)), Range(s) = Range(transactions) \ {t},
             Range(s) \subseteq DOMAIN r, Settle(r, s, window, tip, overrides, needed)
      PROVE  Gathers
  BY <1>1, <1>2, <1>4, SettledGathers
<1> QED
  BY <1>1, <1>2, <1>3, <1>4, RemoveSettles

LEMMA GathersStep ==
  ASSUME DualKey, Inv, Known, ListedByHeight, Next
  PROVE  Gathers
<1>1. /\ WalletInv /\ OnChain /\ window \in 1..MaxWindow /\ MaxWindow \in Nat /\ Gap + Cushion \in Nat
      /\ Records(rec) /\ Lists(transactions, Range(transactions))
      /\ Range(transactions) \subseteq DOMAIN rec /\ Offers(credit, rec, transactions)
  BY InvParts, MaxWindowOK, ConstantsOK DEF Inv, Windows
<1>2. window \in Nat
  BY <1>1
<1>3. CASE Block
  <2>1. SetBlockHeight(best + 1)
    BY <1>3 DEF Block
  <2> DEFINE h == best + 1
             needed == TipMatters(h)
  <2>2. Settle(rec, transactions, window, h, overrides, needed) /\ window' = window
    BY <2>1 DEF SetBlockHeight
  <2> HIDE DEF h, needed
  <2> QED
    BY <1>1, <1>2, <2>2, SettledGathers
<1>4. CASE Reloaded
  <2>1. Load /\ "load" \in Api
    BY <1>4 DEF Reloaded
  <2>2. Range(transactions') = Range(transactions) /\ window' = Opened
    BY <1>1, <2>1, LoadSettles
  <2>3. Opened \in Nat /\ Opened >= Gap + Cushion
    <3>1. Range(transactions) \subseteq Txs
      BY <1>1 DEF Records
    <3> QED
      BY <1>1, <3>1, OpenedOK
  <2> QED
    BY <2>1, <2>2, <2>3 DEF Gathers
<1>5. CASE Generated
  <2>1. /\ UNCHANGED <<rec, transactions>> /\ window' = GrownWindow(credit.used, window, Gap)
    BY <1>5 DEF Generated, UnusedAddrs
  <2> DEFINE used == credit.used
  <2>2. used \subseteq Addresses /\ Gap \in {Gap, Gap + Cushion} /\ window \in 0..MaxWindow
    BY <1>1 DEF Offers
  <2> HIDE DEF used
  <2>3. GrownWindow(used, window, Gap) \in window..MaxWindow
    BY <2>2, Grown
  <2>4. window' \in Nat /\ window <= window'
    BY <1>1, <2>1, <2>3 DEF used
  <2> QED
    BY <1>1, <1>2, <2>1, <2>4 DEF Gathers, Known
<1>6. ASSUME NEW h \in 1..MaxHeight, Reorg(h) PROVE Gathers
  <2>1. SetTxUnconfirmedAfter(h)
    BY <1>6 DEF Reorg
  <2>2. window' = window /\ h \in 0..MaxHeight
    <3>1. window' = window
      BY <2>1 DEF SetTxUnconfirmedAfter
    <3> QED
      BY <3>1, ConstantsOK
  <2>3. PICK r, needed : /\ Records(r) /\ DOMAIN r = DOMAIN rec /\ Ordered(r, transactions)
                         /\ Settle(r, transactions, window, h, overrides, needed)
    BY <1>1, <2>1, <2>2, UnwindSettles
  <2> QED
    BY <1>1, <1>2, <2>2, <2>3, SettledGathers
<1>7. ASSUME NEW o \in Assets, AssetFound(o) PROVE Gathers
  <2> DEFINE over == overrides \cup {o}
             needed == TRUE
  <2>1. Settle(rec, transactions, window, tip, over, needed) /\ window' = window
    BY <1>7 DEF AssetFound, RegisterAssetOutpoint
  <2> HIDE DEF over, needed
  <2> QED
    BY <1>1, <1>2, <2>1, SettledGathers
<1> QED
  BY <1>1, <1>3, <1>4, <1>5, <1>6, <1>7, RegisteringGathers, UpdatingGathers, RemovedGathers, Steps, Zenon

LEMMA KnownStep ==
  ASSUME DualKey, NeverLost, Inv, Known, ListedByHeight, Next
  PROVE  Known'
<1>1. Gathers
  BY GathersStep
<1>2. window \in Nat /\ Range(transactions) \subseteq Txs /\ Inv'
  BY NextOK, InvParts, MaxWindowOK DEF Inv, Windows
<1>3. Range(transactions') \subseteq Txs
  BY <1>2, NextOK DEF Inv, WalletInv, Holding, Records
<1>4. window' \in Nat /\ window' >= Gap + Cushion
  BY <1>1 DEF Gathers
<1>5. ASSUME NEW t \in Range(transactions') PROVE ContainsTx(rec, window, t) /\ t \in Txs
  BY <1>1, <1>3 DEF Gathers, Known, Recognised
<1>6. ASSUME NEW t \in Range(transactions') PROVE ContainsTx(rec', window', t)
  <2>1. ContainsTx(rec, window, t) /\ t \in Txs
    BY <1>5
  <2>2. CASE Api \cap {"remove", "load"} = {}
    BY <1>1, <1>2, <1>4, <2>1, <2>2, ContainsGrows DEF Gathers
  <2>3. CASE \A u \in Txs : Concerns(u) => PaysOf(u) \cap 1..(Gap + Cushion) # {}
    <3>1. PaysOf(t) \cap 1..(Gap + Cushion) # {}
      BY <1>2, <2>1, <2>3, RecognisedConcerns
    <3>2. 1..(Gap + Cushion) \subseteq 1..window'
      BY <1>4, ConstantsOK
    <3> QED
      BY <3>1, <3>2 DEF ContainsTx
  <2> QED
    BY <2>2, <2>3 DEF NeverLost
<1> QED
  BY <1>4, <1>6 DEF Known, Recognised

LEMMA FirstList ==
  ASSUME Init
  PROVE  Known /\ ListedByHeight
<1>1. window = Gap + Cushion /\ transactions = <<>>
  BY DEF Init
<1>2. DOMAIN transactions = {} /\ Range(transactions) = {}
  BY <1>1 DEF Range
<1> QED
  BY <1>1, <1>2, ConstantsOK DEF Known, Recognised, ListedByHeight

LEMMA KnownHolds ==
  ASSUME DualKey, NeverLost
  PROVE  Spec => [](Inv /\ Known /\ ListedByHeight)
<1>1. Init => Known /\ ListedByHeight
  BY FirstList
<1>2. Inv /\ Known /\ ListedByHeight /\ [Next]_vars => Known' /\ ListedByHeight'
  <2>1. Inv /\ Known /\ ListedByHeight /\ Next => Known' /\ ListedByHeight'
    <3>1. Known => Recognised
      BY DEF Known
    <3> QED
      BY <3>1, KnownStep, OrderStep
  <2>2. Known /\ ListedByHeight /\ UNCHANGED vars => Known' /\ ListedByHeight'
    BY DEF vars, Known, Recognised, ListedByHeight, ContainsTx, OwnedInputs
  <2> QED
    BY <2>1, <2>2
<1> QED
  BY <1>1, <1>2, InvHolds, PTL DEF Spec

----------------------------------------------------------------------------
(* Coin generations.  Those the wallet holds it lists, when they pay it;   *)
(* their heights are the chain's, unless a server claimed them; and their  *)
(* coins are offered deep enough below the tip.                            *)

Below(r, b) == \A t \in DOMAIN r : r[t].height # Unconfirmed => r[t].height <= b

Unlisted(r, s) == \A t \in DOMAIN r \ Range(s) : t \in Coinbase => PaysOf(t) = {}

Follows(r, s, m) ==
  \A t \in Range(s) \cap Coinbase :
     r[t].height = Unconfirmed \/ r[t].always \/ m[t] = r[t].height

Marked(r) == \A t \in DOMAIN r : r[t].always => t \in Claimed

Deep(c, r, b) ==
  \A o \in c.utxos : o[1] \in Coinbase =>
     r[o[1]].always \/ (r[o[1]].height # Unconfirmed /\ b >= r[o[1]].height + Maturity)

Aged(r, s, m, b) == Below(r, b) /\ Unlisted(r, s) /\ Follows(r, s, m) /\ Marked(r)

AgedInv ==
  /\ Aged(rec, transactions, mined, best) /\ Deep(credit, rec, best)
  /\ tip <= best /\ \A t \in Txs : mined[t] <= best

(* What the theorem about coin generations takes: a wallet recognises one  *)
(* that pays it from the start, and no server's claim about one outlives a *)
(* load, which drops its mark.                                             *)
CoinbaseIsKnown ==
  /\ \A t \in Coinbase : PaysOf(t) # {} => PaysOf(t) \cap 1..(Gap + Cushion) # {}
  /\ "load" \in Api => Claimed \cap Coinbase = {}

LEMMA AgedSame ==
  ASSUME NEW r, NEW s, Range(s) \subseteq DOMAIN r, NEW m, NEW b, Aged(r, s, m, b),
         NEW q, SameHeights(r, q)
  PROVE  Aged(q, s, m, b)
<1>1. /\ DOMAIN q = DOMAIN r
      /\ \A t \in DOMAIN r : q[t].height = r[t].height /\ q[t].always = r[t].always
  BY DEF SameHeights
<1>2. Below(q, b)
  BY <1>1 DEF Aged, Below
<1>3. Unlisted(q, s)
  BY <1>1 DEF Aged, Unlisted
<1>4. Follows(q, s, m)
  BY <1>1 DEF Aged, Follows
<1>5. Marked(q)
  BY <1>1 DEF Aged, Marked
<1> QED
  BY <1>2, <1>3, <1>4, <1>5 DEF Aged

(* What is ripe at a height up to the chain's is deep enough.              *)
LEMMA RipeIsDeep ==
  ASSUME NEW c, NEW r, Records(r), CoinsOf(c, r), NEW wtip \in Int, NEW b \in Int, wtip <= b,
         RipeAt(c, r, wtip)
  PROVE  Deep(c, r, b)
<1> SUFFICES ASSUME NEW o \in c.utxos, o[1] \in Coinbase
             PROVE  r[o[1]].height # Unconfirmed /\ b >= r[o[1]].height + Maturity
  BY DEF Deep
<1>1. o[1] \in DOMAIN r /\ r[o[1]].height # Unconfirmed /\ ~ (wtip < r[o[1]].height + Maturity)
  BY DEF CoinsOf, RipeAt
<1> DEFINE h == r[o[1]].height
<1>2. h \in Nat
  BY <1>1, HeightsAreNumbers
<1>3. h # Unconfirmed /\ ~ (wtip < h + Maturity)
  BY <1>1
<1> HIDE DEF h
<1>4. Maturity \in Nat
  <2>1. {Maturity, Cushion, ForeignMax} \subseteq Nat
    BY WalletConstants, Zenon
  <2> QED
    BY <2>1
<1>5. b >= h + Maturity
  BY <1>2, <1>3, <1>4
<1> QED
  BY <1>3, <1>5 DEF h

(* A call that settles on r and s.                                         *)
LEMMA SettledAged ==
  ASSUME NEW r, Records(r), NEW s, Lists(s, Range(s)), Range(s) \subseteq DOMAIN r,
         NEW w, NEW wtip \in Int, NEW over, NEW needed, Settle(r, s, w, wtip, over, needed),
         Inv', Aged(r, s, mined', best'), wtip <= best', \A t \in Txs : mined'[t] <= best',
         needed \/ Deep(credit, r, best')
  PROVE  AgedInv'
<1>1. /\ SameHeights(r, rec') /\ transactions' = s /\ tip' = wtip
      /\ RipeAt(credit', r, wtip) \/ (~ needed /\ rec' = r /\ credit' = credit)
  BY SettledKeeps
<1>2. Aged(rec', transactions', mined', best')
  <2> DEFINE m == mined'
             b == best'
             q == rec'
  <2>1. SameHeights(r, q) /\ Aged(r, s, m, b)
    BY <1>1
  <2> HIDE DEF m, b, q
  <2>2. Aged(q, s, m, b)
    BY <2>1, AgedSame
  <2> QED
    BY <1>1, <2>2 DEF m, b, q
<1>3. /\ Records(rec') /\ CoinsOf(credit', rec') /\ best' \in Int
  BY DEF Inv, WalletInv, Holding, Offers, OnChain
<1>4. Deep(credit', rec', best')
  <2>1. CASE RipeAt(credit', r, wtip)
    <3> DEFINE c == credit'
               q == rec'
               b == best'
    <3>1. /\ RipeAt(c, r, wtip) /\ CoinsOf(c, q) /\ Records(q) /\ SameHeights(r, q)
          /\ b \in Int /\ wtip <= b
      BY <1>1, <1>3, <2>1
    <3> HIDE DEF c, q, b
    <3>2. CoinsOf(c, r)
      BY <3>1 DEF CoinsOf, SameHeights
    <3>3. RipeAt(c, q, wtip)
      BY <3>1, <3>2, RipeSame
    <3>4. Deep(c, q, b)
      BY <3>1, <3>3, RipeIsDeep
    <3> QED
      BY <3>4 DEF c, q, b
  <2>2. CASE ~ needed /\ rec' = r /\ credit' = credit
    BY <2>2
  <2> QED
    BY <1>1, <2>1, <2>2
<1> QED
  BY <1>1, <1>2, <1>4 DEF AgedInv

LEMMA DeepLater ==
  ASSUME NEW c, NEW r, Records(r), CoinsOf(c, r), NEW b \in Int, Deep(c, r, b), NEW d \in Int, b <= d,
         NEW q, \A t \in DOMAIN r : t \in Coinbase =>
                   q[t].height = r[t].height /\ (r[t].always => q[t].always)
  PROVE  Deep(c, q, d)
<1> SUFFICES ASSUME NEW o \in c.utxos, o[1] \in Coinbase
             PROVE  q[o[1]].always \/ (q[o[1]].height # Unconfirmed /\ d >= q[o[1]].height + Maturity)
  BY DEF Deep
<1> DEFINE t == o[1]
           h == r[t].height
<1>1. t \in DOMAIN r /\ t \in Coinbase
  BY DEF CoinsOf
<1>2. r[t].always \/ (h # Unconfirmed /\ b >= h + Maturity)
  BY DEF Deep
<1> HIDE DEF t
<1>3. q[t].height = h /\ (r[t].always => q[t].always)
  BY <1>1
<1>4. h \in Nat
  BY <1>1, HeightsAreNumbers
<1> HIDE DEF h
<1>5. Maturity \in Nat
  <2>1. {Maturity, Cushion, ForeignMax} \subseteq Nat
    BY WalletConstants, Zenon
  <2> QED
    BY <2>1
<1>6. b >= h + Maturity => d >= h + Maturity
  BY <1>4, <1>5
<1>7. q[t].always \/ (h # Unconfirmed /\ d >= h + Maturity)
  BY <1>2, <1>3, <1>6
<1> QED
  BY <1>3, <1>7 DEF t

LEMMA AgedParts ==
  ASSUME Inv, AgedInv
  PROVE  /\ Records(rec) /\ Lists(transactions, Range(transactions))
         /\ Range(transactions) \subseteq DOMAIN rec /\ DOMAIN rec \subseteq Txs
         /\ CoinsOf(credit, rec) /\ Deep(credit, rec, best)
         /\ Aged(rec, transactions, mined, best)
         /\ tip <= best /\ tip \in Int /\ best \in 1..MaxHeight /\ best \in Int
         /\ mined \in [Txs -> 0..MaxHeight] /\ \A t \in Txs : mined[t] <= best
<1>1. WalletInv /\ OnChain
  BY DEF Inv
<1>2. Offers(credit, rec, transactions) /\ tip \in 0..MaxHeight /\ MaxHeight \in Nat
  BY <1>1, InvParts, ConstantsOK
<1>3. best \in 1..MaxHeight /\ mined \in [Txs -> 0..MaxHeight]
  BY <1>1 DEF OnChain
<1>4. tip \in Int /\ best \in Int
  BY <1>2, <1>3
<1> QED
  BY <1>1, <1>2, <1>3, <1>4, InvParts DEF AgedInv, Offers

(* What the chain keeps up to `from` it keeps for the records.             *)
LEMMA ChainKeeps ==
  ASSUME Inv, AgedInv, NEW from \in Int, mined' \in Extensions(from, best + 1), best' = best + 1
  PROVE  /\ \A t \in Txs : mined[t] \in 1..from => mined'[t] = mined[t]
         /\ \A t \in Txs : mined'[t] <= best'
         /\ best' \in Int /\ best <= best'
<1>1. best \in Int
  BY AgedParts
<1>2. /\ mined' \in [Txs -> 0..(best + 1)]
      /\ \A t \in Txs : IF mined[t] \in 1..from THEN mined'[t] = mined[t] ELSE mined'[t] \notin 1..from
  BY DEF Extensions
<1>3. \A t \in Txs : mined'[t] <= best + 1
  BY <1>1, <1>2
<1> QED
  BY <1>1, <1>2, <1>3

LEMMA AgedBlock ==
  ASSUME DualKey, Inv, AgedInv, Inv', Block
  PROVE  AgedInv'
<1>1. /\ Records(rec) /\ Lists(transactions, Range(transactions))
      /\ Range(transactions) \subseteq DOMAIN rec /\ DOMAIN rec \subseteq Txs
      /\ CoinsOf(credit, rec) /\ Deep(credit, rec, best) /\ Aged(rec, transactions, mined, best)
      /\ best \in Int
  BY AgedParts
<1>2. best' = best + 1 /\ mined' \in Extensions(best, best + 1) /\ SetBlockHeight(best + 1)
  BY DEF Block
<1>3. /\ \A t \in Txs : mined[t] \in 1..best => mined'[t] = mined[t]
      /\ \A t \in Txs : mined'[t] <= best'
      /\ best' \in Int /\ best <= best'
  BY <1>1, <1>2, ChainKeeps
<1> DEFINE h == best + 1
           needed == TipMatters(h)
<1>4. Settle(rec, transactions, window, h, overrides, needed)
  BY <1>2 DEF SetBlockHeight
<1>5. h \in Int /\ h <= best'
  BY <1>1, <1>2
<1> HIDE DEF h, needed
<1>6. ASSUME NEW t \in DOMAIN rec, rec[t].height # Unconfirmed
      PROVE  rec[t].height \in Nat /\ rec[t].height <= best
  BY <1>1, <1>6, HeightsAreNumbers DEF Aged, Below
<1>7. Below(rec, best')
  BY <1>1, <1>3, <1>6 DEF Below
<1>8. Follows(rec, transactions, mined')
  <2> SUFFICES ASSUME NEW t \in Range(transactions) \cap Coinbase,
                      rec[t].height # Unconfirmed, ~ rec[t].always
               PROVE  mined'[t] = rec[t].height
    BY DEF Follows
  <2>1. mined[t] = rec[t].height /\ t \in DOMAIN rec /\ t \in Txs
    BY <1>1 DEF Aged, Follows
  <2>2. rec[t].height \in 1..best
    <3>1. rec[t] \in Record
      BY <1>1, <2>1 DEF Records, RecordOK, CheckOK
    <3>2. rec[t].height \in 1..Unconfirmed
      BY <3>1 DEF Record
    <3> QED
      BY <1>1, <1>6, <2>1, <3>2
  <2> QED
    BY <1>3, <2>1, <2>2
<1>9. Aged(rec, transactions, mined', best')
  BY <1>1, <1>7, <1>8 DEF Aged
<1>10. Deep(credit, rec, best')
  <2> DEFINE b == best'
  <2>1. b \in Int /\ best <= b
    BY <1>3
  <2> HIDE DEF b
  <2>2. Deep(credit, rec, b)
    BY <1>1, <2>1, DeepLater
  <2> QED
    BY <2>2 DEF b
<1> QED
  BY <1>1, <1>3, <1>4, <1>5, <1>9, <1>10, SettledAged

LEMMA AgedReorg ==
  ASSUME DualKey, Inv, ListedByHeight, AgedInv, Inv', NEW join \in 1..MaxHeight, Reorg(join)
  PROVE  AgedInv'
<1>1. /\ Records(rec) /\ Lists(transactions, Range(transactions))
      /\ Range(transactions) \subseteq DOMAIN rec /\ DOMAIN rec \subseteq Txs
      /\ CoinsOf(credit, rec) /\ Deep(credit, rec, best) /\ Aged(rec, transactions, mined, best)
      /\ best \in Int
  BY AgedParts
<1>2. /\ best' = best + 1 /\ mined' \in Extensions(join, best + 1) /\ SetTxUnconfirmedAfter(join)
      /\ join < best
  BY DEF Reorg
<1>3. /\ \A t \in Txs : mined[t] \in 1..join => mined'[t] = mined[t]
      /\ \A t \in Txs : mined'[t] <= best'
      /\ best' \in Int /\ best <= best' /\ join \in Int /\ join <= best'
  <2>1. join \in Int /\ join \in 0..MaxHeight
    BY ConstantsOK
  <2>2. /\ \A t \in Txs : mined[t] \in 1..join => mined'[t] = mined[t]
        /\ \A t \in Txs : mined'[t] <= best'
        /\ best' \in Int /\ best <= best'
    BY <1>2, <2>1, ChainKeeps
  <2>3. join <= best'
    BY <1>1, <1>2, <2>1
  <2> QED
    BY <2>1, <2>2, <2>3
<1>4. PICK r, needed :
         /\ Records(r) /\ DOMAIN r = DOMAIN rec
         /\ \A t \in DOMAIN rec : /\ r[t].height \in {rec[t].height, Unconfirmed}
                                  /\ r[t].always = rec[t].always
         /\ \A t \in Range(transactions) : r[t].height = Unconfirmed \/ r[t].height <= join
         /\ needed \/ \A t \in DOMAIN rec : r[t] = rec[t]
         /\ Settle(r, transactions, window, join, overrides, needed)
  <2>1. WalletInv /\ join \in 0..MaxHeight
    BY ConstantsOK DEF Inv
  <2>2. \E r, needed :
           /\ Records(r) /\ DOMAIN r = DOMAIN rec /\ Ordered(r, transactions)
           /\ \A t \in DOMAIN rec : /\ r[t].height \in {rec[t].height, Unconfirmed}
                                    /\ r[t].always = rec[t].always
           /\ \A t \in Range(transactions) : r[t].height = Unconfirmed \/ r[t].height <= join
           /\ needed \/ \A t \in DOMAIN rec : r[t] = rec[t]
           /\ Settle(r, transactions, window, join, overrides, needed)
    BY <1>2, <2>1, UnwindSettles
  <2> QED
    BY <2>2, Zenon
<1>5. ASSUME NEW t \in DOMAIN rec, rec[t].height # Unconfirmed
      PROVE  rec[t].height \in Nat /\ rec[t].height <= best
  BY <1>1, <1>5, HeightsAreNumbers DEF Aged, Below
<1>6. Below(r, best')
  <2> SUFFICES ASSUME NEW t \in DOMAIN r, r[t].height # Unconfirmed PROVE r[t].height <= best'
    BY DEF Below
  <2>1. r[t].height = rec[t].height /\ t \in DOMAIN rec
    BY <1>4
  <2> QED
    BY <1>1, <1>3, <1>5, <2>1
<1>7. Follows(r, transactions, mined')
  <2> SUFFICES ASSUME NEW t \in Range(transactions) \cap Coinbase,
                      r[t].height # Unconfirmed, ~ r[t].always
               PROVE  mined'[t] = r[t].height
    BY DEF Follows
  <2>1. t \in DOMAIN rec /\ t \in Txs
    BY <1>1
  <2>2. r[t].height = rec[t].height /\ r[t].height <= join /\ ~ rec[t].always
    BY <1>4, <2>1
  <2>3. mined[t] = rec[t].height
    BY <1>1, <2>2 DEF Aged, Follows
  <2>4. rec[t].height \in 1..join
    <3>1. rec[t] \in Record
      BY <1>1, <2>1 DEF Records, RecordOK, CheckOK
    <3>2. rec[t].height \in 1..Unconfirmed
      BY <3>1 DEF Record
    <3> QED
      BY <1>3, <2>2, <3>2
  <2> QED
    BY <1>3, <2>1, <2>2, <2>3, <2>4
<1>8. Unlisted(r, transactions) /\ Marked(r)
  BY <1>1, <1>4 DEF Aged, Unlisted, Marked
<1>9. Aged(r, transactions, mined', best')
  BY <1>6, <1>7, <1>8 DEF Aged
<1>10. needed \/ Deep(credit, r, best')
  <2> DEFINE b == best'
  <2>1. b \in Int /\ best <= b
    BY <1>3
  <2> HIDE DEF b
  <2>2. CASE \A t \in DOMAIN rec : r[t] = rec[t]
    <3>1. Deep(credit, r, b)
      BY <1>1, <2>1, <2>2, DeepLater
    <3> QED
      BY <3>1 DEF b
  <2> QED
    BY <1>4, <2>2
<1> QED
  BY <1>1, <1>3, <1>4, <1>9, <1>10, SettledAged

(* A registration leaves the height of a record held, and marks the record *)
(* a server reports.                                                       *)
LEMMA NewRecordMarks ==
  ASSUME Records(rec), NEW t \in Txs, NEW asked, NEW h \in 1..Unconfirmed, NEW own \in BOOLEAN,
         Asked(t, asked, h, own)
  PROVE  LET e == IF t \in DOMAIN rec THEN rec[t] ELSE Fresh(h)
             new == NewRecord(t, asked, h, own)
         IN /\ new.height = e.height
            /\ new.always => e.always \/ t \in Claimed
            /\ new.always \/ h = Unconfirmed
<1> DEFINE e == IF t \in DOMAIN rec THEN rec[t] ELSE Fresh(h)
           mode == CheckedMode(t, asked, own)
           proven == mode = "unproven"
           check == SpendsSigned(rec, window, t, e, proven)
           owned == OwnedInputs(rec, window, t)
           new == NewRecord(t, asked, h, own)
<1>1. new = CASE mode = "trusted"  -> [e EXCEPT !.accepted = {owned}]
              [] mode = "checked"  -> check.rec
              [] mode = "unproven" -> [check.rec EXCEPT !.always = TRUE]
  BY DEF NewRecord
<1>2. \/ mode = "trusted" /\ h = Unconfirmed
      \/ mode = "checked" /\ h = Unconfirmed
      \/ mode = "unproven" /\ t \in Claimed
  BY DEF CheckedMode, Asked
<1>3. e \in Record
  <2>1. CASE t \in DOMAIN rec
    BY <2>1 DEF Records, RecordOK, CheckOK
  <2>2. CASE t \notin DOMAIN rec
    BY <2>2, FreshOK DEF CheckOK
  <2> QED
    BY <2>1, <2>2
<1>4. check.rec = e \/ check.rec = [e EXCEPT !.accepted = {owned}]
  BY DEF SpendsSigned
<1> HIDE DEF e, mode, check, owned, new
<1>5. check.rec.height = e.height /\ check.rec.always = e.always
  BY <1>3, <1>4 DEF Record
<1>6. DOMAIN check.rec = {"height", "always", "accepted"}
  BY <1>3, <1>4 DEF Record
<1>7. CASE mode = "trusted"
  <2>1. new = [e EXCEPT !.accepted = {owned}] /\ h = Unconfirmed
    BY <1>1, <1>2, <1>7
  <2>2. new.height = e.height /\ new.always = e.always
    BY <1>3, <2>1 DEF Record
  <2> QED
    BY <2>1, <2>2 DEF e, new
<1>8. CASE mode = "checked"
  <2>1. new = check.rec /\ h = Unconfirmed
    BY <1>1, <1>2, <1>8
  <2> QED
    BY <1>5, <2>1 DEF e, new
<1>9. CASE mode = "unproven"
  <2>1. new = [check.rec EXCEPT !.always = TRUE] /\ t \in Claimed
    BY <1>1, <1>2, <1>9
  <2> DEFINE c == check.rec
  <2>2. new = [c EXCEPT !.always = TRUE] /\ DOMAIN c = {"height", "always", "accepted"} /\ c.height = e.height
    BY <1>5, <1>6, <2>1
  <2> HIDE DEF c
  <2>3. new.height = e.height /\ new.always = TRUE
    BY <2>2
  <2> QED
    BY <2>1, <2>3 DEF e, new
<1> QED
  BY <1>2, <1>7, <1>8, <1>9

LEMMA AgedRegistering ==
  ASSUME DualKey, CoinbaseIsKnown, Inv, Known, ListedByHeight, AgedInv, Inv', Registering, UNCHANGED chain
  PROVE  AgedInv'
<1>1. /\ Records(rec) /\ Lists(transactions, Range(transactions))
      /\ Range(transactions) \subseteq DOMAIN rec /\ DOMAIN rec \subseteq Txs
      /\ CoinsOf(credit, rec) /\ Deep(credit, rec, best) /\ Aged(rec, transactions, mined, best)
      /\ best \in Int /\ tip \in Int /\ tip <= best /\ \A t \in Txs : mined[t] <= best
  BY AgedParts
<1>2. mined' = mined /\ best' = best
  BY DEF chain
<1>3. PICK t \in Txs, asked \in {"checked", "trusted", "unproven"}, h \in 1..Unconfirmed, own \in BOOLEAN :
         /\ Asked(t, asked, h, own) /\ RegisterTx(t, asked, h, own)
         /\ h # Unconfirmed => h <= best
  BY DEF Registering
<1> DEFINE new == NewRecord(t, asked, h, own)
           mine == ContainsTx(rec, window, t)
<1>4. PICK r, s, needed : RegisteredAs(t, new, r, s, needed)
  BY <1>3, RegisterSettles DEF Inv
<1>5. /\ Records(r) /\ DOMAIN r = DOMAIN rec \cup {t} /\ r[t] = new
      /\ \A u \in DOMAIN rec : u # t => r[u] = rec[u]
      /\ t \notin Range(transactions) /\ (t \in DOMAIN rec => mine)
      /\ Lists(s, Range(s)) /\ Range(s) = Range(transactions) \cup {t} /\ Range(s) \subseteq DOMAIN r
      /\ \/ mine /\ needed /\ Settle(r, s, window, tip, overrides, needed)
         \/ ~ mine /\ rec' = r /\ UNCHANGED <<transactions, tip, credit>>
  BY <1>4 DEF RegisteredAs
<1>6. /\ new.height = IF t \in DOMAIN rec THEN rec[t].height ELSE h
      /\ new.always => (t \in DOMAIN rec /\ rec[t].always) \/ t \in Claimed
      /\ new.always \/ h = Unconfirmed
  <2>1. Fresh(h).height = h /\ Fresh(h).always = FALSE
    BY FreshOK
  <2> QED
    BY <1>1, <1>3, <2>1, NewRecordMarks
<1> HIDE DEF new
<1>7. t \in Coinbase /\ mine => PaysOf(t) # {} /\ t \notin DOMAIN rec
  <2> SUFFICES ASSUME t \in Coinbase, mine PROVE PaysOf(t) # {} /\ t \notin DOMAIN rec
    OBVIOUS
  <2>1. Ins[t] = {}
    BY WalletConstants
  <2>2. OwnedInputs(rec, window, t) = {}
    BY <2>1 DEF OwnedInputs
  <2>3. PaysOf(t) # {}
    BY <2>2 DEF ContainsTx
  <2> QED
    BY <1>1, <1>5, <2>3 DEF Aged, Unlisted
<1>8. t \in Coinbase /\ ~ mine => PaysOf(t) = {}
  <2> SUFFICES ASSUME t \in Coinbase, PaysOf(t) # {} PROVE mine
    OBVIOUS
  <2>1. PaysOf(t) \cap 1..(Gap + Cushion) # {}
    BY DEF CoinbaseIsKnown
  <2>2. window \in Nat /\ window >= Gap + Cushion
    BY InvParts, MaxWindowOK DEF Inv, Windows, Known
  <2>3. 1..(Gap + Cushion) \subseteq 1..window
    BY <2>2, ConstantsOK
  <2> QED
    BY <2>1, <2>3 DEF ContainsTx
<1> HIDE DEF mine
<1>9. Below(r, best) /\ Marked(r)
  BY <1>1, <1>3, <1>5, <1>6 DEF Aged, Below, Marked
<1>10. Follows(r, s, mined) /\ Follows(r, transactions, mined)
  <2>1. ASSUME NEW u \in Range(transactions) \cap Coinbase
        PROVE  r[u].height = Unconfirmed \/ r[u].always \/ mined[u] = r[u].height
    <3>1. u \in DOMAIN rec /\ u # t
      BY <1>1, <1>5
    <3> QED
      BY <1>1, <1>5, <3>1 DEF Aged, Follows
  <2>2. ASSUME mine, t \in Coinbase PROVE r[t].height = Unconfirmed \/ r[t].always
    BY <1>5, <1>6, <1>7, <2>2
  <2>3. ASSUME ~ mine, t \in Coinbase PROVE r[t].height = Unconfirmed \/ r[t].always
    BY <1>5, <1>6, <2>3
  <2> QED
    BY <1>5, <2>1, <2>2, <2>3 DEF Follows
<1>11. CASE mine /\ needed /\ Settle(r, s, window, tip, overrides, needed)
  <2>1. Unlisted(r, s)
    <3> SUFFICES ASSUME NEW u \in DOMAIN r \ Range(s), u \in Coinbase PROVE PaysOf(u) = {}
      BY DEF Unlisted
    <3>1. u \in DOMAIN rec \ Range(transactions)
      BY <1>5
    <3> QED
      BY <1>1, <3>1 DEF Aged, Unlisted
  <2>2. Aged(r, s, mined, best)
    BY <1>9, <1>10, <2>1 DEF Aged
  <2>3. Aged(r, s, mined', best') /\ tip <= best' /\ \A u \in Txs : mined'[u] <= best'
    BY <1>1, <1>2, <2>2
  <2> QED
    BY <1>1, <1>5, <1>11, <2>3, SettledAged
<1>12. CASE ~ mine /\ rec' = r /\ UNCHANGED <<transactions, tip, credit>>
  <2>1. Unlisted(r, transactions)
    <3> SUFFICES ASSUME NEW u \in DOMAIN r \ Range(transactions), u \in Coinbase PROVE PaysOf(u) = {}
      BY DEF Unlisted
    <3>1. CASE u = t
      BY <1>8, <1>12, <3>1
    <3>2. CASE u # t
      BY <1>1, <1>5, <3>2 DEF Aged, Unlisted
    <3> QED
      BY <3>1, <3>2
  <2>2. Aged(r, transactions, mined, best)
    BY <1>9, <1>10, <2>1 DEF Aged
  <2>3. Deep(credit, r, best)
    <3>1. \A u \in DOMAIN rec : r[u] = rec[u]
      BY <1>5, <1>12
    <3>2. best <= best
      BY <1>1
    <3> QED
      BY <1>1, <3>1, <3>2, DeepLater
  <2> QED
    BY <1>1, <1>2, <1>12, <2>2, <2>3 DEF AgedInv
<1> QED
  BY <1>5, <1>11, <1>12

LEMMA AgedUpdating ==
  ASSUME DualKey, Inv, Known, ListedByHeight, AgedInv, Inv', Updating, UNCHANGED chain
  PROVE  AgedInv'
<1>1. /\ Records(rec) /\ Lists(transactions, Range(transactions))
      /\ Range(transactions) \subseteq DOMAIN rec /\ DOMAIN rec \subseteq Txs
      /\ CoinsOf(credit, rec) /\ Deep(credit, rec, best) /\ Aged(rec, transactions, mined, best)
      /\ best \in Int /\ tip \in Int /\ tip <= best /\ \A t \in Txs : mined[t] <= best
  BY AgedParts
<1>2. mined' = mined /\ best' = best
  BY DEF chain
<1>3. PICK hashes \in Seq(Txs), h \in 1..Unconfirmed, unproven \in BOOLEAN, restamp \in BOOLEAN :
         /\ \A n \in 1..Len(hashes) : Told(hashes[n], h, unproven)
         /\ UpdateTransactions(hashes, h, unproven, restamp)
         /\ h # Unconfirmed => h <= best \/ InBlocks(h) # {}
  BY DEF Updating
<1>4. h # Unconfirmed => h <= best
  <2>1. CASE InBlocks(h) # {}
    BY <1>1, <2>1 DEF InBlocks
  <2> QED
    BY <1>3, <2>1
<1>5. PICK b, wtip : /\ Stamping(b) /\ Keeping(b, h)
                     /\ Settle(b.rec, b.list, window, wtip, overrides, b.needed)
                     /\ wtip = tip \/ (h # Unconfirmed /\ wtip = h)
  <2>1. Recognised
    BY DEF Known
  <2>2. Len(hashes) \in Nat /\ \A n \in 1..Len(hashes) : hashes[n] \in Txs
    OBVIOUS
  <2> QED
    BY <1>3, <2>1, <2>2, UpdateKeeps
<1> DEFINE r == b.rec
           s == b.list
           needed == b.needed
<1>6. /\ Records(r) /\ DOMAIN r = DOMAIN rec /\ Lists(s, Range(transactions)) /\ Marks(r, h)
      /\ Settle(r, s, window, wtip, overrides, needed)
      /\ needed \/ \A u \in Range(transactions) \cap Coinbase : r[u].height = rec[u].height
  BY <1>5 DEF Stamping, Keeping, Noticed
<1> HIDE DEF r, s, needed
<1>7. wtip \in Int /\ wtip <= best
  <2>1. h \in Int
    BY ConstantsOK DEF Unconfirmed
  <2> QED
    BY <1>1, <1>4, <1>5, <2>1
<1>8. Range(s) = Range(transactions)
  BY <1>6 DEF Lists
<1>9. Lists(s, Range(s)) /\ Range(s) \subseteq DOMAIN r
  BY <1>1, <1>6, <1>8
<1>10. Below(r, best) /\ Marked(r)
  BY <1>1, <1>4, <1>6 DEF Aged, Below, Marked, Marks
<1>11. Unlisted(r, s)
  BY <1>1, <1>6, <1>8 DEF Aged, Unlisted
<1>12. Follows(r, s, mined)
  <2> SUFFICES ASSUME NEW u \in Range(transactions) \cap Coinbase
               PROVE  r[u].height = Unconfirmed \/ r[u].always \/ mined[u] = r[u].height
    BY <1>8 DEF Follows
  <2>1. u \in DOMAIN rec
    BY <1>1
  <2>2. rec[u].height = Unconfirmed \/ rec[u].always \/ mined[u] = rec[u].height
    BY <1>1 DEF Aged, Follows
  <2> QED
    BY <1>6, <2>1, <2>2 DEF Marks
<1>13. Aged(r, s, mined, best)
  BY <1>10, <1>11, <1>12 DEF Aged
<1>14. needed \/ Deep(credit, r, best)
  <2> SUFFICES ASSUME ~ needed PROVE Deep(credit, r, best)
    OBVIOUS
  <2> SUFFICES ASSUME NEW o \in credit.utxos, o[1] \in Coinbase
               PROVE  r[o[1]].always \/ (r[o[1]].height # Unconfirmed /\ best >= r[o[1]].height + Maturity)
    BY DEF Deep
  <2> DEFINE t == o[1]
  <2>1. /\ t \in DOMAIN rec /\ t \in Coinbase
        /\ o[2] \in DOMAIN Pays[t] /\ Pays[t][o[2]] \in 1..credit.window
    BY <1>1 DEF CoinsOf
  <2>2. rec[t].always \/ (rec[t].height # Unconfirmed /\ best >= rec[t].height + Maturity)
    BY <1>1 DEF Deep
  <2>3. PaysOf(t) # {}
    <3>1. Pays[t][o[2]] # 0
      BY <2>1
    <3> QED
      BY <2>1, <3>1 DEF PaysOf
  <2> HIDE DEF t
  <2>4. t \in Range(transactions)
    BY <1>1, <2>1, <2>3 DEF Aged, Unlisted
  <2>5. r[t].height = rec[t].height /\ (rec[t].always => r[t].always)
    BY <1>6, <2>1, <2>4 DEF Marks
  <2>6. r[t].always \/ (r[t].height # Unconfirmed /\ best >= r[t].height + Maturity)
    BY <2>2, <2>5
  <2> QED
    BY <2>6 DEF t
<1>15. /\ Aged(r, s, mined', best') /\ wtip <= best' /\ \A u \in Txs : mined'[u] <= best'
       /\ needed \/ Deep(credit, r, best')
  BY <1>1, <1>2, <1>7, <1>13, <1>14
<1> QED
  BY <1>6, <1>7, <1>9, <1>15, SettledAged

LEMMA AgedRemoved ==
  ASSUME DualKey, Inv, ListedByHeight, AgedInv, Inv', NEW t \in Txs, Removed(t)
  PROVE  AgedInv'
<1>1. /\ Records(rec) /\ Lists(transactions, Range(transactions))
      /\ Range(transactions) \subseteq DOMAIN rec
      /\ Aged(rec, transactions, mined, best)
      /\ best \in Int /\ tip \in Int /\ tip <= best /\ \A u \in Txs : mined[u] <= best
  BY AgedParts
<1>2. mined' = mined /\ best' = best /\ RemoveTransaction(t) /\ WalletInv
  BY DEF Removed, chain, Inv
<1>3. CASE UNCHANGED <<rec, transactions, tip, credit>>
  BY <1>2, <1>3 DEF AgedInv
<1>4. ASSUME NEW r, NEW s, NEW needed,
             Records(r), DOMAIN r = DOMAIN rec \ {t}, \A u \in DOMAIN r : r[u] = rec[u],
             Lists(s, Range(s)), Range(s) = Range(transactions) \ {t}, Range(s) \subseteq DOMAIN r,
             needed, Settle(r, s, window, tip, overrides, needed)
      PROVE  AgedInv'
  <2>1. Below(r, best) /\ Marked(r)
    BY <1>1, <1>4 DEF Aged, Below, Marked
  <2>2. Unlisted(r, s)
    BY <1>1, <1>4 DEF Aged, Unlisted
  <2>3. Follows(r, s, mined)
    BY <1>1, <1>4 DEF Aged, Follows
  <2>4. Aged(r, s, mined', best') /\ tip <= best' /\ \A u \in Txs : mined'[u] <= best'
    BY <1>1, <1>2, <2>1, <2>2, <2>3 DEF Aged
  <2> QED
    BY <1>1, <1>4, <2>4, SettledAged
<1> QED
  BY <1>2, <1>3, <1>4, RemoveSettles

LEMMA AgedFound ==
  ASSUME DualKey, Inv, AgedInv, Inv', NEW o \in Assets, AssetFound(o)
  PROVE  AgedInv'
<1>1. /\ Records(rec) /\ Lists(transactions, Range(transactions))
      /\ Range(transactions) \subseteq DOMAIN rec
      /\ Aged(rec, transactions, mined, best)
      /\ tip \in Int /\ tip <= best /\ \A u \in Txs : mined[u] <= best
  BY AgedParts
<1> DEFINE over == overrides \cup {o}
           needed == TRUE
<1>2. mined' = mined /\ best' = best
  BY DEF AssetFound, chain
<1>3. needed /\ Settle(rec, transactions, window, tip, over, needed)
  BY DEF AssetFound, RegisterAssetOutpoint
<1> HIDE DEF over, needed
<1>4. Aged(rec, transactions, mined', best') /\ tip <= best' /\ \A u \in Txs : mined'[u] <= best'
  BY <1>1, <1>2
<1> QED
  BY <1>1, <1>3, <1>4, SettledAged

(* The heights saved are the chain's, and so is the highest of them.       *)
LEMMA SeedIsBelow ==
  ASSUME Inv, AgedInv
  PROVE  Seed \in Int /\ Seed <= best
<1>1. /\ Records(rec) /\ Range(transactions) \subseteq DOMAIN rec
      /\ Aged(rec, transactions, mined, best) /\ best \in 1..MaxHeight /\ MaxHeight \in Nat
  BY AgedParts, ConstantsOK
<1> DEFINE H == {Saved[t].height : t \in DOMAIN Saved} \ {Unconfirmed}
           T == {0} \cup H
<1>2. ASSUME NEW h \in H PROVE h \in 0..best
  <2>1. PICK t \in Range(transactions) : h = Fresh(rec[t].height).height /\ h # Unconfirmed
    BY DEF Saved
  <2>2. t \in DOMAIN rec /\ h = rec[t].height
    BY <1>1, <2>1 DEF Fresh
  <2>3. h \in Nat /\ h <= best
    BY <1>1, <2>1, <2>2, HeightsAreNumbers DEF Aged, Below
  <2> QED
    BY <1>1, <2>3
<1>3. Seed = Max(T)
  BY Zenon DEF Seed
<1> HIDE DEF H
<1>4. T \subseteq 0..best /\ T # {} /\ best \in Nat
  BY <1>1, <1>2
<1> HIDE DEF T
<1>5. Max(T) \in T
  BY <1>4, Greatest
<1>6. \A x \in T : x \in Int /\ x <= best
  BY <1>4
<1> QED
  BY <1>3, <1>5, <1>6, Zenon

LEMMA AgedReloaded ==
  ASSUME DualKey, CoinbaseIsKnown, Inv, AgedInv, Inv', Reloaded
  PROVE  AgedInv'
<1>1. /\ Range(transactions) \subseteq DOMAIN rec /\ DOMAIN rec \subseteq Txs
      /\ Aged(rec, transactions, mined, best)
      /\ best \in Int /\ \A u \in Txs : mined[u] <= best
  BY AgedParts
<1>2. mined' = mined /\ best' = best /\ Load /\ "load" \in Api /\ WalletInv
  BY DEF Reloaded, chain, Inv
<1>3. /\ Range(transactions') = Range(transactions) /\ DOMAIN rec' = Range(transactions)
      /\ \A t \in DOMAIN rec' : rec'[t].height = rec[t].height /\ rec'[t].always = FALSE
      /\ RipeAt(credit', rec', Seed) \/ RipeAt(credit', rec', best)
      /\ tip' = best
  BY <1>2, LoadSettles
<1> DEFINE q == rec'
           c == credit'
           s == transactions'
<1>4. Records(q) /\ CoinsOf(c, q)
  BY DEF Inv, WalletInv, Holding, Offers
<1>5. /\ Range(s) = Range(transactions) /\ DOMAIN q = Range(transactions)
      /\ \A t \in DOMAIN q : q[t].height = rec[t].height /\ q[t].always = FALSE
      /\ RipeAt(c, q, Seed) \/ RipeAt(c, q, best)
  BY <1>3
<1> HIDE DEF q, c, s
<1>6. Below(q, best)
  BY <1>1, <1>5 DEF Aged, Below
<1>7. Unlisted(q, s) /\ Marked(q)
  BY <1>5 DEF Unlisted, Marked
<1>8. Follows(q, s, mined)
  <2> SUFFICES ASSUME NEW t \in Range(transactions) \cap Coinbase, q[t].height # Unconfirmed
               PROVE  mined[t] = q[t].height
    BY <1>5 DEF Follows
  <2>1. t \in DOMAIN rec /\ rec[t].height = q[t].height
    BY <1>1, <1>5
  <2>2. ~ rec[t].always
    BY <1>1, <1>2, <2>1 DEF Aged, Marked, CoinbaseIsKnown
  <2> QED
    BY <1>1, <2>1, <2>2 DEF Aged, Follows
<1>9. Deep(c, q, best)
  <2>1. CASE RipeAt(c, q, Seed)
    <3> DEFINE seed == Seed
    <3>1. seed \in Int /\ seed <= best /\ RipeAt(c, q, seed)
      BY <2>1, SeedIsBelow
    <3> HIDE DEF seed
    <3> QED
      BY <1>1, <1>4, <3>1, RipeIsDeep
  <2>2. CASE RipeAt(c, q, best)
    <3>1. best <= best
      BY <1>1
    <3> QED
      BY <1>1, <1>4, <2>2, <3>1, RipeIsDeep
  <2> QED
    BY <1>5, <2>1, <2>2
<1>10. Aged(q, s, mined, best)
  BY <1>6, <1>7, <1>8 DEF Aged
<1>11. tip' <= best
  BY <1>1, <1>3
<1> QED
  BY <1>1, <1>2, <1>9, <1>10, <1>11 DEF AgedInv, q, c, s

LEMMA AgedStep ==
  ASSUME DualKey, CoinbaseIsKnown, Inv, Known, ListedByHeight, AgedInv, Next
  PROVE  AgedInv'
<1>1. OnChain /\ Inv'
  BY NextOK DEF Inv
<1>2. CASE Block
  BY <1>1, <1>2, AgedBlock
<1>3. CASE Reloaded
  BY <1>1, <1>3, AgedReloaded
<1>4. CASE Generated
  BY <1>4 DEF Generated, UnusedAddrs, chain, AgedInv
<1>5. ASSUME NEW join \in 1..MaxHeight, Reorg(join) PROVE AgedInv'
  BY <1>1, <1>5, AgedReorg
<1>6. CASE Registering /\ UNCHANGED chain
  BY <1>1, <1>6, AgedRegistering
<1>7. CASE Updating /\ UNCHANGED chain
  BY <1>1, <1>7, AgedUpdating
<1>8. ASSUME NEW t \in Txs, Removed(t) PROVE AgedInv'
  BY <1>1, <1>8, AgedRemoved
<1>9. ASSUME NEW o \in Assets, AssetFound(o) PROVE AgedInv'
  BY <1>1, <1>9, AgedFound
<1> QED
  BY <1>1, <1>2, <1>3, <1>4, <1>5, <1>6, <1>7, <1>8, <1>9, Steps, Zenon

LEMMA FirstAged ==
  ASSUME Init
  PROVE  AgedInv
<1>1. rec = <<>> /\ transactions = <<>> /\ tip = 1 /\ best = 1 /\ mined \in [Txs -> 0..1]
  BY DEF Init
<1>2. credit.utxos = {}
  <2>1. credit = [NoCredit EXCEPT !.window = Gap + Cushion]
    BY DEF Init
  <2> QED
    BY <2>1, NoCreditFields DEF CreditFields
<1>3. DOMAIN rec = {} /\ Range(transactions) = {}
  BY <1>1 DEF Range
<1>4. Aged(rec, transactions, mined, best)
  BY <1>3 DEF Aged, Below, Unlisted, Follows, Marked
<1>5. Deep(credit, rec, best)
  BY <1>2 DEF Deep
<1>6. \A t \in Txs : mined[t] <= best
  BY <1>1
<1> QED
  BY <1>1, <1>4, <1>5, <1>6 DEF AgedInv

LEMMA AgedHolds ==
  ASSUME DualKey, NeverLost, CoinbaseIsKnown
  PROVE  Spec => [](Inv /\ AgedInv)
<1>1. Init => AgedInv
  BY FirstAged
<1>2. Inv /\ Known /\ ListedByHeight /\ AgedInv /\ [Next]_vars => AgedInv'
  <2>1. Inv /\ Known /\ ListedByHeight /\ AgedInv /\ Next => AgedInv'
    BY AgedStep
  <2>2. AgedInv /\ UNCHANGED vars => AgedInv'
    BY DEF vars, AgedInv
  <2> QED
    BY <2>1, <2>2
<1> QED
  BY <1>1, <1>2, KnownHolds, PTL DEF Spec

----------------------------------------------------------------------------
(* What the wallet promises. *)

(* Types; what the wallet lists it holds, once, and not as a foreign       *)
(* record (BRWalletRegisterTransaction, _BRWalletUpdateTransactions,       *)
(* BRWalletRemoveTransaction, BRWalletNewDual).                            *)
THEOREM TypeCorrect ==
  ASSUME DualKey
  PROVE  Spec => []TypeOK
<1>1. Inv => TypeOK
  <2> SUFFICES ASSUME Inv PROVE TypeOK
    OBVIOUS
  <2>1. WalletInv /\ OnChain
    BY DEF Inv
  <2>2. window \in 1..MaxWindow /\ MaxWindow \in Nat
    BY <2>1, InvParts, MaxWindowOK DEF Windows
  <2>3. window \in 1..(2 * MaxWindow)
    BY <2>2
  <2>4. \A t \in DOMAIN rec : rec[t] \in Record
    BY <2>1, InvParts DEF Records, RecordOK, CheckOK
  <2>5. IsInjective(transactions)
    BY <2>1, InvParts DEF Lists
  <2> QED
    BY <2>1, <2>3, <2>4, <2>5, InvParts DEF TypeOK, OnChain
<1> QED
  BY <1>1, InvHolds, PTL

(* A coin is offered only while nothing the wallet accepts spends it, nor  *)
(* a transaction it knows to be in the main chain (_BRWalletUpdateBalance, *)
(* and every call that may skip it).                                       *)
THEOREM SpentCoinsStayBack ==
  ASSUME DualKey
  PROVE  Spec => []SpentIsNeverOffered
<1>1. Inv => SpentIsNeverOffered
  <2> SUFFICES ASSUME Inv, NEW t \in Range(transactions),
                      t \in Accepted \/ (mined[t] > 0 /\ rec[t].height = mined[t])
               PROVE  Ins[t] \cap credit.utxos = {}
    BY DEF SpentIsNeverOffered
  <2>1. WalletInv /\ OnChain
    BY DEF Inv
  <2>2. t \in Txs /\ Offers(credit, rec, transactions)
    BY <2>1, InvParts
  <2>3. CASE t \in Accepted
    BY <2>2, <2>3 DEF Accepted, Offers
  <2>4. CASE mined[t] > 0 /\ rec[t].height = mined[t]
    <3>1. mined[t] \in 0..MaxHeight /\ mined[t] # 0
      BY <2>1, <2>2, <2>4 DEF OnChain
    <3>2. Signed[t] = Ins[t]
      BY <2>1, <2>2, <3>1, MinedIsSigned
    <3>3. rec[t].height # Unconfirmed
      BY <2>4, <3>1, ConstantsOK DEF Unconfirmed
    <3> QED
      BY <2>2, <3>2, <3>3 DEF Offers
  <2> QED
    BY <2>3, <2>4
<1> QED
  BY <1>1, InvHolds, PTL

(* No accepted transaction spends one of the wallet's coins without        *)
(* signing it (_BRWalletSpendsSigned), as long as a load brings back no    *)
(* height that only a server reported for a transaction that does not sign *)
(* what it spends.                                                         *)
THEOREM UnsignedSpendsTakeNothing ==
  ASSUME DualKey, "load" \in Api => \A c \in Claims : Signed[c[1]] = Ins[c[1]]
  PROVE  Spec => []UnsignedSpendsNothing
<1>1. Inv => UnsignedSpendsNothing
  <2> SUFFICES ASSUME Inv, NEW t \in Accepted
               PROVE  OwnedInputs(rec, credit.window, t) \subseteq Signed[t]
    BY DEF UnsignedSpendsNothing
  <2>1. WalletInv
    BY DEF Inv
  <2>2. t \in Range(transactions) \ credit.invalid /\ t \in Txs
    BY <2>1, InvParts DEF Accepted
  <2>3. OwnedInputs(rec, credit.window, t) \subseteq Signed[t] \/ Gullible(t)
    BY <2>1, <2>2, InvParts DEF Offers
  <2>4. CASE Gullible(t)
    <3>1. Signed[t] = Ins[t]
      BY <2>4 DEF Gullible, Claimed
    <3> QED
      BY <2>2, <3>1, OwnedOK
  <2> QED
    BY <2>3, <2>4
<1> QED
  BY <1>1, InvHolds, PTL

(* As long as the wallet recognises what it lists, the list stays in the   *)
(* order of heights, whatever is stamped, taken back, removed or loaded:   *)
(* _BRWalletUpdateTransactions moves what it stamps only when it           *)
(* recognises it.                                                          *)
THEOREM RecognisedStayOrdered ==
  ASSUME DualKey
  PROVE  Spec /\ []Recognised => []ListedByHeight
<1>1. Init => ListedByHeight
  BY FirstList
<1>2. Inv /\ Recognised /\ ListedByHeight /\ [Next]_vars => ListedByHeight'
  <2>1. Inv /\ Recognised /\ ListedByHeight /\ Next => ListedByHeight'
    BY OrderStep
  <2>2. ListedByHeight /\ UNCHANGED vars => ListedByHeight'
    BY DEF vars, ListedByHeight
  <2> QED
    BY <2>1, <2>2
<1> QED
  BY <1>1, <1>2, InvHolds, PTL DEF Spec

(* The list stays in the order of heights, which                           *)
(* BRWalletSetTxUnconfirmedAfter and BRWalletRemoveTransaction search by,  *)
(* in a wallet that is neither loaded nor loses a transaction, or whose    *)
(* transactions each pay an address it starts with.                        *)
THEOREM ListStaysOrdered ==
  ASSUME DualKey, NeverLost
  PROVE  Spec => []ListedByHeight
BY KnownHolds, PTL

(* A coin-generation output is offered only when its block is deep enough  *)
(* in the main chain, through reorganisations, late registrations and the  *)
(* rebuilds that BRWalletSetBlockHeight and BRWalletUpdateTransactions     *)
(* skip: in such a wallet, when it recognises from the start a             *)
(* coin-generation transaction that pays it, and no load drops the mark of *)
(* one a server reported.                                                  *)
THEOREM CreditedCoinbasesAreMature ==
  ASSUME DualKey, NeverLost, CoinbaseIsKnown
  PROVE  Spec => []CreditedCoinbaseIsMature
<1>1. Inv /\ AgedInv => CreditedCoinbaseIsMature
  <2> SUFFICES ASSUME Inv, AgedInv, NEW o \in credit.utxos, o[1] \in Coinbase, ~ rec[o[1]].always
               PROVE  mined[o[1]] > 0 /\ best >= mined[o[1]] + Maturity
    BY DEF CreditedCoinbaseIsMature
  <2>1. /\ Records(rec) /\ CoinsOf(credit, rec) /\ Deep(credit, rec, best)
        /\ Aged(rec, transactions, mined, best)
    BY AgedParts
  <2> DEFINE t == o[1]
  <2>2. /\ t \in DOMAIN rec /\ t \in Coinbase /\ ~ rec[t].always
        /\ o[2] \in DOMAIN Pays[t] /\ Pays[t][o[2]] \in 1..credit.window
    BY <2>1 DEF CoinsOf
  <2>3. rec[t].height # Unconfirmed /\ best >= rec[t].height + Maturity
    BY <2>1 DEF Deep
  <2>4. PaysOf(t) # {}
    <3>1. Pays[t][o[2]] # 0
      BY <2>2
    <3> QED
      BY <2>2, <3>1 DEF PaysOf
  <2> HIDE DEF t
  <2>5. mined[t] = rec[t].height
    BY <2>1, <2>2, <2>3, <2>4 DEF Aged, Unlisted, Follows
  <2>6. rec[t].height \in 1..Unconfirmed
    <3>1. rec[t] \in Record
      BY <2>1, <2>2 DEF Records, RecordOK, CheckOK
    <3> QED
      BY <3>1 DEF Record
  <2>7. mined[t] > 0 /\ best >= mined[t] + Maturity
    BY <2>3, <2>5, <2>6
  <2> QED
    BY <2>7 DEF t
<1> QED
  BY <1>1, AgedHolds, PTL

=============================================================================
