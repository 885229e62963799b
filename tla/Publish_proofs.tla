---------------------------- MODULE Publish_proofs ----------------------------
(***************************************************************************)
(* What holds of the publish list of BRPeerManager.c for all transactions, *)
(* objects, callbacks and peers: who owns each object, where each callback *)
(* is, and who is told of a transaction that stems.                        *)
(***************************************************************************)
EXTENDS Publish, FiniteSetTheorems, SequenceTheorems, WellFoundedInduction, TLAPS

----------------------------------------------------------------------------
(* Numbers, and functions that iterate a step. *)
LEMMA Least ==
  ASSUME NEW T, T \subseteq Nat, T # {}
  PROVE  \E x \in T : \A y \in T : x <= y
<1> DEFINE R == OpToRel(<, Nat)
<1>1. IsWellFoundedOn(R, Nat)
  BY NatLessThanWellFounded
<1>2. \A a, b \in Nat : a < b => <<a, b>> \in R
  BY DEF OpToRel
<1> HIDE DEF R
<1>3. PICK x \in T : \A y \in T : ~ (<<y, x>> \in R)
  BY <1>1, WFMin
<1>4. \A y \in T : ~ (y < x)
  BY <1>2, <1>3
<1> QED
  BY <1>4

(* f has the values that M steps from a pass through.                      *)
Iteration(f, S, a, step, M) ==
    f \in [0..M -> S] /\ f[0] = a /\ \A n \in 1..M : f[n] = step[f[n - 1]]

LEMMA Iterates ==
  ASSUME NEW S, NEW a \in S, NEW step \in [S -> S], NEW M \in Nat
  PROVE  \E f : Iteration(f, S, a, step, M)
<1> DEFINE Upto(k, f) == f \in [0..k -> S] /\ f[0] = a /\ \A n \in 1..k : f[n] = step[f[n - 1]]
           T == {k \in Nat : ~ \E f : Upto(k, f)}
<1>1. SUFFICES ASSUME T # {} PROVE FALSE
  BY DEF T, Upto, Iteration
<1>2. PICK k \in T : \A j \in T : k <= j
  BY <1>1, Least
<1>3. Upto(0, [n \in 0..0 |-> a])
  OBVIOUS
<1>4. k # 0
  <2> HIDE DEF Upto
  <2>1. 0 \notin T
    BY <1>3
  <2> QED
    BY <1>2, <2>1
<1>5. PICK g : Upto(k - 1, g)
  <2>1. k - 1 \in Nat /\ ~ (k <= k - 1)
    BY <1>2, <1>4
  <2>2. k - 1 \notin T
    BY <1>2, <2>1
  <2> QED
    BY <2>1, <2>2
<1> DEFINE f == [n \in 0..k |-> IF n = k THEN step[g[k - 1]] ELSE g[n]]
<1>6. f \in [0..k -> S] /\ f[0] = a
  BY <1>2, <1>4, <1>5
<1>7. ASSUME NEW n \in 1..k PROVE f[n] = step[f[n - 1]]
  <2>1. CASE n = k
    BY <1>2, <1>4, <2>1
  <2>2. CASE n # k
    <3>1. n \in 1..(k - 1) /\ n - 1 \in 0..(k - 1) /\ n \in 0..k /\ n - 1 \in 0..k /\ n - 1 # k
      BY <1>2, <2>2
    <3>2. f[n] = g[n] /\ f[n - 1] = g[n - 1]
      BY <2>2, <3>1
    <3> QED
      BY <1>5, <3>1, <3>2
  <2> QED
    BY <2>1, <2>2
<1>8. Upto(k, f)
  BY <1>6, <1>7
<1> QED
  BY <1>2, <1>8

----------------------------------------------------------------------------
(* What every operator on the list keeps. *)

(* The type of what manager->lock guards.                                  *)
Tables == [listed : SUBSET PubEntry, queue : Seq(Answer), record : [Txs -> Objs \cup {None}],
           alive : [Objs -> {"unborn", "live", "freed", "twice"}],
           mined : SUBSET Objs, invalid : SUBSET Txs, relays : [Txs -> SUBSET Peers],
           requests : [Txs -> SUBSET Peers], rejects : [Txs -> SUBSET Peers], vouched : SUBSET Txs]

(* Entries and records are filed under the hash of their object, one entry *)
(* a hash, and no two entries wait for one callback.                       *)
Filed(s) ==
    /\ \A e, f \in s.listed : e.hash = f.hash => e = f
    /\ \A e \in s.listed : HashOf[e.obj] = e.hash
    /\ \A h \in Txs : s.record[h] # None => HashOf[s.record[h]] = h
    /\ \A e, f \in s.listed : e.call # None /\ e.call = f.call => e = f

Good(s) == s \in Tables /\ Filed(s)

(* Who owns what, W being the objects in the hands of callers: an entry    *)
(* that does not own its object names the wallet's record, and every live  *)
(* object is in a hand, a record, or named by an entry.                    *)
Owned(s, W) ==
    /\ \A e \in s.listed : /\ s.alive[e.obj] = "live"
                           /\ e.owned <=> s.record[e.hash] # e.obj
                           /\ e.owned => e.obj \notin W
    /\ \A h \in Txs : s.record[h] # None => s.alive[s.record[h]] = "live"
    /\ \A o \in W : s.alive[o] = "live"
    /\ \A o \in Objs :
          /\ s.alive[o] # "twice"
          /\ s.alive[o] = "live" => \/ o \in W \/ s.record[HashOf[o]] = o
                                    \/ \E e \in s.listed : e.obj = o

(* The object whose publish has given the lock up.                         *)
InWindow == IF window = None THEN {} ELSE {window.obj}

Others ==
    /\ net \in [Peers -> Link] /\ download \in Peers \cup {None} /\ syncing \in BOOLEAN
    /\ failures \in 0..MaxFailures + 1 /\ phase \in {"running", "parked", "gone"}
    /\ hand \in [Threads -> [calls : Seq(Answer), flush : BOOLEAN]]
    /\ window \in [obj : Objs, call : Calls \cup {None}, tired : BOOLEAN] \cup {None}
    /\ answers \in [Calls -> Seq(Verdicts)] /\ passed \subseteq Calls /\ unheard \subseteq passed

(* While PublishTx has given the lock up its thread has nothing to call.   *)
WindowWaits ==
    window # None => /\ hand[App].calls = <<>> /\ ~hand[App].flush
                     /\ window.call \in passed \cup {None}
                     /\ HashOf[window.obj] \in Sends

ListInv == Good(m) /\ Others /\ WindowWaits

(* No send spends a receive that itself builds on a receive of the wallet. *)
SendsBuildOnLoneReceives ==
    \A h, k \in Ours \ Sends, d \in Sends : h \in Spends[k] => k \notin Spends[d]

----------------------------------------------------------------------------
(* Callbacks, counted. *)

LEMMA SetAsSeq ==
  ASSUME NEW S, IsFiniteSet(S)
  PROVE  /\ SetToSeq(S) \in Seq(S) /\ DOMAIN SetToSeq(S) = 1..Cardinality(S)
         /\ \A i, j \in DOMAIN SetToSeq(S) : SetToSeq(S)[i] = SetToSeq(S)[j] => i = j
         /\ \A x \in S : \E i \in DOMAIN SetToSeq(S) : SetToSeq(S)[i] = x
<1> DEFINE n == Cardinality(S)
           q == SetToSeq(S)
<1>1. n \in Nat /\ ExistsBijection(1..n, S)
  BY FS_CardinalityType
<1>2. PICK f \in [1..n -> S] : IsInjective(f)
  BY <1>1 DEF ExistsBijection, Bijection, Injection
<1>3. q \in [1..n -> S] /\ IsInjective(q)
  BY <1>2 DEF SetToSeq
<1> HIDE DEF q
<1>4. q \in Injection(1..n, S)
  BY <1>3 DEF Injection
<1>5. IsFiniteSet(1..n) /\ Cardinality(1..n) = n
  BY <1>1, FS_Interval
<1> HIDE DEF n
<1>6. Cardinality(1..n) = Cardinality(S)
  BY <1>5 DEF n
<1>7. q \in Surjection(1..n, S)
  BY <1>4, <1>6, FS_Injection
<1>8. q \in Seq(S) /\ DOMAIN q = 1..n
  BY <1>1, <1>3, SeqDef
<1> QED
  BY <1>3, <1>7, <1>8 DEF IsInjective, Surjection, q, n

LEMMA InSeqIsNat ==
  ASSUME NEW c, NEW s \in Seq(Answer)
  PROVE  /\ IsFiniteSet({i \in DOMAIN s : s[i].call = c})
         /\ {i \in DOMAIN s : s[i].call = c} \subseteq 1..Len(s)
         /\ InSeq(c, s) \in Nat /\ InSeq(c, <<>>) = 0
<1> DEFINE A == {i \in DOMAIN s : s[i].call = c}
<1>1. A \subseteq 1..Len(s) /\ Len(s) \in Nat
  BY LenProperties
<1>2. IsFiniteSet(1..Len(s))
  BY <1>1, FS_Interval
<1>3. IsFiniteSet(A)
  BY <1>1, <1>2, FS_Subset
<1>4. Cardinality(A) \in Nat
  BY <1>3, FS_CardinalityType
<1>5. {i \in DOMAIN <<>> : <<>>[i].call = c} = {}
  OBVIOUS
<1>6. InSeq(c, <<>>) = 0
  BY <1>5, FS_EmptySet DEF InSeq
<1> QED
  BY <1>1, <1>3, <1>4, <1>6 DEF InSeq

LEMMA InSeqConcat ==
  ASSUME NEW c, NEW s \in Seq(Answer), NEW u \in Seq(Answer)
  PROVE  s \o u \in Seq(Answer) /\ InSeq(c, s \o u) = InSeq(c, s) + InSeq(c, u)
<1> DEFINE v == s \o u
           A == {i \in DOMAIN s : s[i].call = c}
           B == {i \in DOMAIN u : u[i].call = c}
           C == {i \in DOMAIN v : v[i].call = c}
           k == Len(s)
           D == {i \in C : ~ (i <= k)}
           f == [i \in B |-> k + i]
<1>1. /\ v \in Seq(Answer) /\ Len(v) = k + Len(u)
      /\ \A i \in 1..(k + Len(u)) : v[i] = IF i <= k THEN s[i] ELSE u[i - k]
  BY ConcatProperties
<1>2. /\ k \in Nat /\ Len(u) \in Nat /\ DOMAIN s = 1..k /\ DOMAIN u = 1..Len(u)
      /\ DOMAIN v = 1..(k + Len(u))
  BY <1>1, LenProperties
<1> HIDE DEF v, k
<1>3. IsFiniteSet(A) /\ IsFiniteSet(B) /\ IsFiniteSet(C)
  BY <1>1, InSeqIsNat
<1>4. \A i \in B : k + i \in D
  <2> SUFFICES ASSUME NEW i \in B PROVE k + i \in D
    OBVIOUS
  <2>1. i \in 1..Len(u) /\ u[i].call = c
    BY <1>2
  <2>2. k + i \in 1..(k + Len(u)) /\ ~ (k + i <= k) /\ (k + i) - k = i
    BY <1>2, <2>1
  <2> QED
    BY <1>1, <1>2, <2>1, <2>2
<1>5. \A j \in D : j - k \in B /\ k + (j - k) = j
  <2> SUFFICES ASSUME NEW j \in D PROVE j - k \in B /\ k + (j - k) = j
    OBVIOUS
  <2>1. j \in 1..(k + Len(u)) /\ v[j].call = c /\ ~ (j <= k)
    BY <1>2
  <2>2. j - k \in 1..Len(u) /\ k + (j - k) = j
    BY <1>2, <2>1
  <2> QED
    BY <1>1, <1>2, <2>1, <2>2
<1>6. \A i, j \in B : k + i = k + j => i = j
  BY <1>2
<1>7. f \in Bijection(B, D)
  <2>1. f \in [B -> D]
    BY <1>4
  <2>2. \A i, j \in B : f[i] = f[j] => i = j
    BY <1>6
  <2>3. \A j \in D : \E i \in B : f[i] = j
    BY <1>5
  <2> HIDE DEF f, B, D
  <2> QED
    BY <2>1, <2>2, <2>3 DEF Bijection, Injection, Surjection, IsInjective
<1>8. C = A \cup D /\ A \cap D = {}
  BY <1>1, <1>2
<1> HIDE DEF A, B, C, D, f
<1>9. IsFiniteSet(D) /\ Cardinality(D) = Cardinality(B)
  BY <1>3, <1>7, FS_Bijection DEF ExistsBijection
<1>10. Cardinality(C) = Cardinality(A) + Cardinality(D) - Cardinality(A \cap D)
  BY <1>3, <1>8, <1>9, FS_Union
<1>11. Cardinality(A \cap D) = 0
  BY <1>8, FS_EmptySet
<1>12. Cardinality(A) \in Nat /\ Cardinality(B) \in Nat
  BY <1>3, FS_CardinalityType
<1>13. Cardinality(C) = Cardinality(A) + Cardinality(B)
  BY <1>9, <1>10, <1>11, <1>12
<1> QED
  BY <1>1, <1>13 DEF InSeq, A, B, C, v

LEMMA InSeqOne ==
  ASSUME NEW c, NEW a \in Answer
  PROVE  <<a>> \in Seq(Answer) /\ InSeq(c, <<a>>) = IF a.call = c THEN 1 ELSE 0
<1> DEFINE A == {i \in DOMAIN <<a>> : <<a>>[i].call = c}
<1>1. A = IF a.call = c THEN {1} ELSE {}
  OBVIOUS
<1>2. Cardinality(A) = IF a.call = c THEN 1 ELSE 0
  BY <1>1, FS_EmptySet, FS_Singleton
<1>3. <<a>> \in Seq(Answer)
  OBVIOUS
<1> QED
  BY <1>2, <1>3 DEF InSeq

LEMMA InSeqHead ==
  ASSUME NEW c, NEW s \in Seq(Answer), s # <<>>
  PROVE  /\ Head(s) \in Answer /\ Tail(s) \in Seq(Answer)
         /\ InSeq(c, s) = (IF Head(s).call = c THEN 1 ELSE 0) + InSeq(c, Tail(s))
<1>1. Head(s) \in Answer /\ Tail(s) \in Seq(Answer) /\ s = <<Head(s)>> \o Tail(s)
  OBVIOUS
<1>2. <<Head(s)>> \in Seq(Answer) /\ InSeq(c, <<Head(s)>>) = IF Head(s).call = c THEN 1 ELSE 0
  BY <1>1, InSeqOne
<1>3. InSeq(c, s) = InSeq(c, <<Head(s)>>) + InSeq(c, Tail(s))
  <2>1. InSeq(c, <<Head(s)>> \o Tail(s)) = InSeq(c, <<Head(s)>>) + InSeq(c, Tail(s))
    BY <1>1, <1>2, InSeqConcat
  <2> QED
    BY <1>1, <2>1
<1> QED
  BY <1>1, <1>2, <1>3

(* The answers of some entries are one for each callback that waits there. *)
LEMMA AnswersCount ==
  ASSUME NEW E, IsFiniteSet(E), E \subseteq PubEntry, NEW error \in Verdicts
  PROVE  /\ AnswersTo(E, error) \in Seq(Answer)
         /\ \A c \in Calls :
               InSeq(c, AnswersTo(E, error)) = IF \E e \in E : e.call = c THEN 1 ELSE 0
<1> DEFINE F == {f \in E : f.call # None}
           g == [e \in F |-> [call |-> e.call, error |-> error]]
           S == {[call |-> e.call, error |-> error] : e \in F}
           q == SetToSeq(S)
<1>1. IsFiniteSet(F)
  BY FS_Subset
<1>2. IsFiniteSet(S)
  <2>1. g \in Surjection(F, S)
    BY DEF Surjection
  <2> QED
    BY <1>1, <2>1, FS_Surjection
<1>3. S \subseteq Answer /\ \A a \in S : a.error = error
  BY DEF Answer, PubEntry
<1>4. \A a, b \in S : a.call = b.call => a = b
  OBVIOUS
<1>5. \A c \in Calls : (\E a \in S : a.call = c) <=> \E e \in E : e.call = c
  <2> SUFFICES ASSUME NEW c \in Calls
               PROVE  (\E a \in S : a.call = c) <=> \E e \in E : e.call = c
    OBVIOUS
  <2>1. None \notin Calls
    BY PublishAssumption
  <2>2. ASSUME NEW e \in E, e.call = c PROVE \E a \in S : a.call = c
    <3>1. e \in F
      BY <2>1, <2>2
    <3>2. [call |-> e.call, error |-> error] \in S
      BY <3>1
    <3> QED
      BY <2>2, <3>2
  <2>3. ASSUME NEW a \in S, a.call = c PROVE \E e \in E : e.call = c
    <3>1. PICK e \in F : a = [call |-> e.call, error |-> error]
      OBVIOUS
    <3> QED
      BY <2>3, <3>1
  <2> QED
    BY <2>2, <2>3
<1> HIDE DEF S
<1>6. /\ q \in Seq(S)
      /\ \A i, j \in DOMAIN q : q[i] = q[j] => i = j
      /\ \A x \in S : \E i \in DOMAIN q : q[i] = x
      /\ DOMAIN q = 1..Cardinality(S)
  BY <1>2, SetAsSeq
<1> HIDE DEF q
<1>7. q \in Seq(Answer)
  BY <1>3, <1>6, SeqMonotonic
<1>8. \A i \in DOMAIN q : q[i] \in S
  BY <1>6, LenProperties, ElementOfSeq
<1>9. ASSUME NEW c \in Calls PROVE InSeq(c, q) = IF \E a \in S : a.call = c THEN 1 ELSE 0
  <2> DEFINE A == {i \in DOMAIN q : q[i].call = c}
  <2>1. CASE ~ \E a \in S : a.call = c
    <3>1. A = {}
      BY <1>8, <2>1
    <3>2. Cardinality(A) = 0
      BY <3>1, FS_EmptySet
    <3> QED
      BY <2>1, <3>2 DEF InSeq
  <2>2. CASE \E a \in S : a.call = c
    <3>1. PICK i \in DOMAIN q : q[i] \in S /\ q[i].call = c
      BY <1>6, <2>2
    <3>2. A = {i}
      BY <1>4, <1>6, <1>8, <3>1
    <3>3. Cardinality(A) = 1
      BY <3>2, FS_Singleton
    <3> QED
      BY <2>2, <3>3 DEF InSeq
  <2> QED
    BY <2>1, <2>2
<1>10. AnswersTo(E, error) = q
  BY DEF AnswersTo, q, S
<1> QED
  BY <1>5, <1>7, <1>9, <1>10

----------------------------------------------------------------------------
(* Entries that are changed, and entries that leave. *)

Waiting(s, c) == IF \E e \in s.listed : e.call = c THEN 1 ELSE 0

LEMMA ListFinite ==
  ASSUME NEW s, Good(s)
  PROVE  /\ IsFiniteSet(s.listed)
         /\ \A c \in Calls : Cardinality({e \in s.listed : e.call = c}) = Waiting(s, c)
<1>1. s.listed \subseteq PubEntry /\ \A e, f \in s.listed : e.hash = f.hash => e = f
  BY DEF Good, Filed, Tables
<1>2. IsFiniteSet(s.listed)
  <2> DEFINE f == [e \in s.listed |-> e.hash]
  <2>1. f \in Injection(s.listed, Txs)
    BY <1>1 DEF Injection, IsInjective, PubEntry
  <2> QED
    BY <2>1, PublishAssumption, FS_Injection
<1>3. ASSUME NEW c \in Calls PROVE Cardinality({e \in s.listed : e.call = c}) = Waiting(s, c)
  <2> DEFINE A == {e \in s.listed : e.call = c}
  <2>1. CASE \E e \in s.listed : e.call = c
    <3>1. PICK e \in s.listed : e.call = c
      BY <2>1
    <3>2. A = {e}
      BY <3>1, PublishAssumption DEF Good, Filed
    <3>3. Cardinality(A) = 1
      BY <3>2, FS_Singleton
    <3> QED
      BY <2>1, <3>3 DEF Waiting
  <2>2. CASE ~ \E e \in s.listed : e.call = c
    <3>1. A = {}
      BY <2>2
    <3>2. Cardinality(A) = 0
      BY <3>1, FS_EmptySet
    <3> QED
      BY <2>2, <3>2 DEF Waiting
  <2> QED
    BY <2>1, <2>2
<1> QED
  BY <1>2, <1>3

(* Entries may be changed but for what they name; one that keeps its       *)
(* callback and its ownership leaves all as it was.                        *)
LEMMA MapKeeps ==
  ASSUME NEW s, Good(s), NEW g \in [s.listed -> PubEntry],
         \A e \in s.listed : g[e].hash = e.hash /\ g[e].obj = e.obj /\ g[e].call \in {e.call, None}
  PROVE  LET t == [s EXCEPT !.listed = {g[e] : e \in s.listed}]
         IN /\ Good(t) /\ t.listed = {g[e] : e \in s.listed}
            /\ t.queue = s.queue /\ t.record = s.record /\ t.alive = s.alive /\ t.mined = s.mined
            /\ (\A e \in s.listed : g[e].owned = e.owned) => \A W : Owned(s, W) => Owned(t, W)
            /\ (\A e \in s.listed : g[e].call = e.call) => \A c : Waiting(t, c) = Waiting(s, c)
<1> DEFINE L == {g[e] : e \in s.listed}
           t == [s EXCEPT !.listed = L]
<1>1. L \subseteq PubEntry
  OBVIOUS
<1>2. /\ t \in Tables /\ t.listed = L
      /\ t.queue = s.queue /\ t.record = s.record /\ t.alive = s.alive /\ t.mined = s.mined
  <2> HIDE DEF L
  <2> QED
    BY <1>1 DEF Good, Tables
<1> HIDE DEF t
<1>3. \A x \in L : \E e \in s.listed : x = g[e]
  OBVIOUS
<1>4. \A e \in s.listed : g[e] \in L
  OBVIOUS
<1> HIDE DEF L
<1>5. Filed(s)
  BY DEF Good
<1>6. Filed(t)
  <2>1. ASSUME NEW x \in L, NEW y \in L, x.hash = y.hash PROVE x = y
    BY <1>3, <1>5, <2>1 DEF Filed
  <2>2. ASSUME NEW x \in L PROVE HashOf[x.obj] = x.hash
    BY <1>3, <1>5 DEF Filed
  <2>3. ASSUME NEW x \in L, NEW y \in L, x.call # None, x.call = y.call PROVE x = y
    <3>1. PICK e \in s.listed : x = g[e]
      BY <1>3
    <3>2. PICK f \in s.listed : y = g[f]
      BY <1>3
    <3>3. e.call # None /\ e.call = f.call
      BY <2>3, <3>1, <3>2
    <3>4. e = f
      BY <1>5, <3>3 DEF Filed
    <3> QED
      BY <3>1, <3>2, <3>4
  <2> QED
    BY <1>2, <1>5, <2>1, <2>2, <2>3 DEF Filed
<1>7. ASSUME \A e \in s.listed : g[e].owned = e.owned, NEW W, Owned(s, W) PROVE Owned(t, W)
  <2>1. ASSUME NEW x \in L
        PROVE  s.alive[x.obj] = "live" /\ (x.owned <=> s.record[x.hash] # x.obj)
               /\ (x.owned => x.obj \notin W)
    BY <1>3, <1>7 DEF Owned
  <2>2. ASSUME NEW o \in Objs, \E e \in s.listed : e.obj = o PROVE \E x \in L : x.obj = o
    BY <1>4, <2>2
  <2> QED
    BY <1>2, <1>7, <2>1, <2>2 DEF Owned
<1>8. ASSUME \A e \in s.listed : g[e].call = e.call, NEW c PROVE Waiting(t, c) = Waiting(s, c)
  <2>1. (\E x \in L : x.call = c) <=> \E e \in s.listed : e.call = c
    BY <1>3, <1>4, <1>8
  <2> QED
    BY <1>2, <2>1 DEF Waiting
<1>9. Good(t)
  BY <1>2, <1>6 DEF Good
<1> QED
  BY <1>2, <1>7, <1>8, <1>9 DEF t, L

(* A callback that is taken is counted where it goes.                      *)
LEMMA TakeKeeps ==
  ASSUME NEW s, Good(s), NEW h \in Txs
  PROVE  /\ Good(Take(s, h)) /\ Taken(s, h) \in Seq(Answer)
         /\ Take(s, h).queue = s.queue /\ Take(s, h).record = s.record
         /\ Take(s, h).alive = s.alive /\ Take(s, h).mined = s.mined
         /\ \A W : Owned(s, W) => Owned(Take(s, h), W)
         /\ \A c \in Calls : Waiting(Take(s, h), c) + InSeq(c, Taken(s, h)) = Waiting(s, c)
         /\ \A k : Listed(Take(s, h), k) <=> Listed(s, k)
<1> DEFINE g == [e \in s.listed |-> IF e.hash = h THEN [e EXCEPT !.call = None] ELSE e]
           t == [s EXCEPT !.listed = {g[e] : e \in s.listed}]
           E == EntriesOf(s, h)
<1>1. Take(s, h) = t
  BY DEF Take
<1>2. s.listed \subseteq PubEntry /\ Filed(s)
  BY DEF Good, Tables
<1>3. /\ g \in [s.listed -> PubEntry]
      /\ \A e \in s.listed : /\ g[e].hash = e.hash /\ g[e].obj = e.obj /\ g[e].owned = e.owned
                             /\ g[e].call = IF e.hash = h THEN None ELSE e.call
  BY <1>2 DEF PubEntry
<1> HIDE DEF g
<1>4. /\ Good(t) /\ t.listed = {g[e] : e \in s.listed}
      /\ t.queue = s.queue /\ t.record = s.record /\ t.alive = s.alive /\ t.mined = s.mined
      /\ \A W : Owned(s, W) => Owned(t, W)
  BY <1>3, MapKeeps
<1> HIDE DEF t
<1>5. E \subseteq s.listed /\ IsFiniteSet(E) /\ E \subseteq PubEntry
  BY <1>2, ListFinite, FS_Subset DEF EntriesOf
<1>6. /\ Taken(s, h) \in Seq(Answer)
      /\ \A c \in Calls : InSeq(c, Taken(s, h)) = IF \E e \in E : e.call = c THEN 1 ELSE 0
  BY <1>5, AnswersCount DEF Taken, Verdicts
<1>7. ASSUME NEW c \in Calls PROVE Waiting(t, c) + InSeq(c, Taken(s, h)) = Waiting(s, c)
  <2>1. c # None
    BY PublishAssumption
  <2>2. (\E x \in t.listed : x.call = c) <=> \E e \in s.listed : e.call = c /\ e.hash # h
    BY <1>3, <1>4, <2>1
  <2>3. (\E e \in E : e.call = c) <=> \E e \in s.listed : e.call = c /\ e.hash = h
    BY DEF EntriesOf
  <2>4. \A e, f \in s.listed : e.call = c /\ f.call = c => e = f
    BY <1>2, <2>1 DEF Filed
  <2>5. Waiting(t, c) = IF \E e \in s.listed : e.call = c /\ e.hash # h THEN 1 ELSE 0
    BY <2>2 DEF Waiting
  <2>6. InSeq(c, Taken(s, h)) = IF \E e \in s.listed : e.call = c /\ e.hash = h THEN 1 ELSE 0
    BY <1>6, <2>3
  <2>7. CASE \E e \in s.listed : e.call = c
    <3>1. PICK e \in s.listed : e.call = c
      BY <2>7
    <3>2. CASE e.hash = h
      BY <2>4, <2>5, <2>6, <3>1, <3>2 DEF Waiting
    <3>3. CASE e.hash # h
      BY <2>4, <2>5, <2>6, <3>1, <3>3 DEF Waiting
    <3> QED
      BY <3>2, <3>3
  <2>8. CASE ~ \E e \in s.listed : e.call = c
    BY <2>5, <2>6, <2>8 DEF Waiting
  <2> QED
    BY <2>7, <2>8
<1>8. ASSUME NEW k PROVE Listed(t, k) <=> Listed(s, k)
  BY <1>3, <1>4 DEF Listed, EntriesOf
<1> QED
  BY <1>1, <1>4, <1>6, <1>7, <1>8

(* Stem marks say nothing about who owns or who waits.                     *)
LEMMA StemKeeps ==
  ASSUME NEW s, Good(s), NEW h \in Txs, NEW p \in Peers \cup {None}
  PROVE  LET t == [s EXCEPT !.listed = {IF e.hash = h THEN [e EXCEPT !.stem = p] ELSE e : e \in @}]
         IN /\ Good(t)
            /\ t.queue = s.queue /\ t.record = s.record /\ t.alive = s.alive /\ t.mined = s.mined
            /\ \A W : Owned(s, W) => Owned(t, W)
            /\ \A c : Waiting(t, c) = Waiting(s, c)
<1> DEFINE g == [e \in s.listed |-> IF e.hash = h THEN [e EXCEPT !.stem = p] ELSE e]
           t == [s EXCEPT !.listed = {g[e] : e \in s.listed}]
<1>1. [s EXCEPT !.listed = {IF e.hash = h THEN [e EXCEPT !.stem = p] ELSE e : e \in @}] = t
  OBVIOUS
<1>2. s.listed \subseteq PubEntry
  BY DEF Good, Tables
<1>3. /\ g \in [s.listed -> PubEntry]
      /\ \A e \in s.listed : /\ g[e].hash = e.hash /\ g[e].obj = e.obj /\ g[e].owned = e.owned
                             /\ g[e].call = e.call
  BY <1>2 DEF PubEntry
<1> HIDE DEF g
<1>4. /\ Good(t)
      /\ t.queue = s.queue /\ t.record = s.record /\ t.alive = s.alive /\ t.mined = s.mined
      /\ \A W : Owned(s, W) => Owned(t, W)
      /\ \A c : Waiting(t, c) = Waiting(s, c)
  BY <1>3, MapKeeps
<1> QED
  BY <1>1, <1>4

(* Ownership that follows an object changes nothing once it is settled.    *)
Follower(s, h, x, e) ==
    /\ x.hash = e.hash /\ x.obj = e.obj
    /\ x.owned <=> (e.owned /\ ~ (s.record[h] # None /\ e.obj = s.record[h]))

LEMMA FollowsKeeps ==
  ASSUME NEW s, Good(s), NEW h \in Txs
  PROVE  LET t == OwnershipFollowsObject(s, h)
         IN /\ Good(t)
            /\ t.queue = s.queue /\ t.record = s.record /\ t.alive = s.alive /\ t.mined = s.mined
            /\ \A W : Owned(s, W) => Owned(t, W)
            /\ \A c : Waiting(t, c) = Waiting(s, c)
            /\ \A x \in t.listed : \E e \in s.listed : Follower(s, h, x, e)
            /\ \A e \in s.listed : \E x \in t.listed : x.obj = e.obj
<1> DEFINE g == [e \in s.listed |-> IF Held(s, h) /\ e.obj = s.record[h] THEN [e EXCEPT !.owned = FALSE]
                                    ELSE e]
           t == [s EXCEPT !.listed = {g[e] : e \in s.listed}]
<1>1. OwnershipFollowsObject(s, h) = t
  BY DEF OwnershipFollowsObject
<1>2. s.listed \subseteq PubEntry
  BY DEF Good, Tables
<1>3. /\ g \in [s.listed -> PubEntry]
      /\ \A e \in s.listed : /\ g[e].hash = e.hash /\ g[e].obj = e.obj /\ g[e].call = e.call
                             /\ g[e].owned = (e.owned /\ ~ (s.record[h] # None /\ e.obj = s.record[h]))
  <2>1. ASSUME NEW e \in s.listed
        PROVE  /\ g[e] \in PubEntry
               /\ g[e].hash = e.hash /\ g[e].obj = e.obj /\ g[e].call = e.call
               /\ g[e].owned = (e.owned /\ ~ (s.record[h] # None /\ e.obj = s.record[h]))
    <3>1. e \in PubEntry
      BY <1>2
    <3>2. CASE Held(s, h) /\ e.obj = s.record[h]
      BY <3>1, <3>2 DEF PubEntry, Held
    <3>3. CASE ~ (Held(s, h) /\ e.obj = s.record[h])
      BY <3>1, <3>3 DEF PubEntry, Held
    <3> QED
      BY <3>2, <3>3
  <2>2. g = [e \in s.listed |-> g[e]]
    OBVIOUS
  <2> HIDE DEF g
  <2> QED
    BY <2>1, <2>2
<1> HIDE DEF g
<1>4. /\ Good(t) /\ t.listed = {g[e] : e \in s.listed}
      /\ t.queue = s.queue /\ t.record = s.record /\ t.alive = s.alive /\ t.mined = s.mined
      /\ (\A e \in s.listed : g[e].owned = e.owned) => \A W : Owned(s, W) => Owned(t, W)
      /\ \A c : Waiting(t, c) = Waiting(s, c)
  BY <1>3, MapKeeps
<1> HIDE DEF t
<1>5. ASSUME NEW W, Owned(s, W) PROVE Owned(t, W)
  <2>1. ASSUME NEW e \in s.listed, s.record[h] # None, e.obj = s.record[h] PROVE ~ e.owned
    <3>1. HashOf[e.obj] = e.hash /\ HashOf[s.record[h]] = h
      BY <2>1 DEF Good, Filed
    <3> QED
      BY <1>5, <2>1, <3>1 DEF Owned
  <2>2. \A e \in s.listed : e.owned \in BOOLEAN
    BY <1>2 DEF PubEntry
  <2>3. \A e \in s.listed : g[e].owned = e.owned
    BY <1>3, <2>1, <2>2
  <2> QED
    BY <1>4, <1>5, <2>3
<1>6. \A e \in s.listed : Follower(s, h, g[e], e)
  BY <1>3 DEF Follower
<1>7. \A x \in t.listed : \E e \in s.listed : Follower(s, h, x, e)
  BY <1>4, <1>6
<1>8. \A e \in s.listed : \E x \in t.listed : x.obj = e.obj
  BY <1>3, <1>4
<1> QED
  BY <1>1, <1>4, <1>5, <1>7, <1>8

LEMMA RegisterKeeps ==
  ASSUME NEW s, Good(s), NEW o \in Objs, NEW keep \in BOOLEAN
  PROVE  LET t == Register(s, o, keep)
         IN /\ Good(t)
            /\ t.listed = s.listed /\ t.queue = s.queue /\ t.alive = s.alive /\ t.mined = s.mined
            /\ IF s.record[HashOf[o]] = None /\ keep THEN t.record = [s.record EXCEPT ![HashOf[o]] = o]
               ELSE t = s
<1> DEFINE t == Register(s, o, keep)
<1>1. HashOf[o] \in Txs
  BY PublishAssumption
<1>2. CASE s.record[HashOf[o]] = None /\ keep
  <2> DEFINE R == [s.record EXCEPT ![HashOf[o]] = o]
  <2>1. t = [s EXCEPT !.record = R]
    BY <1>2 DEF Register, Held
  <2>5. R \in [Txs -> Objs \cup {None}]
    BY <1>1 DEF Good, Tables
  <2> HIDE DEF R
  <2>6. /\ t \in Tables /\ t.record = R
        /\ t.listed = s.listed /\ t.queue = s.queue /\ t.alive = s.alive /\ t.mined = s.mined
    BY <2>1, <2>5 DEF Good, Tables
  <2>2. /\ t \in Tables /\ t.record = [s.record EXCEPT ![HashOf[o]] = o]
        /\ t.listed = s.listed /\ t.queue = s.queue /\ t.alive = s.alive /\ t.mined = s.mined
    BY <2>6 DEF R
  <2> HIDE DEF t
  <2>3. \A k \in Txs : t.record[k] = IF k = HashOf[o] THEN o ELSE s.record[k]
    BY <1>1, <2>2 DEF Good, Tables
  <2>4. Filed(t)
    BY <2>2, <2>3 DEF Good, Filed
  <2> QED
    BY <1>2, <2>2, <2>4 DEF Good, t
<1>3. CASE ~ (s.record[HashOf[o]] = None /\ keep)
  BY <1>3 DEF Register, Held
<1> QED
  BY <1>2, <1>3

(* The wallet takes an object out of a hand ...                            *)
LEMMA AdoptKeeps ==
  ASSUME NEW s, Good(s), NEW W, Owned(s, W), NEW o \in Objs, o \in W, s.record[HashOf[o]] = None,
         NEW t, t.record = [s.record EXCEPT ![HashOf[o]] = o], t.listed = s.listed, t.alive = s.alive
  PROVE  Owned(t, W \ {o})
<1>1. HashOf[o] \in Txs /\ o # None
  BY PublishAssumption
<1>2. \A k \in Txs : t.record[k] = IF k = HashOf[o] THEN o ELSE s.record[k]
  BY <1>1 DEF Good, Tables
<1>3. \A e \in s.listed : e.hash \in Txs /\ HashOf[e.obj] = e.hash /\ e.obj \in Objs
  BY DEF Good, Filed, Tables, PubEntry
<1>4. ASSUME NEW e \in s.listed
      PROVE  s.alive[e.obj] = "live" /\ (e.owned <=> t.record[e.hash] # e.obj)
             /\ (e.owned => e.obj \notin W \ {o})
  <2>1. CASE e.hash = HashOf[o]
    <3>1. e.obj # None /\ e.owned
      BY <1>3, <2>1, PublishAssumption DEF Owned
    <3> QED
      BY <1>2, <1>3, <2>1, <3>1 DEF Owned
  <2>2. CASE e.hash # HashOf[o]
    BY <1>2, <1>3, <2>2 DEF Owned
  <2> QED
    BY <2>1, <2>2
<1>5. \A h \in Txs : t.record[h] # None => s.alive[t.record[h]] = "live"
  BY <1>2 DEF Owned
<1>6. ASSUME NEW a \in Objs
      PROVE  /\ s.alive[a] # "twice"
             /\ s.alive[a] = "live" => \/ a \in W \ {o} \/ t.record[HashOf[a]] = a
                                       \/ \E e \in s.listed : e.obj = a
  <2>1. HashOf[a] \in Txs /\ a # None
    BY PublishAssumption
  <2> QED
    BY <1>2, <2>1 DEF Owned
<1> QED
  BY <1>4, <1>5, <1>6 DEF Owned

(* ... or that of an entry, which is not the list's any more.              *)
LEMMA AdoptListed ==
  ASSUME NEW s, Good(s), NEW W, Owned(s, W), NEW e \in s.listed, NEW keep \in BOOLEAN
  PROVE  Owned(OwnershipFollowsObject(Register(s, e.obj, keep), e.hash), W)
<1> DEFINE h == e.hash
           r == Register(s, e.obj, keep)
           t == OwnershipFollowsObject(r, h)
<1>1. e.obj \in Objs /\ h \in Txs /\ HashOf[e.obj] = h /\ e.obj # None
  BY PublishAssumption DEF Good, Filed, Tables, PubEntry
<1>2. /\ Good(r) /\ r.listed = s.listed /\ r.alive = s.alive
      /\ IF s.record[h] = None /\ keep THEN r.record = [s.record EXCEPT ![h] = e.obj] ELSE r = s
  BY <1>1, RegisterKeeps
<1> HIDE DEF r
<1> HIDE DEF h
<1>3. /\ t.record = r.record /\ t.alive = r.alive
      /\ Owned(r, W) => Owned(t, W)
      /\ \A x \in t.listed : \E f \in r.listed : Follower(r, h, x, f)
      /\ \A f \in r.listed : \E x \in t.listed : x.obj = f.obj
  BY <1>1, <1>2, FollowsKeeps
<1> HIDE DEF t
<1>4. CASE ~ (s.record[h] = None /\ keep)
  BY <1>2, <1>3, <1>4 DEF r, t, h
<1>5. CASE s.record[h] = None /\ keep
  <2>1. \A k \in Txs : t.record[k] = IF k = h THEN e.obj ELSE s.record[k]
    BY <1>1, <1>2, <1>3, <1>5 DEF Good, Tables
  <2>2. t.alive = s.alive
    BY <1>2, <1>3
  <2>3. ASSUME NEW x \in t.listed
        PROVE  s.alive[x.obj] = "live" /\ (x.owned <=> t.record[x.hash] # x.obj)
               /\ (x.owned => x.obj \notin W)
    <3>1. PICK f \in s.listed : /\ x.hash = f.hash /\ x.obj = f.obj
                                /\ x.owned <=> (f.owned /\ ~ (r.record[h] # None /\ f.obj = r.record[h]))
      BY <1>2, <1>3 DEF Follower
    <3>2. f.hash \in Txs /\ f.owned \in BOOLEAN /\ HashOf[f.obj] = f.hash
      BY DEF Good, Filed, Tables, PubEntry
    <3>3. s.alive[f.obj] = "live" /\ (f.owned <=> s.record[f.hash] # f.obj) /\ (f.owned => f.obj \notin W)
      BY DEF Owned
    <3>4. CASE f.hash = h
      <4>1. f = e
        BY <3>4 DEF Good, Filed, h
      <4>2. r.record[h] = e.obj
        BY <1>1, <1>3, <2>1
      <4> QED
        BY <1>1, <2>1, <3>1, <3>2, <3>3, <4>1, <4>2
    <3>5. CASE f.hash # h
      <4>1. r.record[h] = e.obj /\ t.record[f.hash] = s.record[f.hash]
        BY <1>1, <1>3, <2>1, <3>2, <3>5
      <4>2. f.obj # e.obj
        BY <1>1, <3>2, <3>5
      <4> QED
        BY <3>1, <3>2, <3>3, <4>1, <4>2
    <3> QED
      BY <3>4, <3>5
  <2>4. ASSUME NEW k \in Txs, t.record[k] # None PROVE s.alive[t.record[k]] = "live"
    BY <2>1, <2>4 DEF Owned
  <2>5. ASSUME NEW a \in Objs
        PROVE  /\ s.alive[a] # "twice"
               /\ s.alive[a] = "live" => \/ a \in W \/ t.record[HashOf[a]] = a
                                         \/ \E x \in t.listed : x.obj = a
    <3>1. HashOf[a] \in Txs /\ a # None
      BY PublishAssumption
    <3>2. (\E f \in s.listed : f.obj = a) => \E x \in t.listed : x.obj = a
      BY <1>2, <1>3
    <3>3. s.record[HashOf[a]] = a => t.record[HashOf[a]] = a
      BY <1>5, <2>1, <3>1
    <3> QED
      BY <3>2, <3>3 DEF Owned
  <2>6. \A a \in W : s.alive[a] = "live"
    BY DEF Owned
  <2>7. Owned(t, W)
    BY <2>2, <2>3, <2>4, <2>5, <2>6 DEF Owned
  <2> QED
    BY <2>7 DEF r, t, h
<1> QED
  BY <1>4, <1>5

----------------------------------------------------------------------------
(* Objects that are released and objects that are built. *)

LEMMA FreedIs ==
  ASSUME NEW A \in [Objs -> {"unborn", "live", "freed", "twice"}], NEW S
  PROVE  /\ Freed(A, S) \in [Objs -> {"unborn", "live", "freed", "twice"}]
         /\ \A o \in Objs : Freed(A, S)[o] = IF o \notin S THEN A[o]
                                             ELSE IF A[o] = "live" THEN "freed" ELSE "twice"
BY DEF Freed

(* A hand releases what the wallet did not take.                           *)
LEMMA ReleaseKeeps ==
  ASSUME NEW s, Good(s), NEW W \in SUBSET Objs, Owned(s, W),
         NEW o \in Objs, o \in W, s.record[HashOf[o]] # o,
         NEW t, t.alive = Freed(s.alive, {o}), t.record = s.record, t.listed = s.listed
  PROVE  Owned(t, W \ {o})
<1>1. s.alive \in [Objs -> {"unborn", "live", "freed", "twice"}]
  BY DEF Good, Tables
<1>2. \A a \in Objs : t.alive[a] = IF a # o THEN s.alive[a]
                                   ELSE IF s.alive[a] = "live" THEN "freed" ELSE "twice"
  BY <1>1, FreedIs
<1>3. s.alive[o] = "live"
  BY DEF Owned
<1>4. \A e \in s.listed : e.obj \in Objs /\ e.hash \in Txs /\ HashOf[e.obj] = e.hash
  BY DEF Good, Filed, Tables, PubEntry
<1>5. \A e \in s.listed : e.obj # o
  BY <1>4 DEF Owned
<1>6. \A h \in Txs : s.record[h] # None => s.record[h] \in Objs /\ s.record[h] # o
  BY DEF Good, Filed, Tables
<1>7. \A e \in t.listed : t.alive[e.obj] = "live" /\ (e.owned <=> t.record[e.hash] # e.obj)
                          /\ (e.owned => e.obj \notin W \ {o})
  BY <1>2, <1>4, <1>5 DEF Owned
<1>8. \A h \in Txs : t.record[h] # None => t.alive[t.record[h]] = "live"
  <2>1. \A h \in Txs : s.record[h] # None => s.alive[s.record[h]] = "live"
    BY DEF Owned
  <2> QED
    BY <1>2, <1>6, <2>1
<1>9. \A a \in W \ {o} : t.alive[a] = "live"
  <2>1. \A a \in W : s.alive[a] = "live"
    BY DEF Owned
  <2> QED
    BY <1>2, <2>1
<1>10. \A a \in Objs :
         /\ t.alive[a] # "twice"
         /\ t.alive[a] = "live" => \/ a \in W \ {o} \/ t.record[HashOf[a]] = a
                                   \/ \E e \in t.listed : e.obj = a
  BY <1>2, <1>3 DEF Owned
<1> QED
  BY <1>7, <1>8, <1>9, <1>10 DEF Owned

(* A hand builds an object, or takes up the wallet's own.                  *)
LEMMA BornKeeps ==
  ASSUME NEW s, Good(s), NEW o \in Objs
  PROVE  LET t == Born(s, o)
         IN /\ Good(t) /\ t.listed = s.listed /\ t.queue = s.queue /\ t.record = s.record
            /\ t.mined = s.mined
            /\ \A W \in SUBSET Objs :
                 Owned(s, W) /\ (s.alive[o] = "unborn" \/ s.record[HashOf[o]] = o \/ o \in W)
                 => Owned(t, W \cup {o})
<1> DEFINE A == [s.alive EXCEPT ![o] = "live"]
           t == [s EXCEPT !.alive = A, !.queue = s.queue]
<1>1. s \in Tables /\ Filed(s)
  BY DEF Good
<1>2. A \in [Objs -> {"unborn", "live", "freed", "twice"}] /\ s.queue \in Seq(Answer)
  BY <1>1 DEF Tables
<1>3. Born(s, o) = t
  BY <1>1 DEF Born, Tables
<1>4. \A a \in Objs : A[a] = IF a = o THEN "live" ELSE s.alive[a]
  BY <1>1 DEF Tables
<1> HIDE DEF A
<1>7. t = [s EXCEPT !.alive = A, !.queue = s.queue]
  OBVIOUS
<1> HIDE DEF t
<1>5. /\ Good(t) /\ t.listed = s.listed /\ t.queue = s.queue /\ t.record = s.record
      /\ t.alive = A /\ t.mined = s.mined
  <2>1. /\ t \in Tables /\ t.listed = s.listed /\ t.queue = s.queue /\ t.record = s.record
        /\ t.alive = A /\ t.mined = s.mined
    BY <1>1, <1>2, <1>7 DEF Tables
  <2>2. Filed(t)
    BY <1>1, <2>1 DEF Filed
  <2> QED
    BY <2>1, <2>2 DEF Good
<1>6. ASSUME NEW W \in SUBSET Objs, Owned(s, W),
             s.alive[o] = "unborn" \/ s.record[HashOf[o]] = o \/ o \in W
      PROVE  Owned(t, W \cup {o})
  <2>1. \A e \in s.listed : e.obj \in Objs /\ e.hash \in Txs /\ HashOf[e.obj] = e.hash
    BY <1>1 DEF Filed, Tables, PubEntry
  <2>2. \A e \in s.listed : e.obj = o => ~ e.owned
    BY <1>6, <2>1 DEF Owned
  <2>3. \A e \in t.listed : t.alive[e.obj] = "live" /\ (e.owned <=> t.record[e.hash] # e.obj)
                            /\ (e.owned => e.obj \notin W \cup {o})
    BY <1>4, <1>5, <1>6, <2>1, <2>2 DEF Owned
  <2>4. \A h \in Txs : t.record[h] # None => t.alive[t.record[h]] = "live"
    BY <1>1, <1>4, <1>5, <1>6 DEF Owned, Tables
  <2>5. \A a \in W \cup {o} : t.alive[a] = "live"
    BY <1>4, <1>5, <1>6 DEF Owned
  <2>6. \A a \in Objs :
         /\ t.alive[a] # "twice"
         /\ t.alive[a] = "live" => \/ a \in W \cup {o} \/ t.record[HashOf[a]] = a
                                   \/ \E e \in t.listed : e.obj = a
    BY <1>4, <1>5, <1>6 DEF Owned
  <2> QED
    BY <2>3, <2>4, <2>5, <2>6 DEF Owned
<1> QED
  BY <1>3, <1>5, <1>6 DEF t

(* The wallet's own object may be in a hand or not.                        *)
LEMMA SharedKeeps ==
  ASSUME NEW s, NEW W, Owned(s, W), NEW o, s.record[HashOf[o]] = o
  PROVE  Owned(s, W \ {o})
BY DEF Owned

----------------------------------------------------------------------------
(* Entries that leave the list, and records that leave the wallet. *)

LEMMA DropKeeps ==
  ASSUME NEW s, Good(s), NEW E, E \subseteq s.listed, NEW error \in Verdicts
  PROVE  LET t == DropEntries(s, E, error)
         IN /\ Good(t) /\ t.listed = s.listed \ E /\ t.record = s.record /\ t.mined = s.mined
            /\ t.queue \in Seq(Answer)
            /\ \A c \in Calls : Waiting(t, c) + InSeq(c, t.queue) = Waiting(s, c) + InSeq(c, s.queue)
            /\ \A W \in SUBSET Objs : Owned(s, W) => Owned(t, W)
<1> DEFINE t == DropEntries(s, E, error)
           X == {e.obj : e \in {f \in E : f.owned}}
           A == Freed(s.alive, X)
           q == AnswersTo(E, error)
<1>1. s \in Tables /\ Filed(s)
  BY DEF Good
<1>2. s.listed \subseteq PubEntry /\ s.queue \in Seq(Answer)
  BY <1>1 DEF Tables
<1>3. /\ A \in [Objs -> {"unborn", "live", "freed", "twice"}]
      /\ \A o \in Objs : A[o] = IF o \notin X THEN s.alive[o]
                                ELSE IF s.alive[o] = "live" THEN "freed" ELSE "twice"
  BY <1>1, FreedIs DEF Tables
<1>4. IsFiniteSet(E) /\ E \subseteq PubEntry
  BY <1>2, ListFinite, FS_Subset
<1>5. /\ q \in Seq(Answer)
      /\ \A c \in Calls : InSeq(c, q) = IF \E e \in E : e.call = c THEN 1 ELSE 0
  BY <1>4, AnswersCount
<1>6. /\ s.queue \o q \in Seq(Answer)
      /\ \A c \in Calls : InSeq(c, s.queue \o q) = InSeq(c, s.queue) + InSeq(c, q)
  BY <1>2, <1>5, InSeqConcat
<1>7. t = [s EXCEPT !.listed = s.listed \ E, !.queue = s.queue \o q, !.alive = A]
  BY <1>1 DEF DropEntries, Tables
<1>8. \A o : o \in X <=> \E e \in E : e.owned /\ e.obj = o
  OBVIOUS
<1> HIDE DEF t, A, q, X
<1>9. /\ t \in Tables /\ t.listed = s.listed \ E /\ t.record = s.record /\ t.mined = s.mined
      /\ t.queue = s.queue \o q /\ t.alive = A
  BY <1>1, <1>3, <1>6, <1>7 DEF Tables
<1>10. Good(t)
  BY <1>1, <1>9 DEF Filed, Good
<1>11. ASSUME NEW c \in Calls
       PROVE  Waiting(t, c) + InSeq(c, t.queue) = Waiting(s, c) + InSeq(c, s.queue)
  <2>1. \A e, f \in s.listed : e.call = c /\ f.call = c => e = f
    BY <1>1, PublishAssumption DEF Filed
  <2>2. InSeq(c, s.queue) \in Nat /\ InSeq(c, q) \in Nat
    BY <1>2, <1>5, InSeqIsNat
  <2>3. CASE \E e \in E : e.call = c
    <3>1. Waiting(s, c) = 1 /\ Waiting(t, c) = 0
      BY <1>9, <2>1, <2>3 DEF Waiting
    <3>2. InSeq(c, q) = 1
      BY <1>5, <2>3
    <3>3. InSeq(c, t.queue) = InSeq(c, s.queue) + 1
      BY <1>6, <1>9, <2>2, <3>2
    <3> QED
      BY <2>2, <3>1, <3>3
  <2>4. CASE ~ \E e \in E : e.call = c
    <3>1. Waiting(s, c) = Waiting(t, c) /\ Waiting(t, c) \in Nat
      BY <1>9, <2>4 DEF Waiting
    <3>2. InSeq(c, q) = 0
      BY <1>5, <2>4
    <3>3. InSeq(c, t.queue) = InSeq(c, s.queue)
      BY <1>6, <1>9, <2>2, <3>2
    <3> QED
      BY <3>1, <3>3
  <2> QED
    BY <2>3, <2>4
<1>12. ASSUME NEW W \in SUBSET Objs, Owned(s, W) PROVE Owned(t, W)
  <2>1. \A e \in s.listed : e.obj \in Objs /\ e.hash \in Txs /\ HashOf[e.obj] = e.hash
    BY <1>1, <1>2 DEF Filed, PubEntry
  <2>2. /\ \A e \in s.listed : s.alive[e.obj] = "live" /\ (e.owned <=> s.record[e.hash] # e.obj)
                               /\ (e.owned => e.obj \notin W)
        /\ \A h \in Txs : s.record[h] # None => s.alive[s.record[h]] = "live"
        /\ \A o \in W : s.alive[o] = "live"
        /\ \A o \in Objs :
          /\ s.alive[o] # "twice"
          /\ s.alive[o] = "live" => \/ o \in W \/ s.record[HashOf[o]] = o
                                    \/ \E e \in s.listed : e.obj = o
    BY <1>12 DEF Owned
  <2>3. \A e, f \in s.listed : e.obj = f.obj => e = f
    BY <1>1, <2>1 DEF Filed
  <2>4. \A h \in Txs : s.record[h] # None => s.record[h] \in Objs /\ HashOf[s.record[h]] = h
    BY <1>1 DEF Filed, Tables
  <2>5. \A e \in s.listed \ E : e.obj \notin X
    BY <1>8, <2>3
  <2>6. \A h \in Txs : s.record[h] # None => s.record[h] \notin X
    BY <1>8, <2>1, <2>2, <2>4
  <2>7. \A o \in W : o \notin X
    BY <1>8, <2>2
  <2>8. \A o \in X : s.alive[o] = "live"
    BY <1>8, <2>2
  <2>9. ASSUME NEW o \in Objs
        PROVE  /\ t.alive[o] # "twice"
               /\ t.alive[o] = "live" => \/ o \in W \/ t.record[HashOf[o]] = o
                                         \/ \E e \in t.listed : e.obj = o
    BY <1>3, <1>8, <1>9, <2>1, <2>2, <2>8
  <2>10. \A e \in t.listed : t.alive[e.obj] = "live" /\ (e.owned <=> t.record[e.hash] # e.obj)
                             /\ (e.owned => e.obj \notin W)
    BY <1>3, <1>9, <2>1, <2>2, <2>5
  <2>11. \A h \in Txs : t.record[h] # None => t.alive[t.record[h]] = "live"
    BY <1>3, <1>9, <2>2, <2>4, <2>6
  <2>12. \A o \in W : t.alive[o] = "live"
    BY <1>3, <1>9, <2>2, <2>7
  <2> QED
    BY <2>9, <2>10, <2>11, <2>12 DEF Owned
<1> QED
  BY <1>6, <1>5, <1>9, <1>10, <1>11, <1>12 DEF t

(* The wallet lets go of its records of G, which no entry names.           *)
Forget(s, G) ==
    [s EXCEPT !.record = [g \in Txs |-> IF g \in G THEN None ELSE @[g]],
              !.alive  = Freed(@, {s.record[g] : g \in G})]

LEMMA ForgetKeeps ==
  ASSUME NEW s, Good(s), NEW G \in SUBSET Txs
  PROVE  LET t == Forget(s, G)
         IN /\ Good(t) /\ t.listed = s.listed /\ t.queue = s.queue /\ t.mined = s.mined
            /\ \A g \in Txs : t.record[g] = IF g \in G THEN None ELSE s.record[g]
            /\ \A W \in SUBSET Objs :
                 /\ Owned(s, W)
                 /\ \A g \in G : s.record[g] # None /\ s.record[g] \notin W
                 /\ \A e \in s.listed : e.hash \notin G
                 => Owned(t, W)
<1> DEFINE t == Forget(s, G)
           X == {s.record[g] : g \in G}
           A == Freed(s.alive, X)
           R == [g \in Txs |-> IF g \in G THEN None ELSE s.record[g]]
<1>1. s \in Tables /\ Filed(s)
  BY DEF Good
<1>2. /\ A \in [Objs -> {"unborn", "live", "freed", "twice"}]
      /\ \A o \in Objs : A[o] = IF o \notin X THEN s.alive[o]
                                ELSE IF s.alive[o] = "live" THEN "freed" ELSE "twice"
  BY <1>1, FreedIs DEF Tables
<1>3. R \in [Txs -> Objs \cup {None}] /\ \A g \in Txs : R[g] = IF g \in G THEN None ELSE s.record[g]
  BY <1>1 DEF Tables
<1>4. t = [s EXCEPT !.record = R, !.alive = A]
  BY <1>1 DEF Forget, Tables
<1>5. \A o : o \in X <=> \E g \in G : s.record[g] = o
  OBVIOUS
<1> HIDE DEF t, A, R, X
<1>6. /\ t \in Tables /\ t.listed = s.listed /\ t.record = R /\ t.mined = s.mined
      /\ t.queue = s.queue /\ t.alive = A
  BY <1>1, <1>2, <1>3, <1>4 DEF Tables
<1>7. Good(t)
  BY <1>1, <1>3, <1>6 DEF Filed, Good
<1>8. ASSUME NEW W \in SUBSET Objs, Owned(s, W),
             \A g \in G : s.record[g] # None /\ s.record[g] \notin W,
             \A e \in s.listed : e.hash \notin G
      PROVE  Owned(t, W)
  <2>1. \A e \in s.listed : e.obj \in Objs /\ e.hash \in Txs /\ HashOf[e.obj] = e.hash
    BY <1>1 DEF Filed, Tables, PubEntry
  <2>2. /\ \A e \in s.listed : s.alive[e.obj] = "live" /\ (e.owned <=> s.record[e.hash] # e.obj)
                               /\ (e.owned => e.obj \notin W)
        /\ \A h \in Txs : s.record[h] # None => s.alive[s.record[h]] = "live"
        /\ \A o \in W : s.alive[o] = "live"
        /\ \A o \in Objs :
          /\ s.alive[o] # "twice"
          /\ s.alive[o] = "live" => \/ o \in W \/ s.record[HashOf[o]] = o
                                    \/ \E e \in s.listed : e.obj = o
    BY <1>8 DEF Owned
  <2>3. \A h \in Txs : s.record[h] # None => s.record[h] \in Objs /\ HashOf[s.record[h]] = h
    BY <1>1 DEF Filed, Tables
  <2>4. \A o \in X : o \in Objs /\ HashOf[o] \in G /\ s.alive[o] = "live" /\ o \notin W
    BY <1>5, <1>8, <2>2, <2>3
  <2>5. \A e \in s.listed : e.obj \notin X
    BY <1>8, <2>1, <2>4
  <2>6. \A h \in Txs : s.record[h] # None /\ h \notin G => s.record[h] \notin X
    BY <2>3, <2>4
  <2>7. ASSUME NEW o \in Objs
        PROVE  /\ t.alive[o] # "twice"
               /\ t.alive[o] = "live" => \/ o \in W \/ t.record[HashOf[o]] = o
                                         \/ \E e \in t.listed : e.obj = o
    <3>1. HashOf[o] \in Txs
      BY PublishAssumption
    <3>2. CASE o \in X
      BY <1>2, <1>6, <2>4, <3>2
    <3>3. CASE o \notin X
      <4>1. t.alive[o] = s.alive[o]
        BY <1>2, <1>6, <3>3
      <4>2. s.record[HashOf[o]] = o => HashOf[o] \notin G
        BY <1>5, <3>3
      <4> QED
        BY <1>3, <1>6, <2>2, <3>1, <4>1, <4>2
    <3> QED
      BY <3>2, <3>3
  <2>8. \A e \in t.listed : t.alive[e.obj] = "live" /\ (e.owned <=> t.record[e.hash] # e.obj)
                             /\ (e.owned => e.obj \notin W)
    BY <1>2, <1>3, <1>6, <1>8, <2>1, <2>2, <2>5
  <2>9. \A h \in Txs : t.record[h] # None => t.alive[t.record[h]] = "live"
    BY <1>2, <1>3, <1>6, <2>2, <2>3, <2>6
  <2>10. \A o \in W : t.alive[o] = "live"
    BY <1>2, <1>6, <2>2, <2>4
  <2> QED
    BY <2>7, <2>8, <2>9, <2>10 DEF Owned
<1> QED
  BY <1>3, <1>6, <1>7, <1>8 DEF t

(* What depends on h stays within any set that is closed under spending.   *)
LEMMA DependantsWithin ==
  ASSUME NEW s, NEW h \in Txs, NEW P \in SUBSET Txs, h \in P,
         \A d \in Ours : /\ Held(s, d) /\ (s.record[d] \notin s.mined \/ s.record[h] \in s.mined)
                         /\ Spends[d] \cap P # {}
                         => d \in P
  PROVE  Dependants(s, h) \subseteq P
<1> DEFINE M == Cardinality(Txs)
           More(X) == X \cup {d \in Ours : /\ Held(s, d)
                                           /\ s.record[d] \notin s.mined \/ s.record[h] \in s.mined
                                           /\ Spends[d] \cap X # {}}
           step == [X \in SUBSET P |-> More(X)]
           Eq(w) == w = [n \in 0..M |-> IF n = 0 THEN {h} ELSE More(w[n - 1])]
           walk == CHOOSE w : Eq(w)
<1>1. M \in Nat
  BY PublishAssumption, FS_CardinalityType
<1>2. Dependants(s, h) = walk[M]
  BY DEF Dependants
<1>3. \A X \in SUBSET P : More(X) \in SUBSET P
  OBVIOUS
<1>4. step \in [SUBSET P -> SUBSET P] /\ {h} \in SUBSET P
  BY <1>3
<1> HIDE DEF More
<1>5. \A X \in SUBSET P : step[X] = More(X)
  OBVIOUS
<1> HIDE DEF M, step
<1>6. PICK f \in [0..M -> SUBSET P] : f[0] = {h} /\ \A n \in 1..M : f[n] = step[f[n - 1]]
  <2> DEFINE SP == SUBSET P
             first == {h}
  <2>1. step \in [SP -> SP] /\ first \in SP
    BY <1>4
  <2> HIDE DEF SP, first
  <2>2. \E f : Iteration(f, SP, first, step, M)
    BY <1>1, <2>1, Iterates
  <2>3. \E f \in [0..M -> SP] : f[0] = first /\ \A n \in 1..M : f[n] = step[f[n - 1]]
    BY <2>2 DEF Iteration
  <2> QED
    BY <2>3 DEF SP, first
<1>7. Eq(f)
  <2> DEFINE g == [n \in 0..M |-> IF n = 0 THEN {h} ELSE More(f[n - 1])]
  <2>1. ASSUME NEW n \in 0..M PROVE f[n] = g[n]
    <3>1. CASE n = 0
      BY <1>6, <3>1
    <3>2. CASE n # 0
      <4>1. n \in 1..M /\ n - 1 \in 0..M
        BY <1>1, <3>2
      <4>2. f[n] = More(f[n - 1])
        BY <1>5, <1>6, <4>1
      <4> QED
        BY <3>2, <4>2
    <3> QED
      BY <3>1, <3>2
  <2>2. DOMAIN f = 0..M /\ DOMAIN g = 0..M
    BY <1>6
  <2> HIDE DEF g
  <2>3. f = g
    BY <1>6, <2>1, <2>2 DEF g
  <2> QED
    BY <2>3 DEF g
<1> HIDE DEF Eq
<1>8. Eq(walk)
  BY <1>7
<1> HIDE DEF walk
<1>9. walk[0] = {h} /\ \A n \in 1..M : walk[n] = More(walk[n - 1])
  <2>1. \A n \in 0..M : walk[n] = IF n = 0 THEN {h} ELSE More(walk[n - 1])
    BY <1>8 DEF Eq
  <2>2. 0 \in 0..M /\ \A n \in 1..M : n \in 0..M /\ n # 0
    BY <1>1
  <2> QED
    BY <2>1, <2>2
<1> DEFINE T == {n \in 0..M : ~ (walk[n] \in SUBSET P)}
<1>10. ASSUME T # {} PROVE FALSE
  <2>0. T \subseteq Nat
    BY <1>1
  <2>1. PICK k \in T : \A j \in T : k <= j
    <3> HIDE DEF T
    <3> QED
      BY <1>10, <2>0, Least
  <2>2. k # 0
    BY <1>4, <1>9, <2>1
  <2>3. k \in 1..M /\ k - 1 \in 0..M /\ ~ (k <= k - 1)
    BY <1>1, <2>1, <2>2
  <2>4. walk[k - 1] \in SUBSET P
    BY <2>1, <2>3
  <2> QED
    BY <1>3, <1>9, <2>1, <2>3, <2>4 DEF More
<1> QED
  BY <1>1, <1>2, <1>10

Gone(s, H) == UNION {Dependants(s, h) : h \in {g \in H : Held(s, g)}}

LEMMA GoneIsHeld ==
  ASSUME NEW s, NEW H \in SUBSET Txs
  PROVE  Gone(s, H) \subseteq {g \in Txs : s.record[g] # None}
<1> DEFINE P == {g \in Txs : s.record[g] # None}
<1>1. ASSUME NEW h \in H, Held(s, h) PROVE Dependants(s, h) \subseteq P
  <2>1. h \in P /\ P \in SUBSET Txs
    BY <1>1 DEF Held
  <2>2. \A d \in Ours : Held(s, d) => d \in P
    BY PublishAssumption DEF Held
  <2> HIDE DEF P
  <2> QED
    BY <2>1, <2>2, DependantsWithin
<1> QED
  BY <1>1 DEF Gone

(* The sweep takes no send along.                                          *)
LEMMA SweepSparesSends ==
  ASSUME SendsBuildOnLoneReceives, NEW s, NEW H \in SUBSET Unrelayed(s)
  PROVE  Gone(s, H) \cap Sends = {}
<1>1. SUFFICES ASSUME NEW h \in Unrelayed(s) PROVE Dependants(s, h) \cap Sends = {}
  BY DEF Gone
<1> DEFINE P == {h} \cup {x \in Ours \ Sends : \E y \in Ours \ Sends : y \in Spends[x]}
<1>2. /\ h \in Ours \ Sends /\ h \in Txs /\ s.record[h] \notin s.mined
      /\ \A d \in Sends : ~ (Unconfirmed(s, d) /\ h \in Spends[d])
  BY PublishAssumption DEF Unrelayed, Unconfirmed
<1>3. h \in P /\ P \in SUBSET Txs /\ P \cap Sends = {}
  BY <1>2, PublishAssumption
<1>4. ASSUME NEW d \in Ours, Held(s, d), s.record[d] \notin s.mined \/ s.record[h] \in s.mined,
             Spends[d] \cap P # {}
      PROVE  d \in P
  <2>1. PICK x \in P : x \in Spends[d]
    BY <1>4
  <2>2. Unconfirmed(s, d)
    BY <1>2, <1>4 DEF Unconfirmed
  <2>3. CASE x = h
    BY <1>2, <2>1, <2>2, <2>3
  <2>4. CASE x # h
    <3>1. PICK y \in Ours \ Sends : x \in Ours \ Sends /\ y \in Spends[x]
      BY <2>4
    <3>2. d \notin Sends
      BY <2>1, <3>1 DEF SendsBuildOnLoneReceives
    <3> QED
      BY <2>1, <3>1, <3>2
  <2> QED
    BY <2>3, <2>4
<1> HIDE DEF P
<1>5. Dependants(s, h) \subseteq P
  BY <1>2, <1>3, <1>4, DependantsWithin
<1> QED
  BY <1>3, <1>5

(* The wallet removes records, and the list releases their entries.        *)
LEMMA RemoveKeeps ==
  ASSUME NEW s, Good(s), NEW H \in SUBSET Txs
  PROVE  LET t == RemoveAndPurge(s, H)
         IN /\ Good(t) /\ t.listed \subseteq s.listed /\ t.mined = s.mined
            /\ \A c \in Calls : Waiting(t, c) + InSeq(c, t.queue) = Waiting(s, c) + InSeq(c, s.queue)
            /\ \A g \in Txs : t.record[g] = IF g \in Gone(s, H) THEN None ELSE s.record[g]
            /\ \A e \in t.listed : e.hash \notin Gone(s, H)
            /\ \A W \in SUBSET Objs :
                 Owned(s, W) /\ (\A o \in W : HashOf[o] \notin Gone(s, H)) => Owned(t, W)
<1> DEFINE G == Gone(s, H)
           L == {e \in s.listed : e.hash \in G}
           u == DropEntries(s, L, "ECANCELED")
           r == WalletRemove(s, H)
           t == RemoveAndPurge(s, H)
<1>1. s \in Tables /\ Filed(s)
  BY DEF Good
<1>2. G \in SUBSET Txs /\ \A g \in G : s.record[g] # None
  BY GoneIsHeld
<1>3. /\ Good(u) /\ u.listed = s.listed \ L /\ u.record = s.record /\ u.mined = s.mined
      /\ \A c \in Calls : Waiting(u, c) + InSeq(c, u.queue) = Waiting(s, c) + InSeq(c, s.queue)
      /\ \A W \in SUBSET Objs : Owned(s, W) => Owned(u, W)
  <2> DEFINE verdict == "ECANCELED"
  <2>1. L \subseteq s.listed /\ verdict \in Verdicts
    BY DEF Verdicts
  <2>2. u = DropEntries(s, L, verdict)
    OBVIOUS
  <2> HIDE DEF L, verdict, u, r, t, G
  <2>3. LET d == DropEntries(s, L, verdict)
         IN /\ Good(d) /\ d.listed = s.listed \ L /\ d.record = s.record /\ d.mined = s.mined
            /\ d.queue \in Seq(Answer)
            /\ \A c \in Calls : Waiting(d, c) + InSeq(c, d.queue) = Waiting(s, c) + InSeq(c, s.queue)
            /\ \A W \in SUBSET Objs : Owned(s, W) => Owned(d, W)
    BY <2>1, DropKeeps, Zenon
  <2> QED
    BY <2>2, <2>3
<1> DEFINE v == Forget(u, G)
<1>4. t = v
  <2> HIDE DEF G
  <2> DEFINE R == [g \in Txs |-> IF g \in G THEN None ELSE s.record[g]]
             X == {s.record[g] : g \in G}
             Y == {e.obj : e \in {f \in L : f.owned}}
  <2>1. r = [s EXCEPT !.record = R, !.alive = Freed(s.alive, X)]
    BY <1>1 DEF WalletRemove, G, Gone, Tables
  <2>2. r.listed = s.listed /\ \A g \in Txs : r.record[g] = IF g \in G THEN None ELSE s.record[g]
    BY <1>1, <2>1 DEF Tables
  <2>3. Released(s, r) = L
    <3>1. \A e \in s.listed : e.hash \in Txs
      BY <1>1 DEF Tables, PubEntry
    <3> QED
      BY <1>2, <2>2, <3>1 DEF Released, Held
  <2>4. t = DropEntries(r, L, "ECANCELED")
    BY <2>3 DEF RemoveAndPurge
  <2>5. Freed(Freed(s.alive, X), Y) = Freed(Freed(s.alive, Y), X)
    BY <1>1 DEF Freed, Tables
  <2> HIDE DEF X, Y, R, L
  <2>6. t = [s EXCEPT !.listed = s.listed \ L, !.queue = s.queue \o AnswersTo(L, "ECANCELED"),
                      !.record = R, !.alive = Freed(Freed(s.alive, X), Y)]
    BY <1>1, <2>1, <2>4 DEF DropEntries, Tables, Y
  <2>7. v = [s EXCEPT !.listed = s.listed \ L, !.queue = s.queue \o AnswersTo(L, "ECANCELED"),
                      !.record = R, !.alive = Freed(Freed(s.alive, Y), X)]
    <3>1. u = [s EXCEPT !.listed = s.listed \ L, !.queue = s.queue \o AnswersTo(L, "ECANCELED"),
                        !.alive = Freed(s.alive, Y)]
      BY <1>1 DEF DropEntries, Tables, Y
    <3>2. v = [u EXCEPT !.record = R, !.alive = Freed(u.alive, X)]
      <4>1. u \in Tables /\ u.record = s.record /\ v = Forget(u, G)
        BY <1>3 DEF Good
      <4> HIDE DEF u, v
      <4> QED
        BY <4>1 DEF Forget, X, R, Tables
    <3>3. u.alive = Freed(s.alive, Y)
      BY <1>1, <3>1 DEF Tables
    <3> HIDE DEF u, v
    <3> QED
      BY <1>1, <3>1, <3>2, <3>3 DEF Tables
  <2> QED
    BY <2>5, <2>6, <2>7
<1>5. \A e \in u.listed : e.hash \notin G
  BY <1>3
<1> HIDE DEF t, u, L, G
<1>6. /\ Good(v) /\ v.listed = u.listed /\ v.queue = u.queue /\ v.mined = u.mined
      /\ \A g \in Txs : v.record[g] = IF g \in G THEN None ELSE u.record[g]
      /\ \A W \in SUBSET Objs :
           /\ Owned(u, W)
           /\ \A g \in G : u.record[g] # None /\ u.record[g] \notin W
           /\ \A e \in u.listed : e.hash \notin G
           => Owned(v, W)
  BY <1>2, <1>3, ForgetKeeps
<1> HIDE DEF v
<1>7. ASSUME NEW W \in SUBSET Objs, Owned(s, W), \A o \in W : HashOf[o] \notin G
      PROVE  Owned(v, W)
  <2>1. \A g \in G : s.record[g] # None /\ s.record[g] \notin W
    BY <1>1, <1>2, <1>7 DEF Filed
  <2> QED
    BY <1>3, <1>5, <1>6, <1>7, <2>1
<1>8. \A c \in Calls : Waiting(v, c) + InSeq(c, v.queue) = Waiting(s, c) + InSeq(c, s.queue)
  BY <1>3, <1>6 DEF Waiting
<1> QED
  BY <1>3, <1>4, <1>5, <1>6, <1>7, <1>8 DEF t, G

----------------------------------------------------------------------------
(* An object enters the list, and brings its unconfirmed parents. *)

LEMMA ParentsAreRecords ==
  ASSUME NEW s, NEW h \in Txs
  PROVE  /\ ParentsToList(s, h) \subseteq Txs \ {h}
         /\ \A g \in ParentsToList(s, h) : Unconfirmed(s, g) /\ ~Listed(s, g)
<1> DEFINE P == {h} \cup {g \in Txs : Unconfirmed(s, g) /\ ~Listed(s, g)}
           M == Cardinality(Txs)
           More(X) == X \cup {g \in Txs : /\ \E k \in X : g \in Spends[k]
                                          /\ Unconfirmed(s, g)
                                          /\ ~Listed(s, g)}
           SP == SUBSET P
           first == {h}
           step == [X \in SP |-> More(X)]
           Eq(w) == w = [n \in 0..M |-> IF n = 0 THEN first ELSE More(w[n - 1])]
           walk == CHOOSE w : Eq(w)
<1>1. M \in Nat
  BY PublishAssumption, FS_CardinalityType
<1>2. ParentsToList(s, h) = walk[M] \ {h}
  BY DEF ParentsToList
<1>3. (\A X \in SP : More(X) \in SP) /\ first \in SP
  OBVIOUS
<1> HIDE DEF More, SP
<1>4. step \in [SP -> SP] /\ \A X \in SP : step[X] = More(X)
  BY <1>3
<1> HIDE DEF M, step, first
<1>5. PICK f \in [0..M -> SP] : f[0] = first /\ \A n \in 1..M : f[n] = step[f[n - 1]]
  <2>1. step \in [SP -> SP] /\ first \in SP
    BY <1>3, <1>4
  <2> HIDE DEF P, Eq
  <2>2. \E f : Iteration(f, SP, first, step, M)
    BY <1>1, <2>1, Iterates
  <2> QED
    BY <2>2 DEF Iteration
<1>6. Eq(f)
  <2> DEFINE g == [n \in 0..M |-> IF n = 0 THEN first ELSE More(f[n - 1])]
  <2>1. ASSUME NEW n \in 0..M PROVE f[n] = g[n]
    <3>1. CASE n = 0
      BY <1>5, <3>1
    <3>2. CASE n # 0
      <4>1. n \in 1..M /\ n - 1 \in 0..M
        BY <1>1, <3>2
      <4>2. f[n] = More(f[n - 1])
        BY <1>4, <1>5, <4>1
      <4> QED
        BY <3>2, <4>2
    <3> QED
      BY <3>1, <3>2
  <2>2. DOMAIN f = 0..M /\ DOMAIN g = 0..M
    BY <1>5
  <2> HIDE DEF g
  <2>3. f = g
    BY <1>5, <2>1, <2>2 DEF g
  <2> QED
    BY <2>3 DEF g
<1> HIDE DEF Eq
<1>7. Eq(walk)
  BY <1>6
<1> HIDE DEF walk
<1>8. walk[0] = first /\ \A n \in 1..M : walk[n] = More(walk[n - 1])
  <2>1. \A n \in 0..M : walk[n] = IF n = 0 THEN first ELSE More(walk[n - 1])
    BY <1>7 DEF Eq
  <2>2. 0 \in 0..M /\ \A n \in 1..M : n \in 0..M /\ n # 0
    BY <1>1
  <2> QED
    BY <2>1, <2>2
<1> DEFINE T == {n \in 0..M : walk[n] \notin SP}
<1>9. ASSUME T # {} PROVE FALSE
  <2>1. T \subseteq Nat
    BY <1>1
  <2>2. PICK k \in T : \A j \in T : k <= j
    <3> HIDE DEF T
    <3> QED
      BY <1>9, <2>1, Least
  <2>3. k # 0
    BY <1>3, <1>8, <2>2
  <2>4. k \in 1..M /\ k - 1 \in 0..M /\ ~ (k <= k - 1)
    BY <1>1, <2>2, <2>3
  <2>5. walk[k - 1] \in SP
    BY <2>2, <2>4
  <2> QED
    BY <1>3, <1>8, <2>2, <2>4, <2>5
<1>10. walk[M] \in SP
  BY <1>1, <1>9
<1> QED
  BY <1>2, <1>10 DEF SP

(* What listing the object o promises.                                     *)
Added(s, o, c, owned, r) ==
    /\ Good(r.s) /\ r.s.queue = s.queue /\ r.s.record = s.record
    /\ r.s.alive = s.alive /\ r.s.mined = s.mined
    /\ r.added = "pending" => c # None /\ o \notin s.mined
    /\ \A d \in Calls :
          Waiting(r.s, d) = IF d = c /\ o \notin s.mined /\ r.added # "pending" THEN 1
                            ELSE Waiting(s, d)
    /\ \A W \in SUBSET Objs :
          Owned(s, W) /\ ((owned /\ o \in W) \/ s.record[HashOf[o]] = o)
          => Owned(r.s, IF r.added = "taken" THEN W \ {o} ELSE W)

LEMMA AddKeeps ==
  ASSUME NEW s, Good(s), NEW o \in Objs, NEW c \in Calls \cup {None}, NEW owned \in BOOLEAN,
         c # None => Waiting(s, c) = 0,
         NEW r, r = AddTxToPublishList(s, o, c, owned)
  PROVE  Added(s, o, c, owned, r)
<1> SUFFICES
      /\ Good(r.s) /\ r.s.queue = s.queue /\ r.s.record = s.record
      /\ r.s.alive = s.alive /\ r.s.mined = s.mined
      /\ r.added = "pending" => c # None /\ o \notin s.mined
      /\ \A d \in Calls :
            Waiting(r.s, d) = IF d = c /\ o \notin s.mined /\ r.added # "pending" THEN 1
                              ELSE Waiting(s, d)
      /\ \A W \in SUBSET Objs :
            Owned(s, W) /\ ((owned /\ o \in W) \/ s.record[HashOf[o]] = o)
            => Owned(r.s, IF r.added = "taken" THEN W \ {o} ELSE W)
  BY DEF Added
<1> DEFINE h == HashOf[o]
<1>1. /\ s \in Tables /\ Filed(s) /\ s.listed \subseteq PubEntry /\ h \in Txs
      /\ \A e \in s.listed : e.obj \in Objs /\ e.hash \in Txs /\ HashOf[e.obj] = e.hash
  BY PublishAssumption DEF Good, Filed, Tables, PubEntry
<1>2. None \notin Objs /\ None \notin Calls
  BY PublishAssumption
<1>3. ASSUME r.s = s, r.added # "taken", r.added = "pending" => c # None /\ o \notin s.mined,
             c # None => o \in s.mined \/ r.added = "pending"
      PROVE  /\ Good(r.s) /\ r.s.queue = s.queue /\ r.s.record = s.record
             /\ r.s.alive = s.alive /\ r.s.mined = s.mined
             /\ r.added = "pending" => c # None /\ o \notin s.mined
             /\ \A d \in Calls :
                   Waiting(r.s, d) = IF d = c /\ o \notin s.mined /\ r.added # "pending" THEN 1
                                     ELSE Waiting(s, d)
             /\ \A W \in SUBSET Objs :
                   Owned(s, W) /\ ((owned /\ o \in W) \/ s.record[HashOf[o]] = o)
                   => Owned(r.s, IF r.added = "taken" THEN W \ {o} ELSE W)
  BY <1>2, <1>3
<1>4. CASE o \in s.mined
  <2>1. r.s = s /\ r.added = "duplicate"
    BY <1>4 DEF AddTxToPublishList
  <2> QED
    BY <1>3, <1>4, <2>1
<1>5. CASE o \notin s.mined /\ Duplicate(s, o) # {}
  <2> DEFINE e == CHOOSE f \in Duplicate(s, o) : TRUE
  <2>1. e \in s.listed /\ e.hash = h
    BY <1>5 DEF Duplicate, EntriesOf
  <2>2. r = IF c = None THEN [s |-> s, added |-> "duplicate"]
            ELSE IF e.call # None THEN [s |-> s, added |-> "pending"]
            ELSE [s |-> [s EXCEPT !.listed = (@ \ {e}) \cup {[e EXCEPT !.call = c]}],
                  added |-> "duplicate"]
    BY <1>5 DEF AddTxToPublishList
  <2> HIDE DEF e
  <2>3. CASE c = None
    BY <1>3, <2>2, <2>3
  <2>4. CASE c # None /\ e.call # None
    BY <1>3, <1>5, <2>2, <2>4
  <2>5. CASE c # None /\ e.call = None
    <3> DEFINE x == [e EXCEPT !.call = c]
               L == (s.listed \ {e}) \cup {x}
               t == [s EXCEPT !.listed = L]
    <3>1. r.s = t /\ r.added = "duplicate"
      BY <2>2, <2>5
    <3>2. x \in PubEntry /\ x.hash = e.hash /\ x.obj = e.obj /\ x.owned = e.owned /\ x.call = c
      BY <1>1, <2>1, <2>5 DEF PubEntry
    <3> HIDE DEF x
    <3>3. L \subseteq PubEntry
      BY <1>1, <3>2
    <3>4. \A y : y \in L <=> y = x \/ (y \in s.listed /\ y # e)
      OBVIOUS
    <3> HIDE DEF L
    <3>5. /\ t \in Tables /\ t.listed = L /\ t.queue = s.queue /\ t.record = s.record
          /\ t.alive = s.alive /\ t.mined = s.mined
      BY <1>1, <3>3 DEF Tables
    <3> HIDE DEF t
    <3>6. \A y \in s.listed : y.call # c
      BY <2>5 DEF Waiting
    <3>7. Filed(t)
      BY <1>1, <2>1, <3>2, <3>4, <3>5, <3>6 DEF Filed
    <3>8. ASSUME NEW d \in Calls
          PROVE  Waiting(t, d) = IF d = c THEN 1 ELSE Waiting(s, d)
      <4>1. CASE d = c
        BY <3>2, <3>4, <3>5, <4>1 DEF Waiting
      <4>2. CASE d # c
        <5>1. (\E y \in L : y.call = d) <=> (\E y \in s.listed : y.call = d)
          BY <1>2, <2>5, <3>2, <3>4, <4>2
        <5> QED
          BY <3>5, <4>2, <5>1 DEF Waiting
      <4> QED
        BY <4>1, <4>2
    <3>9. ASSUME NEW W \in SUBSET Objs, Owned(s, W) PROVE Owned(t, W)
      <4>1. \A y \in L : \E f \in s.listed : y.obj = f.obj /\ y.hash = f.hash /\ y.owned = f.owned
        BY <2>1, <3>2, <3>4
      <4>2. \A f \in s.listed : \E y \in L : y.obj = f.obj
        BY <3>2, <3>4
      <4>3. \A y \in t.listed : t.alive[y.obj] = "live" /\ (y.owned <=> t.record[y.hash] # y.obj)
                                /\ (y.owned => y.obj \notin W)
        BY <3>5, <3>9, <4>1 DEF Owned
      <4>4. \A a \in Objs :
             /\ t.alive[a] # "twice"
             /\ t.alive[a] = "live" => \/ a \in W \/ t.record[HashOf[a]] = a
                                       \/ \E y \in t.listed : y.obj = a
        BY <3>5, <3>9, <4>2 DEF Owned
      <4>5. (\A k \in Txs : t.record[k] # None => t.alive[t.record[k]] = "live")
            /\ \A a \in W : t.alive[a] = "live"
        BY <3>5, <3>9 DEF Owned
      <4> QED
        BY <4>3, <4>4, <4>5 DEF Owned
    <3> QED
      BY <1>5, <3>1, <3>5, <3>7, <3>8, <3>9 DEF Good
  <2> QED
    BY <2>3, <2>4, <2>5
<1>6. CASE o \notin s.mined /\ Duplicate(s, o) = {}
  <2> DEFINE P == ParentsToList(s, h)
             own == owned /\ s.record[h] # o
             x == NewEntry(o, c, own)
             Q == {NewEntry(s.record[g], None, FALSE) : g \in P}
             L == s.listed \cup {x} \cup Q
             t == [s EXCEPT !.listed = L]
  <2>1. r.s = t /\ r.added = "taken"
    BY <1>6 DEF AddTxToPublishList
  <2>2. /\ P \subseteq Txs \ {h}
        /\ \A g \in P : Unconfirmed(s, g) /\ ~Listed(s, g)
    BY <1>1, ParentsAreRecords
  <2> HIDE DEF P
  <2>3. /\ x \in PubEntry /\ x.hash = h /\ x.obj = o /\ x.call = c
        /\ x.owned <=> (owned /\ s.record[h] # o)
    BY <1>1 DEF NewEntry, PubEntry
  <2>4. ASSUME NEW y \in Q
        PROVE  /\ y \in PubEntry /\ y.hash \in P /\ y.obj = s.record[y.hash] /\ y.call = None
               /\ ~ y.owned /\ HashOf[y.obj] = y.hash
    <3>1. PICK g \in P : y = NewEntry(s.record[g], None, FALSE)
      OBVIOUS
    <3>2. s.record[g] \in Objs /\ HashOf[s.record[g]] = g /\ g \in Txs
      BY <1>1, <2>2 DEF Unconfirmed, Held, Filed, Tables
    <3> QED
      BY <3>1, <3>2 DEF NewEntry, PubEntry
  <2>5. \A y, z \in Q : y.hash = z.hash => y = z
    <3> SUFFICES ASSUME NEW y \in Q, NEW z \in Q, y.hash = z.hash PROVE y = z
      OBVIOUS
    <3>1. PICK g \in P : y = NewEntry(s.record[g], None, FALSE)
      OBVIOUS
    <3>2. PICK k \in P : z = NewEntry(s.record[k], None, FALSE)
      OBVIOUS
    <3>3. HashOf[s.record[g]] = g /\ HashOf[s.record[k]] = k
      BY <1>1, <2>2 DEF Unconfirmed, Held, Filed
    <3>4. g = k
      BY <3>1, <3>2, <3>3 DEF NewEntry
    <3> QED
      BY <3>1, <3>2, <3>4
  <2> HIDE DEF x, Q
  <2>6. L \subseteq PubEntry /\ \A y : y \in L <=> y \in s.listed \/ y = x \/ y \in Q
    BY <1>1, <2>3, <2>4
  <2> HIDE DEF L
  <2>7. /\ t \in Tables /\ t.listed = L /\ t.queue = s.queue /\ t.record = s.record
        /\ t.alive = s.alive /\ t.mined = s.mined
    BY <1>1, <2>6 DEF Tables
  <2> HIDE DEF t
  <2>8. \A y \in s.listed : y.hash # h /\ y.hash \notin P
    BY <1>6, <2>2 DEF Duplicate, EntriesOf, Listed
  <2>9. \A y \in s.listed : c # None => y.call # c
    BY DEF Waiting
  <2>10. Filed(t)
    <3>1. \A y, z \in L : y.hash = z.hash => y = z
      BY <1>1, <2>2, <2>3, <2>4, <2>5, <2>6, <2>8 DEF Filed
    <3>2. \A y \in L : HashOf[y.obj] = y.hash
      BY <1>1, <2>3, <2>4, <2>6
    <3>3. \A y, z \in L : y.call # None /\ y.call = z.call => y = z
      BY <1>1, <2>3, <2>4, <2>6, <2>9 DEF Filed
    <3> QED
      BY <1>1, <2>7, <3>1, <3>2, <3>3 DEF Filed
  <2>11. ASSUME NEW d \in Calls
         PROVE  Waiting(t, d) = IF d = c THEN 1 ELSE Waiting(s, d)
    <3>1. CASE d = c
      BY <2>3, <2>6, <2>7, <3>1 DEF Waiting
    <3>2. CASE d # c
      <4>1. (\E y \in L : y.call = d) <=> (\E y \in s.listed : y.call = d)
        BY <1>2, <2>3, <2>4, <2>6, <3>2
      <4> QED
        BY <2>7, <3>2, <4>1 DEF Waiting
    <3> QED
      BY <3>1, <3>2
  <2>12. ASSUME NEW W \in SUBSET Objs, Owned(s, W), (owned /\ o \in W) \/ s.record[h] = o
         PROVE  Owned(t, W \ {o})
    <3>1. /\ \A e \in s.listed : s.alive[e.obj] = "live" /\ (e.owned <=> s.record[e.hash] # e.obj)
                                 /\ (e.owned => e.obj \notin W)
          /\ \A k \in Txs : s.record[k] # None => s.alive[s.record[k]] = "live"
          /\ \A a \in W : s.alive[a] = "live"
          /\ \A a \in Objs :
            /\ s.alive[a] # "twice"
            /\ s.alive[a] = "live" => \/ a \in W \/ s.record[HashOf[a]] = a
                                      \/ \E e \in s.listed : e.obj = a
      BY <2>12 DEF Owned
    <3>2. s.alive[o] = "live"
      BY <1>1, <1>2, <2>12, <3>1
    <3>3. ASSUME NEW y \in L
          PROVE  s.alive[y.obj] = "live" /\ (y.owned <=> s.record[y.hash] # y.obj)
                 /\ (y.owned => y.obj \notin W \ {o})
      <4>1. CASE y \in s.listed
        BY <3>1, <4>1
      <4>2. CASE y = x
        BY <2>3, <2>12, <3>2, <4>2
      <4>3. CASE y \in Q
        <5>1. y.hash \in Txs /\ s.record[y.hash] # None
          BY <2>2, <2>4, <4>3 DEF Unconfirmed, Held
        <5> QED
          BY <2>4, <3>1, <4>3, <5>1
      <4> QED
        BY <2>6, <4>1, <4>2, <4>3
    <3>4. \A a \in Objs :
             /\ s.alive[a] # "twice"
             /\ s.alive[a] = "live" => \/ a \in W \ {o} \/ s.record[HashOf[a]] = a
                                       \/ \E y \in L : y.obj = a
      BY <2>3, <2>6, <3>1
    <3> QED
      BY <2>7, <3>1, <3>3, <3>4 DEF Owned
  <2> QED
    BY <1>6, <2>1, <2>7, <2>10, <2>11, <2>12 DEF Good
<1> QED
  BY <1>4, <1>5, <1>6

(* A hand hands its object over.                                           *)
HandedOn(t, s, o, c) ==
    /\ Good(t) /\ t.record = s.record /\ t.mined = s.mined
    /\ \A d \in Calls :
          Waiting(t, d) + InSeq(d, t.queue)
          = Waiting(s, d) + InSeq(d, s.queue) + (IF d = c /\ o \notin s.mined THEN 1 ELSE 0)
    /\ \A W \in SUBSET Objs : Owned(s, W) /\ o \in W => Owned(t, W \ {o})

LEMMA HandOverKeeps ==
  ASSUME NEW s, Good(s), NEW o \in Objs, NEW c \in Calls \cup {None},
         c # None => Waiting(s, c) = 0,
         NEW r, r = HandOver(s, o, c)
  PROVE  HandedOn(r.s, s, o, c)
<1> SUFFICES
      /\ Good(r.s) /\ r.s.record = s.record /\ r.s.mined = s.mined
      /\ \A d \in Calls :
            Waiting(r.s, d) + InSeq(d, r.s.queue)
            = Waiting(s, d) + InSeq(d, s.queue) + (IF d = c /\ o \notin s.mined THEN 1 ELSE 0)
      /\ \A W \in SUBSET Objs : Owned(s, W) /\ o \in W => Owned(r.s, W \ {o})
  BY DEF HandedOn
<1> DEFINE a == AddTxToPublishList(s, o, c, TRUE)
           spare == IF a.added = "taken" \/ a.s.record[HashOf[o]] = o THEN {} ELSE {o}
           told == IF a.added = "pending" THEN Reply(c, "EALREADY") ELSE <<>>
           A == Freed(a.s.alive, spare)
           q == a.s.queue \o told
           t == [a.s EXCEPT !.alive = A, !.queue = q]
<1>1. /\ Good(a.s) /\ a.s.queue = s.queue /\ a.s.record = s.record
      /\ a.s.alive = s.alive /\ a.s.mined = s.mined
      /\ a.added = "pending" => c # None /\ o \notin s.mined
      /\ \A d \in Calls :
            Waiting(a.s, d) = IF d = c /\ o \notin s.mined /\ a.added # "pending" THEN 1
                              ELSE Waiting(s, d)
      /\ \A W \in SUBSET Objs :
            Owned(s, W) /\ ((TRUE /\ o \in W) \/ s.record[HashOf[o]] = o)
            => Owned(a.s, IF a.added = "taken" THEN W \ {o} ELSE W)
  <2> DEFINE owned == TRUE
  <2>1. owned \in BOOLEAN /\ a = AddTxToPublishList(s, o, c, owned)
    OBVIOUS
  <2> HIDE DEF a, owned
  <2>2. Added(s, o, c, owned, a)
    BY <2>1, AddKeeps
  <2> QED
    BY <2>2 DEF owned, Added
<1>2. r.s = t
  BY DEF HandOver
<1>3. a.s \in Tables /\ Filed(a.s) /\ a.s.queue \in Seq(Answer) /\ HashOf[o] \in Txs
  BY <1>1, PublishAssumption DEF Good, Tables
<1>4. /\ A \in [Objs -> {"unborn", "live", "freed", "twice"}]
      /\ spare = {} => A = a.s.alive
  BY <1>3, FreedIs DEF Freed, Tables
<1>5. /\ told \in Seq(Answer)
      /\ \A d \in Calls : InSeq(d, told) = IF d = c /\ a.added = "pending" THEN 1 ELSE 0
  <2>1. CASE a.added = "pending"
    <3> DEFINE x == [call |-> c, error |-> "EALREADY"]
    <3>1. x \in Answer /\ x.call = c /\ told = <<x>>
      BY <1>1, <2>1 DEF Reply, Answer, Verdicts
    <3> HIDE DEF x, told
    <3> QED
      BY <2>1, <3>1, InSeqOne
  <2>2. CASE a.added # "pending"
    <3>1. told = <<>>
      BY <2>2
    <3>2. <<>> \in Seq(Answer) /\ \A d \in Calls : InSeq(d, <<>>) = 0
      BY InSeqIsNat, EmptySeq
    <3> QED
      BY <2>2, <3>1, <3>2
  <2> QED
    BY <2>1, <2>2
<1>6. /\ q \in Seq(Answer) /\ \A d \in Calls : InSeq(d, q) = InSeq(d, s.queue) + InSeq(d, told)
  <2> DEFINE u == s.queue
  <2>1. u \in Seq(Answer) /\ q = u \o told
    BY <1>1, <1>3
  <2> HIDE DEF told, u, q
  <2>2. u \o told \in Seq(Answer) /\ \A d \in Calls : InSeq(d, u \o told) = InSeq(d, u) + InSeq(d, told)
    BY <1>5, <2>1, InSeqConcat
  <2> QED
    BY <2>1, <2>2 DEF u
<1>7. spare = IF a.added = "taken" \/ s.record[HashOf[o]] = o THEN {} ELSE {o}
  BY <1>1
<1>8. A = Freed(s.alive, spare) /\ t = [a.s EXCEPT !.alive = A, !.queue = q]
  BY <1>1
<1> HIDE DEF t, A, q, a, spare, told
<1>9. /\ t \in Tables /\ t.listed = a.s.listed /\ t.record = s.record /\ t.mined = s.mined
      /\ t.queue = q /\ t.alive = A
  BY <1>1, <1>3, <1>4, <1>6, <1>8 DEF Tables
<1>10. Good(t)
  BY <1>1, <1>3, <1>9 DEF Good, Filed
<1>11. ASSUME NEW d \in Calls
       PROVE  Waiting(t, d) + InSeq(d, t.queue)
              = Waiting(s, d) + InSeq(d, s.queue) + (IF d = c /\ o \notin s.mined THEN 1 ELSE 0)
  <2>1. Waiting(t, d) = Waiting(a.s, d)
    BY <1>9 DEF Waiting
  <2>2. InSeq(d, s.queue) \in Nat
    BY <1>1, <1>3, InSeqIsNat
  <2>3. Waiting(s, d) \in {0, 1}
    BY DEF Waiting
  <2>4. d = c => Waiting(s, d) = 0
    BY PublishAssumption
  <2>5. Waiting(t, d) = IF d = c /\ o \notin s.mined /\ a.added # "pending" THEN 1 ELSE Waiting(s, d)
    BY <1>1, <2>1
  <2>6. InSeq(d, t.queue) = InSeq(d, s.queue) + (IF d = c /\ a.added = "pending" THEN 1 ELSE 0)
    BY <1>5, <1>6, <1>9
  <2>7. CASE d = c /\ o \notin s.mined
    BY <2>2, <2>4, <2>5, <2>6, <2>7
  <2>8. CASE ~ (d = c /\ o \notin s.mined)
    <3>1. ~ (d = c /\ a.added = "pending")
      BY <1>1, <2>8
    <3>2. Waiting(t, d) = Waiting(s, d) /\ InSeq(d, t.queue) = InSeq(d, s.queue)
      BY <2>2, <2>5, <2>6, <2>8, <3>1
    <3> QED
      BY <2>2, <2>3, <2>8, <3>2
  <2> QED
    BY <2>7, <2>8
<1>12. ASSUME NEW W \in SUBSET Objs, Owned(s, W), o \in W PROVE Owned(t, W \ {o})
  <2>1. Owned(a.s, IF a.added = "taken" THEN W \ {o} ELSE W)
    BY <1>1, <1>12
  <2>2. CASE a.added = "taken" \/ s.record[HashOf[o]] = o
    <3>1. Owned(a.s, W \ {o})
      <4>1. CASE a.added = "taken"
        BY <2>1, <4>1
      <4>2. CASE a.added # "taken"
        <5>1. Owned(a.s, W) /\ a.s.record[HashOf[o]] = o
          BY <1>1, <2>1, <2>2, <4>2
        <5> QED
          BY <5>1, SharedKeeps
      <4> QED
        BY <4>1, <4>2
    <3>2. t.alive = a.s.alive /\ t.record = a.s.record
      BY <1>1, <1>4, <1>7, <1>9, <2>2
    <3> QED
      BY <1>9, <3>1, <3>2 DEF Owned
  <2>3. CASE ~ (a.added = "taken" \/ s.record[HashOf[o]] = o)
    <3>1. Owned(a.s, W)
      BY <2>1, <2>3
    <3>2. t.alive = Freed(a.s.alive, {o}) /\ t.record = a.s.record /\ a.s.record[HashOf[o]] # o
      BY <1>1, <1>7, <1>8, <1>9, <2>3
    <3> QED
      BY <1>1, <1>9, <1>12, <3>1, <3>2, ReleaseKeeps
  <2> QED
    BY <2>2, <2>3
<1> QED
  BY <1>2, <1>9, <1>10, <1>11, <1>12

----------------------------------------------------------------------------
(* What the handlers are composed of. *)

(* Bookkeeping of relays, requests, rejects and validity moves no object   *)
(* and no callback.                                                        *)
Same(t, s) ==
    /\ t \in Tables /\ t.listed = s.listed /\ t.queue = s.queue /\ t.record = s.record
    /\ t.alive = s.alive

LEMMA SameKeeps ==
  ASSUME NEW s, Good(s), NEW t, Same(t, s)
  PROVE  /\ Good(t) /\ \A W : Owned(s, W) => Owned(t, W)
         /\ \A c : Waiting(t, c) = Waiting(s, c)
BY DEF Same, Good, Filed, Owned, Waiting

LEMMA VouchSame ==
  ASSUME NEW s, Good(s), NEW h \in Txs, NEW p \in Peers
  PROVE  /\ Same(Vouch(s, h, p), s) /\ Vouch(s, h, p).mined = s.mined
         /\ Same(Unrequest(s, h, p), s) /\ Unrequest(s, h, p).mined = s.mined
<1>1. s \in Tables
  BY DEF Good
<1>2. /\ [s.relays EXCEPT ![h] = @ \cup {p}] \in [Txs -> SUBSET Peers]
      /\ [s.requests EXCEPT ![h] = @ \ {p}] \in [Txs -> SUBSET Peers]
      /\ s.vouched \cup {h} \in SUBSET Txs
  BY <1>1 DEF Tables
<1> DEFINE R == [s.relays EXCEPT ![h] = @ \cup {p}]
           Q == [s.requests EXCEPT ![h] = @ \ {p}]
           V == s.vouched \cup {h}
           t == [s EXCEPT !.relays = R, !.vouched = V]
           u == [s EXCEPT !.requests = Q]
<1>3. Vouch(s, h, p) = t /\ Unrequest(s, h, p) = u
  BY <1>1 DEF Vouch, Unrequest, Tables
<1> HIDE DEF R, Q, V
<1>4. R \in [Txs -> SUBSET Peers] /\ Q \in [Txs -> SUBSET Peers] /\ V \in SUBSET Txs
  BY <1>2 DEF R, Q, V
<1>5. t \in Tables /\ u \in Tables
  BY <1>1, <1>4 DEF Tables
<1>6. /\ t.listed = s.listed /\ t.queue = s.queue /\ t.record = s.record /\ t.alive = s.alive
      /\ t.mined = s.mined
  BY <1>1 DEF Tables
<1>7. /\ u.listed = s.listed /\ u.queue = s.queue /\ u.record = s.record /\ u.alive = s.alive
      /\ u.mined = s.mined
  BY <1>1 DEF Tables
<1> HIDE DEF t, u
<1> QED
  BY <1>3, <1>5, <1>6, <1>7 DEF Same

LEMMA TakeAndVouchKeeps ==
  ASSUME NEW s, Good(s), NEW h \in Txs, NEW p \in Peers
  PROVE  LET t == TakeAndVouch(s, h, p)
         IN /\ Good(t) /\ Taken(s, h) \in Seq(Answer)
            /\ t.queue = s.queue /\ t.record = s.record /\ t.alive = s.alive /\ t.mined = s.mined
            /\ \A W : Owned(s, W) => Owned(t, W)
            /\ \A c \in Calls : Waiting(t, c) + InSeq(c, Taken(s, h)) = Waiting(s, c)
            /\ \A e \in t.listed : \E f \in s.listed : e.hash = f.hash /\ e.obj = f.obj
            /\ \A f \in s.listed : \E e \in t.listed : e.hash = f.hash /\ e.obj = f.obj
<1> DEFINE u == Take(s, h)
           v == Vouch(u, h, p)
           t == TakeAndVouch(s, h, p)
<1>1. /\ Good(u) /\ Taken(s, h) \in Seq(Answer)
      /\ u.queue = s.queue /\ u.record = s.record /\ u.alive = s.alive /\ u.mined = s.mined
      /\ \A W : Owned(s, W) => Owned(u, W)
      /\ \A c \in Calls : Waiting(u, c) + InSeq(c, Taken(s, h)) = Waiting(s, c)
  BY TakeKeeps
<1>2. /\ \A e \in u.listed : \E f \in s.listed : e.hash = f.hash /\ e.obj = f.obj
      /\ \A f \in s.listed : \E e \in u.listed : e.hash = f.hash /\ e.obj = f.obj
  <2> DEFINE g == [e \in s.listed |-> IF e.hash = h THEN [e EXCEPT !.call = None] ELSE e]
  <2>1. u.listed = {g[e] : e \in s.listed}
    BY DEF Take, Good, Tables
  <2>2. \A e \in s.listed : g[e].hash = e.hash /\ g[e].obj = e.obj
    BY DEF Good, Tables, PubEntry
  <2> HIDE DEF g, u
  <2> QED
    BY <2>1, <2>2
<1> HIDE DEF u
<1>3. CASE Listed(s, h)
  <2>1. t = v
    BY <1>3 DEF TakeAndVouch, u
  <2>2. Same(v, u) /\ v.mined = u.mined
    BY <1>1, VouchSame
  <2> HIDE DEF v, t
  <2>3. Good(v) /\ (\A W : Owned(u, W) => Owned(v, W)) /\ \A c : Waiting(v, c) = Waiting(u, c)
    BY <1>1, <2>2, SameKeeps
  <2> QED
    BY <1>1, <1>2, <2>1, <2>2, <2>3 DEF Same, t
<1>4. CASE ~ Listed(s, h)
  <2>1. t = s
    BY <1>4 DEF TakeAndVouch
  <2>2. \A c \in Calls : InSeq(c, Taken(s, h)) = 0
    <3>1. EntriesOf(s, h) = {} /\ "OK" \in Verdicts /\ IsFiniteSet({})
      BY <1>4, FS_EmptySet DEF Listed, Verdicts
    <3> QED
      BY <3>1, AnswersCount DEF Taken
  <2>3. \A c \in Calls : Waiting(s, c) \in Nat
    BY DEF Waiting
  <2> HIDE DEF t
  <2>4. \A c \in Calls : Waiting(s, c) + InSeq(c, Taken(s, h)) = Waiting(s, c)
    BY <2>2, <2>3
  <2> QED
    BY <1>1, <2>1, <2>4 DEF t
<1> QED
  BY <1>3, <1>4

LEMMA AnswerEntryKeeps ==
  ASSUME NEW s, Good(s), NEW h \in Txs, NEW error \in Verdicts
  PROVE  LET t == AnswerEntry(s, h, error)
         IN /\ Good(t) /\ t.record = s.record /\ t.mined = s.mined
            /\ \A W : Owned(s, W) => Owned(t, W)
            /\ \A c \in Calls : Waiting(t, c) + InSeq(c, t.queue) = Waiting(s, c) + InSeq(c, s.queue)
<1> DEFINE u == Take(s, h)
           q == AnswersTo(EntriesOf(s, h), error)
           a == s.queue \o q
           t == [u EXCEPT !.queue = a]
<1>1. /\ Good(u) /\ Taken(s, h) \in Seq(Answer)
      /\ u.queue = s.queue /\ u.record = s.record /\ u.alive = s.alive /\ u.mined = s.mined
      /\ \A W : Owned(s, W) => Owned(u, W)
      /\ \A c \in Calls : Waiting(u, c) + InSeq(c, Taken(s, h)) = Waiting(s, c)
  BY TakeKeeps
<1>2. AnswerEntry(s, h, error) = t
  BY <1>1 DEF AnswerEntry, Good, Tables
<1>3. IsFiniteSet(EntriesOf(s, h)) /\ EntriesOf(s, h) \subseteq PubEntry
  <2>1. EntriesOf(s, h) \subseteq s.listed /\ s.listed \subseteq PubEntry
    BY DEF EntriesOf, Good, Tables
  <2> QED
    BY <2>1, ListFinite, FS_Subset
<1>4. /\ q \in Seq(Answer)
      /\ \A c \in Calls : InSeq(c, q) = IF \E e \in EntriesOf(s, h) : e.call = c THEN 1 ELSE 0
  BY <1>3, AnswersCount
<1>5. \A c \in Calls : InSeq(c, Taken(s, h)) = IF \E e \in EntriesOf(s, h) : e.call = c THEN 1 ELSE 0
  <2>1. "OK" \in Verdicts
    BY DEF Verdicts
  <2> QED
    BY <1>3, <2>1, AnswersCount DEF Taken
<1>6. s.queue \in Seq(Answer)
  BY DEF Good, Tables
<1> HIDE DEF u, q
<1>7. a \in Seq(Answer) /\ \A c \in Calls : InSeq(c, a) = InSeq(c, s.queue) + InSeq(c, q)
  BY <1>4, <1>6, InSeqConcat
<1> HIDE DEF a
<1>8. /\ t \in Tables /\ t.listed = u.listed /\ t.record = s.record /\ t.mined = s.mined
      /\ t.queue = a /\ t.alive = u.alive
  BY <1>1, <1>7 DEF Good, Tables
<1> HIDE DEF t
<1>9. Good(t)
  BY <1>1, <1>8 DEF Good, Filed
<1>10. \A W : Owned(s, W) => Owned(t, W)
  BY <1>1, <1>8 DEF Owned
<1>11. ASSUME NEW c \in Calls
       PROVE  Waiting(t, c) + InSeq(c, t.queue) = Waiting(s, c) + InSeq(c, s.queue)
  <2>1. Waiting(t, c) = Waiting(u, c) /\ Waiting(u, c) \in Nat
    BY <1>8 DEF Waiting
  <2>2. InSeq(c, s.queue) \in Nat /\ InSeq(c, q) \in Nat /\ InSeq(c, Taken(s, h)) = InSeq(c, q)
    BY <1>4, <1>5, <1>6, InSeqIsNat
  <2>3. Waiting(u, c) + InSeq(c, q) = Waiting(s, c)
    BY <1>1, <2>2
  <2>4. InSeq(c, t.queue) = InSeq(c, s.queue) + InSeq(c, q)
    BY <1>7, <1>8
  <2> QED
    BY <2>1, <2>2, <2>3, <2>4
<1> QED
  BY <1>2, <1>8, <1>9, <1>10, <1>11 DEF t

LEMMA UpdateTxKeeps ==
  ASSUME NEW s, Good(s), NEW h \in Txs
  PROVE  LET t == UpdateTx(s, h)
         IN /\ Good(t)
            /\ \A c \in Calls : Waiting(t, c) + InSeq(c, t.queue) = Waiting(s, c) + InSeq(c, s.queue)
            /\ \A g \in Txs : t.record[g] = IF g = h /\ h \notin Ours THEN None ELSE s.record[g]
            /\ \A e \in t.listed : e \in s.listed /\ e.hash # h
            /\ \A W \in SUBSET Objs :
                 Owned(s, W) /\ (h \notin Ours => \A o \in W : HashOf[o] # h) => Owned(t, W)
<1> DEFINE error == "OK"
           B == EntriesOf(s, h)
           u == DropEntries(s, B, error)
           v == [u EXCEPT !.relays[h] = {}, !.vouched = @ \ {h}, !.rejects[h] = {}]
           w == [v EXCEPT !.mined = @ \cup {v.record[h]}]
           x == [v EXCEPT !.record[h] = None, !.alive = Freed(@, {v.record[h]})]
           t == UpdateTx(s, h)
<1>1. /\ t = IF ~ Held(v, h) THEN v ELSE IF h \in Ours THEN w ELSE x
      /\ B \subseteq s.listed /\ error \in Verdicts
      /\ \A e \in s.listed : e \in B <=> e.hash = h
  BY DEF UpdateTx, EntriesOf, Verdicts
<1> HIDE DEF t, B, error
<1>2. /\ Good(u) /\ u.listed = s.listed \ B /\ u.record = s.record /\ u.mined = s.mined
      /\ u.queue \in Seq(Answer)
      /\ \A c \in Calls : Waiting(u, c) + InSeq(c, u.queue) = Waiting(s, c) + InSeq(c, s.queue)
      /\ \A W \in SUBSET Objs : Owned(s, W) => Owned(u, W)
  BY <1>1, DropKeeps, Zenon
<1> HIDE DEF u
<1>3. /\ v \in Tables /\ v.listed = u.listed /\ v.queue = u.queue /\ v.record = u.record
      /\ v.alive = u.alive /\ v.mined = u.mined
  <2> DEFINE R == [u.relays EXCEPT ![h] = {}]
             V == u.vouched \ {h}
             J == [u.rejects EXCEPT ![h] = {}]
  <2>1. R \in [Txs -> SUBSET Peers] /\ J \in [Txs -> SUBSET Peers] /\ V \in SUBSET Txs
    BY <1>2 DEF Good, Tables
  <2>2. v = [u EXCEPT !.relays = R, !.vouched = V, !.rejects = J]
    BY <1>2 DEF Good, Tables
  <2> HIDE DEF R, V, J, v
  <2> QED
    BY <1>2, <2>1, <2>2 DEF Good, Tables
<1> HIDE DEF v
<1>4. Good(v) /\ (\A W : Owned(u, W) => Owned(v, W)) /\ \A c : Waiting(v, c) = Waiting(u, c)
  BY <1>2, <1>3, SameKeeps DEF Same
<1>5. \A e \in v.listed : e \in s.listed /\ e.hash # h
  BY <1>1, <1>2, <1>3
<1>6. \A c \in Calls : Waiting(v, c) + InSeq(c, v.queue) = Waiting(s, c) + InSeq(c, s.queue)
  BY <1>2, <1>3, <1>4
<1>7. CASE ~ Held(v, h)
  <2>1. t = v /\ s.record[h] = None
    BY <1>1, <1>2, <1>3, <1>7 DEF Held
  <2> QED
    BY <1>2, <1>3, <1>4, <1>5, <1>6, <2>1 DEF t
<1>8. CASE Held(v, h) /\ h \in Ours
  <2>1. t = w
    BY <1>1, <1>8
  <2>2. v.record[h] \in Objs
    BY <1>4, <1>8 DEF Good, Tables, Held
  <2>3. /\ w \in Tables /\ w.listed = v.listed /\ w.queue = v.queue /\ w.record = v.record
        /\ w.alive = v.alive
    BY <1>4, <2>2 DEF Good, Tables
  <2> HIDE DEF w
  <2>4. Good(w) /\ (\A W : Owned(v, W) => Owned(w, W)) /\ \A c : Waiting(w, c) = Waiting(v, c)
    BY <1>4, <2>3, SameKeeps DEF Same
  <2> QED
    BY <1>2, <1>3, <1>4, <1>5, <1>6, <1>8, <2>1, <2>3, <2>4 DEF t
<1>9. CASE Held(v, h) /\ h \notin Ours
  <2> DEFINE G == {h}
             y == Forget(v, G)
  <2>1. t = x
    BY <1>1, <1>9
  <2>2. x = y
    <3> DEFINE R == [g \in Txs |-> IF g \in G THEN None ELSE v.record[g]]
    <3>1. R = [v.record EXCEPT ![h] = None]
      BY <1>4 DEF Good, Tables
    <3>2. {v.record[g] : g \in G} = {v.record[h]}
      OBVIOUS
    <3>3. y = [v EXCEPT !.record = R, !.alive = Freed(v.alive, {v.record[h]})]
      BY <1>4, <3>2 DEF Forget, Good, Tables
    <3>4. x = [v EXCEPT !.record = [v.record EXCEPT ![h] = None], !.alive = Freed(v.alive, {v.record[h]})]
      BY <1>4 DEF Good, Tables
    <3> HIDE DEF R, x, y
    <3> QED
      BY <3>1, <3>3, <3>4
  <2>3. G \in SUBSET Txs
    OBVIOUS
  <2> HIDE DEF x, y, G
  <2>4. /\ Good(y) /\ y.listed = v.listed /\ y.queue = v.queue /\ y.mined = v.mined
        /\ \A g \in Txs : y.record[g] = IF g \in G THEN None ELSE v.record[g]
        /\ \A W \in SUBSET Objs :
             /\ Owned(v, W)
             /\ \A g \in G : v.record[g] # None /\ v.record[g] \notin W
             /\ \A e \in v.listed : e.hash \notin G
             => Owned(y, W)
    <3> USE DEF y
    <3> QED
      BY <1>4, <2>3, ForgetKeeps, Zenon
  <2>5. ASSUME NEW W \in SUBSET Objs, Owned(s, W), \A o \in W : HashOf[o] # h PROVE Owned(y, W)
    <3>1. Owned(v, W)
      BY <1>2, <1>4, <2>5
    <3>2. \A g \in G : v.record[g] # None /\ v.record[g] \notin W
      BY <1>4, <1>9, <2>5 DEF G, Held, Good, Filed
    <3>3. \A e \in v.listed : e.hash \notin G
      BY <1>5 DEF G
    <3> QED
      BY <2>4, <3>1, <3>2, <3>3
  <2>6. \A c \in Calls : Waiting(y, c) + InSeq(c, y.queue) = Waiting(s, c) + InSeq(c, s.queue)
    BY <1>6, <2>4 DEF Waiting
  <2>7. \A g \in Txs : y.record[g] = IF g = h /\ h \notin Ours THEN None ELSE s.record[g]
    BY <1>2, <1>3, <1>9, <2>4 DEF G
  <2> QED
    BY <1>5, <1>9, <2>1, <2>2, <2>4, <2>5, <2>6, <2>7 DEF t
<1> QED
  BY <1>7, <1>8, <1>9

(* The wallet's own object may be taken up by a hand.                      *)
LEMMA SharedBack ==
  ASSUME NEW s, Good(s), NEW W, NEW o \in Objs, Owned(s, W \ {o}), s.record[HashOf[o]] = o
  PROVE  Owned(s, W)
<1>1. \A e \in s.listed : e.obj \in Objs /\ e.hash \in Txs /\ HashOf[e.obj] = e.hash
  BY DEF Good, Filed, Tables, PubEntry
<1>2. HashOf[o] \in Txs /\ o # None
  BY PublishAssumption
<1> QED
  BY <1>1, <1>2 DEF Owned

(* The wallet takes a listed object and the entry follows it.              *)
LEMMA RegisterListed ==
  ASSUME NEW s, Good(s), NEW o \in Objs, NEW keep \in BOOLEAN,
         s.record[HashOf[o]] # None \/ \E e \in s.listed : e.obj = o
  PROVE  LET t == OwnershipFollowsObject(Register(s, o, keep), HashOf[o])
         IN /\ Good(t) /\ t.queue = s.queue /\ t.alive = s.alive /\ t.mined = s.mined
            /\ \A c : Waiting(t, c) = Waiting(s, c)
            /\ \A g \in Txs : s.record[g] # None => t.record[g] = s.record[g]
            /\ \A W : Owned(s, W) => Owned(t, W)
<1> DEFINE h == HashOf[o]
           r == Register(s, o, keep)
           t == OwnershipFollowsObject(r, h)
<1>1. h \in Txs
  BY PublishAssumption
<1>2. /\ Good(r)
      /\ r.listed = s.listed /\ r.queue = s.queue /\ r.alive = s.alive /\ r.mined = s.mined
      /\ IF s.record[h] = None /\ keep THEN r.record = [s.record EXCEPT ![h] = o] ELSE r = s
  BY RegisterKeeps
<1>3. /\ Good(t)
      /\ t.queue = r.queue /\ t.record = r.record /\ t.alive = r.alive /\ t.mined = r.mined
      /\ \A W : Owned(r, W) => Owned(t, W)
      /\ \A c : Waiting(t, c) = Waiting(r, c)
  <2> HIDE DEF r, h
  <2> QED
    BY <1>1, <1>2, FollowsKeeps
<1>4. ASSUME NEW W, Owned(s, W) PROVE Owned(t, W)
  <2>1. CASE s.record[h] # None
    <3>1. Owned(r, W)
      BY <1>2, <1>4, <2>1
    <3> QED
      BY <1>3, <3>1
  <2>2. CASE s.record[h] = None
    <3>1. PICK e \in s.listed : e.obj = o
      BY <2>2
    <3>2. e.hash = h
      BY <3>1 DEF Good, Filed
    <3> QED
      BY <1>4, <3>1, <3>2, AdoptListed
  <2> QED
    BY <2>1, <2>2
<1> HIDE DEF r, t
<1>5. \A g \in Txs : s.record[g] # None => t.record[g] = s.record[g]
  BY <1>1, <1>2, <1>3 DEF Good, Tables
<1>6. \A c : Waiting(t, c) = Waiting(s, c)
  BY <1>2, <1>3 DEF Waiting
<1> QED
  BY <1>2, <1>3, <1>4, <1>5, <1>6 DEF t, r

----------------------------------------------------------------------------
(* Where the callbacks are *)

HandType == [Threads -> [calls : Seq(Answer), flush : BOOLEAN]]

Mark(c, q)    == {i \in DOMAIN q : q[i].call = c}
InHands(c, H) == UNION {{t} \X Mark(c, H[t].calls) : t \in Threads}

(* Only finitely many answers are in hands.                                *)
LEMMA HandsFinite ==
  ASSUME NEW c, NEW H \in HandType
  PROVE  IsFiniteSet(InHands(c, H)) /\ Cardinality(InHands(c, H)) \in Nat
<1> DEFINE of(u) == {u} \X Mark(c, H[u].calls)
           all == {of(u) : u \in Threads}
           f == [u \in Threads |-> of(u)]
<1>1. IsFiniteSet(Threads)
  BY PublishAssumption, FS_AddElement DEF Threads
<1>2. f \in Surjection(Threads, all)
  BY DEF Surjection
<1>3. IsFiniteSet(all)
  BY <1>1, <1>2, FS_Surjection
<1>4. ASSUME NEW u \in Threads PROVE IsFiniteSet(of(u))
  <2>1. H[u].calls \in Seq(Answer)
    BY DEF HandType
  <2>2. IsFiniteSet(Mark(c, H[u].calls))
    BY <2>1, InSeqIsNat DEF Mark
  <2>3. [i \in Mark(c, H[u].calls) |-> <<u, i>>] \in Surjection(Mark(c, H[u].calls), of(u))
    BY DEF Surjection
  <2> QED
    BY <2>2, <2>3, FS_Surjection
<1>5. IsFiniteSet(UNION all)
  <2>1. \A T \in all : IsFiniteSet(T)
    BY <1>4
  <2> HIDE DEF all
  <2> QED
    BY <1>3, <2>1, FS_UNION
<1>6. IsFiniteSet(InHands(c, H))
  BY <1>5 DEF InHands
<1> QED
  BY <1>6, FS_CardinalityType

(* What one thread's hand contributes.                                     *)
LEMMA HandsOf ==
  ASSUME NEW c, NEW H \in HandType, NEW t \in Threads
  PROVE  LET rest == {p \in InHands(c, H) : p[1] # t}
         IN /\ Cardinality(rest) \in Nat /\ InSeq(c, H[t].calls) \in Nat
            /\ Cardinality(InHands(c, H)) = Cardinality(rest) + InSeq(c, H[t].calls)
<1> DEFINE rest == {p \in InHands(c, H) : p[1] # t}
           own == Mark(c, H[t].calls)
           mine == {t} \X own
           f == [i \in own |-> <<t, i>>]
<1>1. IsFiniteSet(InHands(c, H))
  BY HandsFinite
<1>2. IsFiniteSet(rest) /\ Cardinality(rest) \in Nat
  <2>1. rest \subseteq InHands(c, H)
    OBVIOUS
  <2>2. IsFiniteSet(rest)
    BY <1>1, <2>1, FS_Subset
  <2> QED
    BY <2>2, FS_CardinalityType
<1>3. IsFiniteSet(own) /\ InSeq(c, H[t].calls) \in Nat /\ InSeq(c, H[t].calls) = Cardinality(own)
  <2>1. H[t].calls \in Seq(Answer)
    BY DEF HandType
  <2> QED
    BY <2>1, InSeqIsNat DEF Mark, InSeq
<1>4. f \in Bijection(own, mine)
  <2>1. f \in [own -> mine]
    OBVIOUS
  <2>2. \A i, j \in own : f[i] = f[j] => i = j
    OBVIOUS
  <2>3. \A p \in mine : \E i \in own : f[i] = p
    OBVIOUS
  <2> HIDE DEF f, mine, own
  <2> QED
    BY <2>1, <2>2, <2>3 DEF Bijection, Injection, Surjection, IsInjective
<1>5. InHands(c, H) = rest \cup mine
  <2>1. mine \subseteq InHands(c, H)
    BY DEF InHands
  <2>2. \A p \in InHands(c, H) : p[1] = t => p \in mine
    BY DEF InHands
  <2> QED
    BY <2>1, <2>2
<1>6. rest \cap mine = {}
  OBVIOUS
<1> HIDE DEF rest, mine, own
<1>7. IsFiniteSet(mine) /\ Cardinality(mine) = Cardinality(own)
  BY <1>3, <1>4, FS_Bijection DEF ExistsBijection
<1>8. Cardinality(InHands(c, H)) = Cardinality(rest) + Cardinality(mine) - Cardinality(rest \cap mine)
  BY <1>2, <1>5, <1>7, FS_Union
<1>9. Cardinality(rest \cap mine) = 0
  BY <1>6, FS_EmptySet
<1>10. Cardinality(InHands(c, H)) = Cardinality(rest) + InSeq(c, H[t].calls)
  BY <1>2, <1>3, <1>7, <1>8, <1>9
<1> QED
  BY <1>2, <1>3, <1>10 DEF rest

(* A thread whose hand changes alone changes the count by its own.         *)
LEMMA HandMoves ==
  ASSUME NEW c, NEW H \in HandType, NEW K \in HandType, NEW t \in Threads,
         \A u \in Threads \ {t} : K[u].calls = H[u].calls
  PROVE  /\ Cardinality(InHands(c, H)) \in Nat /\ Cardinality(InHands(c, K)) \in Nat
         /\ Cardinality(InHands(c, K)) + InSeq(c, H[t].calls)
            = Cardinality(InHands(c, H)) + InSeq(c, K[t].calls)
<1> DEFINE a == Cardinality({p \in InHands(c, H) : p[1] # t})
           b == Cardinality({p \in InHands(c, K) : p[1] # t})
<1>1. {p \in InHands(c, K) : p[1] # t} = {p \in InHands(c, H) : p[1] # t}
  BY DEF InHands
<1>2. a = b
  BY <1>1
<1>3. a \in Nat /\ InSeq(c, H[t].calls) \in Nat
      /\ Cardinality(InHands(c, H)) = a + InSeq(c, H[t].calls)
  BY HandsOf
<1>4. b \in Nat /\ InSeq(c, K[t].calls) \in Nat
      /\ Cardinality(InHands(c, K)) = b + InSeq(c, K[t].calls)
  BY HandsOf
<1> HIDE DEF a, b
<1> QED
  BY <1>2, <1>3, <1>4

(* Whether a callback is with the window, and whether it is due an answer. *)
Win(c) == IF window # None /\ window.call = c THEN 1 ELSE 0
Due(c) == IF c \in passed \ unheard THEN 1 ELSE 0

LEMMA PlacesAre ==
  ASSUME Good(m)
  PROVE  \A c \in Calls : Places(c) = Waiting(m, c) + InSeq(c, m.queue)
                                      + Cardinality(InHands(c, hand)) + Win(c) + Len(answers[c])
<1>1. \A c \in Calls : Cardinality({e \in m.listed : e.call = c}) = Waiting(m, c)
  BY ListFinite
<1>2. \A c : InHands(c, hand)
             = UNION {{t} \X {i \in DOMAIN hand[t].calls : hand[t].calls[i].call = c} : t \in Threads}
  BY DEF InHands, Mark
<1>3. ASSUME NEW c \in Calls
      PROVE  Places(c) = Cardinality({e \in m.listed : e.call = c}) + InSeq(c, m.queue)
                         + Cardinality(InHands(c, hand)) + Win(c) + Len(answers[c])
  BY <1>2, Zenon DEF Places, Win
<1> QED
  BY <1>1, <1>3

LEMMA PlacesAreNext ==
  ASSUME Good(m')
  PROVE  \A c \in Calls : Places(c)' = Waiting(m', c) + InSeq(c, m'.queue)
                                       + Cardinality(InHands(c, hand')) + Win(c)' + Len(answers'[c])
<1>1. \A c \in Calls : Cardinality({e \in m'.listed : e.call = c}) = Waiting(m', c)
  BY ListFinite
<1>2. \A c : InHands(c, hand')
             = UNION {{t} \X {i \in DOMAIN hand'[t].calls : hand'[t].calls[i].call = c} : t \in Threads}
  BY DEF InHands, Mark
<1>3. ASSUME NEW c \in Calls
      PROVE  Places(c)' = Cardinality({e \in m'.listed : e.call = c}) + InSeq(c, m'.queue)
                          + Cardinality(InHands(c, hand')) + Win(c)' + Len(answers'[c])
  BY <1>2, Zenon DEF Places, Win
<1> QED
  BY <1>1, <1>3

(* A step that moves callbacks between places, or adds one that is due.    *)
LEMMA Balance ==
  ASSUME Good(m), Good(m'), hand \in HandType, hand' \in HandType,
         answers \in [Calls -> Seq(Verdicts)], answers' \in [Calls -> Seq(Verdicts)],
         AnsweredOnce, NEW t \in Threads, \A u \in Threads \ {t} : hand'[u].calls = hand[u].calls,
         \A c \in Calls :
            Waiting(m', c) + InSeq(c, m'.queue) + InSeq(c, hand'[t].calls) + Win(c)' + Len(answers'[c])
              + Due(c)
            = Waiting(m, c) + InSeq(c, m.queue) + InSeq(c, hand[t].calls) + Win(c) + Len(answers[c])
              + Due(c)'
  PROVE  AnsweredOnce'
<1> SUFFICES ASSUME NEW c \in Calls PROVE Places(c)' = Due(c)'
  BY DEF AnsweredOnce, Due
<1>1. Places(c) = Due(c)
  BY DEF AnsweredOnce, Due
<1>2. /\ Places(c) = Waiting(m, c) + InSeq(c, m.queue) + Cardinality(InHands(c, hand)) + Win(c)
                     + Len(answers[c])
      /\ Places(c)' = Waiting(m', c) + InSeq(c, m'.queue) + Cardinality(InHands(c, hand')) + Win(c)'
                      + Len(answers'[c])
  BY PlacesAre, PlacesAreNext
<1>3. /\ Cardinality(InHands(c, hand)) \in Nat /\ Cardinality(InHands(c, hand')) \in Nat
      /\ Cardinality(InHands(c, hand')) + InSeq(c, hand[t].calls)
         = Cardinality(InHands(c, hand)) + InSeq(c, hand'[t].calls)
  BY HandMoves
<1>4. /\ InSeq(c, hand[t].calls) \in Nat /\ InSeq(c, hand'[t].calls) \in Nat
      /\ InSeq(c, m.queue) \in Nat /\ InSeq(c, m'.queue) \in Nat
  <2>1. /\ hand[t].calls \in Seq(Answer) /\ hand'[t].calls \in Seq(Answer)
        /\ m.queue \in Seq(Answer) /\ m'.queue \in Seq(Answer)
    BY DEF HandType, Good, Tables
  <2> QED
    BY <2>1, InSeqIsNat
<1>5. /\ Waiting(m, c) \in Nat /\ Waiting(m', c) \in Nat /\ Win(c) \in Nat /\ Win(c)' \in Nat
      /\ Due(c) \in Nat /\ Due(c)' \in Nat
  BY DEF Waiting, Win, Due
<1>6. Len(answers[c]) \in Nat /\ Len(answers'[c]) \in Nat
  BY LenProperties
<1> DEFINE w1 == Waiting(m, c)
           w2 == Waiting(m', c)
           q1 == InSeq(c, m.queue)
           q2 == InSeq(c, m'.queue)
           h1 == Cardinality(InHands(c, hand))
           h2 == Cardinality(InHands(c, hand'))
           i1 == InSeq(c, hand[t].calls)
           i2 == InSeq(c, hand'[t].calls)
           v1 == Win(c)
           v2 == Win(c)'
           l1 == Len(answers[c])
           l2 == Len(answers'[c])
           d1 == Due(c)
           d2 == Due(c)'
<1>7. /\ w2 + q2 + i2 + v2 + l2 + d1 = w1 + q1 + i1 + v1 + l1 + d2
      /\ h2 + i1 = h1 + i2 /\ w1 + q1 + h1 + v1 + l1 = d1
      /\ Places(c)' = w2 + q2 + h2 + v2 + l2
  BY <1>1, <1>2, <1>3
<1>8. /\ w1 \in Nat /\ w2 \in Nat /\ q1 \in Nat /\ q2 \in Nat /\ h1 \in Nat /\ h2 \in Nat
      /\ i1 \in Nat /\ i2 \in Nat /\ v1 \in Nat /\ v2 \in Nat /\ l1 \in Nat /\ l2 \in Nat
      /\ d1 \in Nat /\ d2 \in Nat
  BY <1>3, <1>4, <1>5, <1>6
<1> HIDE DEF w1, w2, q1, q2, h1, h2, i1, i2, v1, v2, l1, l2, d1, d2
<1>9. w2 + q2 + h2 + v2 + l2 = d2
  BY <1>7, <1>8
<1> QED
  BY <1>7, <1>9 DEF d2

(* The end of a handler.                                                   *)
LEMMA Handler ==
  ASSUME ListInv, AnsweredOnce, NEW t \in Threads, Idle(t), t = App => window = None,
         NEW calls, calls \in Seq(Answer), Then(t, calls), Good(m'),
         \A c \in Calls : Waiting(m', c) + InSeq(c, m'.queue) + InSeq(c, calls)
                          = Waiting(m, c) + InSeq(c, m.queue),
         UNCHANGED <<window, answers, passed, unheard>>
  PROVE  hand' \in HandType /\ WindowWaits' /\ AnsweredOnce'
<1>1. hand \in HandType /\ answers \in [Calls -> Seq(Verdicts)] /\ Good(m)
  BY DEF ListInv, Others, HandType
<1> DEFINE r == [calls |-> calls, flush |-> TRUE]
<1>2. r \in [calls : Seq(Answer), flush : BOOLEAN] /\ r.calls = calls /\ hand' = [hand EXCEPT ![t] = r]
  BY DEF Then
<1> HIDE DEF r
<1>3. hand' \in HandType /\ hand'[t].calls = calls
      /\ \A u \in Threads \ {t} : hand'[u] = hand[u]
  BY <1>1, <1>2 DEF HandType
<1>4. hand[t].calls = <<>>
  BY DEF Idle
<1>5. WindowWaits'
  <2>1. window # None => t # App /\ App \in Threads
    BY DEF Threads
  <2> QED
    BY <1>3, <2>1 DEF WindowWaits, ListInv
<1>6. \A c : Win(c)' = Win(c) /\ Due(c)' = Due(c)
  BY DEF Win, Due
<1>7. ASSUME NEW c \in Calls
      PROVE  Waiting(m', c) + InSeq(c, m'.queue) + InSeq(c, hand'[t].calls) + Win(c)'
               + Len(answers'[c]) + Due(c)
             = Waiting(m, c) + InSeq(c, m.queue) + InSeq(c, hand[t].calls) + Win(c)
               + Len(answers[c]) + Due(c)'
  <2>1. InSeq(c, <<>>) = 0 /\ InSeq(c, m.queue) \in Nat
    BY <1>1, InSeqIsNat DEF Good, Tables
  <2>2. Waiting(m, c) \in Nat
    BY DEF Waiting
  <2>3. InSeq(c, hand'[t].calls) = InSeq(c, calls) /\ InSeq(c, hand[t].calls) = 0
    BY <1>3, <1>4, <2>1
  <2>4. Waiting(m', c) + InSeq(c, m'.queue) + InSeq(c, hand'[t].calls)
        = Waiting(m, c) + InSeq(c, m.queue) + InSeq(c, hand[t].calls)
    BY <2>1, <2>2, <2>3
  <2> QED
    BY <1>6, <2>4
<1>8. AnsweredOnce'
  <2>1. answers' \in [Calls -> Seq(Verdicts)] /\ \A u \in Threads \ {t} : hand'[u].calls = hand[u].calls
    BY <1>1, <1>3
  <2> QED
    BY <1>1, <1>3, <1>7, <2>1, Balance
<1> QED
  BY <1>3, <1>5, <1>8

(* A step that leaves callbacks where they are.                            *)
LEMMA Quiet ==
  ASSUME ListInv, AnsweredOnce, Good(m'),
         \A c \in Calls : Waiting(m', c) + InSeq(c, m'.queue) = Waiting(m, c) + InSeq(c, m.queue),
         UNCHANGED <<hand, window, answers, passed, unheard>>
  PROVE  WindowWaits' /\ AnsweredOnce'
<1>1. hand \in HandType /\ answers \in [Calls -> Seq(Verdicts)] /\ Good(m) /\ App \in Threads
  BY DEF ListInv, Others, HandType, Threads
<1>2. \A c : Win(c)' = Win(c) /\ Due(c)' = Due(c)
  BY DEF Win, Due
<1>3. AnsweredOnce'
  <2>1. ASSUME NEW c \in Calls
        PROVE  Waiting(m', c) + InSeq(c, m'.queue) + InSeq(c, hand'[App].calls) + Win(c)'
                 + Len(answers'[c]) + Due(c)
               = Waiting(m, c) + InSeq(c, m.queue) + InSeq(c, hand[App].calls) + Win(c)
                 + Len(answers[c]) + Due(c)'
    BY <1>2
  <2>2. hand' \in HandType /\ answers' \in [Calls -> Seq(Verdicts)]
        /\ \A u \in Threads \ {App} : hand'[u].calls = hand[u].calls
    BY <1>1
  <2> QED
    BY <1>1, <2>1, <2>2, Balance
<1>4. WindowWaits'
  BY DEF WindowWaits, ListInv
<1> QED
  BY <1>3, <1>4

(* What a peer is told keeps the shape of its connection.                  *)
LEMMA LinksKeep ==
  ASSUME NEW s, NEW N \in [Peers -> Link], NEW P
  PROVE  /\ AnnounceTo(s, N, P) \in [Peers -> Link] /\ LoadMempools(s, N) \in [Peers -> Link]
         /\ \A link \in Link : \A p : Announced(s, link, p) \in Link /\ Mempooled(s, link, p) \in Link
<1>1. ASSUME NEW link \in Link, NEW p PROVE Announced(s, link, p) \in Link
  <2> DEFINE k == [h \in Txs |-> IF Listed(s, h) /\ ~HidesFrom(s, h, p) /\ link.known[h] = "no"
                                 THEN "told" ELSE link.known[h]]
  <2>1. k \in [Txs -> {"no", "told", "inv", "mempool"}]
    BY DEF Link
  <2>2. Announced(s, link, p) = [link EXCEPT !.known = k]
    BY DEF Announced, Link
  <2> HIDE DEF k
  <2> QED
    BY <2>1, <2>2 DEF Link
<1>2. ASSUME NEW link \in Link, NEW p PROVE Mempooled(s, link, p) \in Link
  <2> DEFINE k == [h \in Txs |-> IF Listed(s, h) /\ link.known[h] = "no" THEN "mempool" ELSE link.known[h]]
  <2>1. k \in [Txs -> {"no", "told", "inv", "mempool"}]
    BY DEF Link
  <2>2. Mempooled(s, link, p) = IF p \notin Bloom \/ link.mempool THEN link
                                ELSE [link EXCEPT !.mempool = TRUE, !.known = k]
    BY DEF Mempooled, Link
  <2> HIDE DEF k
  <2> QED
    BY <2>1, <2>2 DEF Link
<1>3. AnnounceTo(s, N, P) \in [Peers -> Link]
  BY <1>1 DEF AnnounceTo
<1>4. LoadMempools(s, N) \in [Peers -> Link]
  BY <1>1, <1>2 DEF LoadMempools
<1> QED
  BY <1>1, <1>2, <1>3, <1>4

----------------------------------------------------------------------------
(* One lemma for each action: what it keeps. *)

Keeps == /\ ListInv' /\ AnsweredOnce'
         /\ SendsBuildOnLoneReceives /\ Owned(m, InWindow) => Owned(m', InWindow')

LEMMA WindowIs ==
  ASSUME ListInv
  PROVE  /\ InWindow \in SUBSET Objs /\ \A o \in InWindow : HashOf[o] \in Sends
         /\ UNCHANGED window => InWindow' = InWindow
  BY DEF ListInv, Others, WindowWaits, InWindow

LEMMA HandsAreTyped ==
  ASSUME ListInv
  PROVE  Good(m) /\ hand \in HandType /\ App \in Threads /\ Peers \subseteq Threads /\ App \notin Peers
  BY PublishAssumption DEF ListInv, Others, HandType, Threads

LEMMA HasTxKeeps ==
  ASSUME ListInv, AnsweredOnce, NEW p \in Peers, NEW h \in Txs, NEW keep \in BOOLEAN, HasTx(p, h, keep)
  PROVE  Keeps
<1> DEFINE o == ObjectOf(h)
           s == TakeAndVouch(m, h, p)
           t == OwnershipFollowsObject(Register(s, o, keep), h)
           u == IF syncing THEN t ELSE Vouch(t, h, p)
           calls == Taken(m, h)
<1>1. Good(m) /\ p \in Threads /\ p # App /\ hand \in HandType
  BY HandsAreTyped
<1>2. /\ Good(s) /\ calls \in Seq(Answer)
      /\ s.queue = m.queue /\ s.record = m.record /\ s.alive = m.alive /\ s.mined = m.mined
      /\ \A W : Owned(m, W) => Owned(s, W)
      /\ \A c \in Calls : Waiting(s, c) + InSeq(c, calls) = Waiting(m, c)
      /\ \A e \in s.listed : \E f \in m.listed : e.hash = f.hash /\ e.obj = f.obj
      /\ \A f \in m.listed : \E e \in s.listed : e.hash = f.hash /\ e.obj = f.obj
  BY <1>1, TakeAndVouchKeeps, Zenon
<1>3. /\ o \in Objs /\ HashOf[o] = h
      /\ s.record[h] # None \/ \E e \in s.listed : e.obj = o
  <2> HIDE DEF s
  <2>1. CASE Held(m, h)
    <3>1. o = m.record[h]
      BY <2>1 DEF ObjectOf
    <3> QED
      BY <1>1, <1>2, <2>1, <3>1 DEF Held, Good, Filed, Tables
  <2>2. CASE ~ Held(m, h)
    <3>1. EntriesOf(m, h) # {}
      BY <2>2 DEF HasTx, Listed
    <3>2. PICK e \in EntriesOf(m, h) : o = e.obj
      BY <2>2, <3>1 DEF ObjectOf
    <3>3. e \in m.listed /\ e.hash = h
      BY DEF EntriesOf
    <3>4. o \in Objs /\ HashOf[o] = h
      BY <1>1, <3>2, <3>3 DEF Good, Filed, Tables, PubEntry
    <3> QED
      BY <1>2, <3>2, <3>3, <3>4
  <2> QED
    BY <2>1, <2>2
<1> HIDE DEF o, s
<1>4. /\ Good(t) /\ t.queue = s.queue /\ t.alive = s.alive /\ t.mined = s.mined
      /\ \A c : Waiting(t, c) = Waiting(s, c)
      /\ \A g \in Txs : s.record[g] # None => t.record[g] = s.record[g]
      /\ \A W : Owned(s, W) => Owned(t, W)
  <2>1. LET x == OwnershipFollowsObject(Register(s, o, keep), HashOf[o])
        IN /\ Good(x) /\ x.queue = s.queue /\ x.alive = s.alive /\ x.mined = s.mined
           /\ \A c : Waiting(x, c) = Waiting(s, c)
           /\ \A g \in Txs : s.record[g] # None => x.record[g] = s.record[g]
           /\ \A W : Owned(s, W) => Owned(x, W)
    BY <1>2, <1>3, RegisterListed
  <2> QED
    BY <1>3, <2>1
<1> HIDE DEF t
<1>5. Good(u) /\ u.queue = t.queue /\ (\A c : Waiting(u, c) = Waiting(t, c)) /\ \A W : Owned(t, W) => Owned(u, W)
  <2>1. Same(Vouch(t, h, p), t)
    BY <1>4, VouchSame
  <2>2. /\ Good(Vouch(t, h, p)) /\ \A W : Owned(t, W) => Owned(Vouch(t, h, p), W)
        /\ \A c : Waiting(Vouch(t, h, p), c) = Waiting(t, c)
    BY <1>4, <2>1, SameKeeps
  <2> QED
    BY <1>4, <2>1, <2>2 DEF Same
<1> HIDE DEF u
<1>6. m' = Unrequest(u, h, p)
  BY DEF HasTx, u, t, s, o
<1>7. Good(m') /\ m'.queue = u.queue /\ (\A c : Waiting(m', c) = Waiting(u, c)) /\ \A W : Owned(u, W) => Owned(m', W)
  <2>1. Same(m', u)
    BY <1>5, <1>6, VouchSame
  <2>2. /\ Good(m') /\ \A W : Owned(u, W) => Owned(m', W)
        /\ \A c : Waiting(m', c) = Waiting(u, c)
    BY <1>5, <2>1, SameKeeps
  <2> QED
    BY <2>1, <2>2 DEF Same
<1>8. /\ Idle(p) /\ Then(p, calls) /\ UNCHANGED <<net, download, syncing, failures, phase, window, answers, passed, unheard>>
  BY DEF HasTx, Running
<1> HIDE DEF calls
<1>9. ASSUME NEW c \in Calls
      PROVE  Waiting(m', c) + InSeq(c, m'.queue) + InSeq(c, calls) = Waiting(m, c) + InSeq(c, m.queue)
  <2>1. m'.queue = m.queue /\ Waiting(m', c) = Waiting(s, c) /\ Waiting(s, c) + InSeq(c, calls) = Waiting(m, c)
    BY <1>2, <1>4, <1>5, <1>7
  <2>2. InSeq(c, m.queue) \in Nat /\ InSeq(c, calls) \in Nat /\ Waiting(s, c) \in Nat
    BY <1>1, <1>2, InSeqIsNat DEF Good, Tables, Waiting
  <2> QED
    BY <2>1, <2>2
<1>10. hand' \in HandType /\ WindowWaits' /\ AnsweredOnce'
  BY <1>1, <1>2, <1>7, <1>8, <1>9, Handler
<1>11. ListInv'
  BY <1>7, <1>8, <1>10 DEF ListInv, Others, HandType
<1>12. InWindow' = InWindow
  BY <1>8, WindowIs
<1> QED
  BY <1>2, <1>4, <1>5, <1>7, <1>10, <1>11, <1>12 DEF Keeps

LEMMA RequestedTxKeeps ==
  ASSUME ListInv, AnsweredOnce, NEW p \in Peers, NEW h \in Txs, NEW keep \in BOOLEAN,
         RequestedTx(p, h, keep)
  PROVE  Keeps
<1> DEFINE o == (CHOOSE e \in EntriesOf(m, h) : TRUE).obj
           v == Take(m, h)
           s == IF Stemming(m, h) THEN v ELSE Vouch(v, h, p)
           t == OwnershipFollowsObject(Register(s, o, keep), h)
           calls == Taken(m, h)
<1>1. Good(m) /\ p \in Threads /\ p # App /\ hand \in HandType
  BY HandsAreTyped
<1>2. /\ Idle(p) /\ UNCHANGED <<net, download, syncing, failures, phase, window, answers, passed, unheard>>
      /\ Listed(m, h)
  BY DEF RequestedTx, Running
<1>3. InWindow' = InWindow
  BY <1>2, WindowIs
<1>4. CASE Valid(m, h)
  <2>1. m' = t /\ Then(p, calls)
    BY <1>4 DEF RequestedTx
  <2>2. /\ Good(v) /\ calls \in Seq(Answer)
        /\ v.queue = m.queue /\ v.record = m.record /\ v.alive = m.alive /\ v.mined = m.mined
        /\ \A W : Owned(m, W) => Owned(v, W)
        /\ \A c \in Calls : Waiting(v, c) + InSeq(c, calls) = Waiting(m, c)
    BY <1>1, TakeKeeps
  <2>3. PICK f \in m.listed : f.hash = h /\ o = f.obj
    <3>1. EntriesOf(m, h) # {}
      BY <1>2 DEF Listed
    <3>2. \E f \in EntriesOf(m, h) : o = f.obj
      BY <3>1
    <3> QED
      BY <3>2 DEF EntriesOf
  <2> HIDE DEF o
  <2>4. \E e \in v.listed : e.obj = o
    <3> DEFINE g == [e \in m.listed |-> IF e.hash = h THEN [e EXCEPT !.call = None] ELSE e]
    <3>1. v.listed = {g[e] : e \in m.listed}
      BY <1>1 DEF Take, Good, Tables
    <3>2. \A e \in m.listed : g[e].obj = e.obj
      BY <1>1 DEF Good, Tables, PubEntry
    <3> HIDE DEF g, v
    <3> QED
      BY <2>3, <3>1, <3>2
  <2> HIDE DEF v
  <2>5. Good(s) /\ s.queue = v.queue /\ s.listed = v.listed
        /\ (\A c : Waiting(s, c) = Waiting(v, c)) /\ \A W : Owned(v, W) => Owned(s, W)
    <3>1. Same(Vouch(v, h, p), v)
      BY <2>2, VouchSame
    <3>2. /\ Good(Vouch(v, h, p)) /\ \A W : Owned(v, W) => Owned(Vouch(v, h, p), W)
          /\ \A c : Waiting(Vouch(v, h, p), c) = Waiting(v, c)
      BY <2>2, <3>1, SameKeeps
    <3> QED
      BY <2>2, <3>1, <3>2 DEF Same
  <2> HIDE DEF s
  <2>6. o \in Objs /\ HashOf[o] = h /\ \E e \in s.listed : e.obj = o
    BY <1>1, <2>3, <2>4, <2>5 DEF Good, Filed, Tables, PubEntry
  <2>7. /\ Good(t) /\ t.queue = s.queue /\ t.alive = s.alive /\ t.mined = s.mined
        /\ \A c : Waiting(t, c) = Waiting(s, c)
        /\ \A W : Owned(s, W) => Owned(t, W)
    <3>1. LET x == OwnershipFollowsObject(Register(s, o, keep), HashOf[o])
          IN /\ Good(x) /\ x.queue = s.queue /\ x.alive = s.alive /\ x.mined = s.mined
             /\ \A c : Waiting(x, c) = Waiting(s, c)
             /\ \A g \in Txs : s.record[g] # None => x.record[g] = s.record[g]
             /\ \A W : Owned(s, W) => Owned(x, W)
      BY <2>5, <2>6, RegisterListed
    <3> QED
      BY <2>6, <3>1
  <2> HIDE DEF t, calls
  <2>8. ASSUME NEW c \in Calls
        PROVE  Waiting(m', c) + InSeq(c, m'.queue) + InSeq(c, calls) = Waiting(m, c) + InSeq(c, m.queue)
    <3>1. m'.queue = m.queue /\ Waiting(m', c) = Waiting(v, c) /\ Waiting(v, c) + InSeq(c, calls) = Waiting(m, c)
      BY <2>1, <2>2, <2>5, <2>7
    <3>2. InSeq(c, m.queue) \in Nat /\ InSeq(c, calls) \in Nat /\ Waiting(v, c) \in Nat
      BY <1>1, <2>2, InSeqIsNat DEF Good, Tables, Waiting
    <3> QED
      BY <3>1, <3>2
  <2>9. hand' \in HandType /\ WindowWaits' /\ AnsweredOnce'
    BY <1>1, <1>2, <2>1, <2>2, <2>7, <2>8, Handler
  <2>10. ListInv'
    BY <1>2, <2>1, <2>7, <2>9 DEF ListInv, Others, HandType
  <2> QED
    BY <1>3, <2>1, <2>2, <2>5, <2>7, <2>9, <2>10 DEF Keeps
<1>5. CASE ~ Valid(m, h)
  <2> DEFINE B == EntriesOf(m, h)
             error == "EINVAL"
             none == <<>>
  <2>1. m' = DropEntries(m, B, error) /\ Then(p, none)
    BY <1>5 DEF RequestedTx
  <2>2. B \subseteq m.listed /\ error \in Verdicts /\ none \in Seq(Answer)
    BY DEF EntriesOf, Verdicts
  <2>3. \A c : InSeq(c, none) = 0
    BY InSeqIsNat, EmptySeq
  <2> HIDE DEF B, error, none
  <2>4. LET x == DropEntries(m, B, error)
        IN /\ Good(x) /\ x.listed = m.listed \ B /\ x.record = m.record /\ x.mined = m.mined
           /\ x.queue \in Seq(Answer)
           /\ \A c \in Calls : Waiting(x, c) + InSeq(c, x.queue) = Waiting(m, c) + InSeq(c, m.queue)
           /\ \A W \in SUBSET Objs : Owned(m, W) => Owned(x, W)
    BY <1>1, <2>2, DropKeeps, Zenon
  <2>5. /\ Good(m') /\ m'.queue \in Seq(Answer)
        /\ \A c \in Calls : Waiting(m', c) + InSeq(c, m'.queue) = Waiting(m, c) + InSeq(c, m.queue)
        /\ \A W \in SUBSET Objs : Owned(m, W) => Owned(m', W)
    BY <2>1, <2>4
  <2>6. ASSUME NEW c \in Calls
        PROVE  Waiting(m', c) + InSeq(c, m'.queue) + InSeq(c, none) = Waiting(m, c) + InSeq(c, m.queue)
    <3>1. Waiting(m', c) \in Nat /\ InSeq(c, m'.queue) \in Nat
      BY <2>5, InSeqIsNat DEF Waiting
    <3> QED
      BY <2>3, <2>5, <3>1
  <2>7. hand' \in HandType /\ WindowWaits' /\ AnsweredOnce'
    BY <1>1, <1>2, <2>1, <2>2, <2>5, <2>6, Handler
  <2>8. ListInv'
    BY <1>2, <2>5, <2>7 DEF ListInv, Others, HandType
  <2> QED
    BY <1>3, <2>5, <2>7, <2>8, WindowIs DEF Keeps
<1> QED
  BY <1>4, <1>5

(* A handler that takes no callback, and one that does not even flush.     *)
Types ==
    /\ net' \in [Peers -> Link] /\ download' \in Peers \cup {None} /\ syncing' \in BOOLEAN
    /\ failures' \in 0..MaxFailures + 1 /\ phase' \in {"running", "parked", "gone"}

LEMMA Silent ==
  ASSUME ListInv, AnsweredOnce, NEW t \in Threads, Idle(t), t = App => window = None,
         Then(t, <<>>), Good(m'), Types,
         \A c \in Calls : Waiting(m', c) + InSeq(c, m'.queue) = Waiting(m, c) + InSeq(c, m.queue),
         SendsBuildOnLoneReceives /\ Owned(m, InWindow) => Owned(m', InWindow),
         UNCHANGED <<window, answers, passed, unheard>>
  PROVE  Keeps
<1> DEFINE none == <<>>
<1>1. Then(t, none) /\ none \in Seq(Answer) /\ \A c : InSeq(c, none) = 0
  BY InSeqIsNat, EmptySeq
<1> HIDE DEF none
<1>2. ASSUME NEW c \in Calls
      PROVE  Waiting(m', c) + InSeq(c, m'.queue) + InSeq(c, none) = Waiting(m, c) + InSeq(c, m.queue)
  <2>1. Waiting(m', c) \in Nat /\ InSeq(c, m'.queue) \in Nat
    BY InSeqIsNat DEF Waiting, Good, Tables
  <2> QED
    BY <1>1, <2>1
<1>3. hand' \in HandType /\ WindowWaits' /\ AnsweredOnce'
  BY <1>1, <1>2, Handler
<1>4. ListInv'
  BY <1>3 DEF ListInv, Others, HandType, Types
<1> QED
  BY <1>3, <1>4, WindowIs DEF Keeps

LEMMA Still ==
  ASSUME ListInv, AnsweredOnce, Good(m'), Types,
         \A c \in Calls : Waiting(m', c) + InSeq(c, m'.queue) = Waiting(m, c) + InSeq(c, m.queue),
         SendsBuildOnLoneReceives /\ Owned(m, InWindow) => Owned(m', InWindow),
         UNCHANGED <<hand, window, answers, passed, unheard>>
  PROVE  Keeps
<1>1. WindowWaits' /\ AnsweredOnce'
  BY Quiet
<1>2. ListInv'
  BY <1>1 DEF ListInv, Others, Types
<1> QED
  BY <1>1, <1>2, WindowIs DEF Keeps

LEMMA TypesKept ==
  ASSUME ListInv, UNCHANGED <<download, syncing, failures, phase>>, net' \in [Peers -> Link]
  PROVE  Types
BY DEF ListInv, Others, Types

(* A step that changes only the bookkeeping of the list.                   *)
LEMMA SameBooks ==
  ASSUME NEW s, Good(s), NEW t, Same(t, s)
  PROVE  /\ Good(t) /\ \A W : Owned(s, W) => Owned(t, W)
         /\ \A c \in Calls : Waiting(t, c) + InSeq(c, t.queue) = Waiting(s, c) + InSeq(c, s.queue)
  BY SameKeeps DEF Same

LEMMA ConfirmKeeps ==
  ASSUME ListInv, AnsweredOnce, NEW p \in Peers, NEW h \in Txs, Confirm(p, h)
  PROVE  Keeps
<1>1. Good(m) /\ p \in Threads /\ p # App
  BY HandsAreTyped
<1>2. m' = UpdateTx(m, h) /\ Then(p, <<>>) /\ Idle(p)
      /\ UNCHANGED <<net, download, syncing, failures, phase, window, answers, passed, unheard>>
  BY DEF Confirm, Running
<1>3. /\ Good(m')
      /\ \A c \in Calls : Waiting(m', c) + InSeq(c, m'.queue) = Waiting(m, c) + InSeq(c, m.queue)
      /\ \A W \in SUBSET Objs :
           Owned(m, W) /\ (h \notin Ours => \A o \in W : HashOf[o] # h) => Owned(m', W)
  BY <1>1, <1>2, UpdateTxKeeps
<1>4. Owned(m, InWindow) => Owned(m', InWindow)
  BY <1>3, WindowIs, PublishAssumption
<1>5. Types
  BY <1>2, TypesKept DEF ListInv, Others
<1> QED
  BY <1>1, <1>2, <1>3, <1>4, <1>5, Silent

LEMMA UnrelayedDoneKeeps ==
  ASSUME ListInv, AnsweredOnce, NEW p \in Peers, NEW success \in BOOLEAN, NEW atTip \in BOOLEAN,
         UnrelayedDone(p, success, atTip)
  PROVE  Keeps
<1> DEFINE H == Unrelayed(m)
<1>1. Good(m) /\ p \in Threads /\ p # App
  BY HandsAreTyped
<1>2. /\ m' = RemoveAndPurge(m, H) \/ m' = m
      /\ Then(p, <<>>) /\ Idle(p)
      /\ net' = [net EXCEPT ![p].pinged = FALSE, ![p].synced = @ \/ success]
      /\ UNCHANGED <<download, syncing, failures, phase, window, answers, passed, unheard>>
  BY DEF UnrelayedDone
<1>3. H \in SUBSET Txs
  BY PublishAssumption DEF Unrelayed
<1>4. SendsBuildOnLoneReceives => Gone(m, H) \cap Sends = {}
  BY SweepSparesSends
<1> HIDE DEF H
<1>5. /\ Good(m')
      /\ \A c \in Calls : Waiting(m', c) + InSeq(c, m'.queue) = Waiting(m, c) + InSeq(c, m.queue)
      /\ SendsBuildOnLoneReceives /\ Owned(m, InWindow) => Owned(m', InWindow)
  <2>1. CASE m' = RemoveAndPurge(m, H)
    <3>1. /\ Good(m')
          /\ \A c \in Calls : Waiting(m', c) + InSeq(c, m'.queue) = Waiting(m, c) + InSeq(c, m.queue)
          /\ \A W \in SUBSET Objs :
               Owned(m, W) /\ (\A o \in W : HashOf[o] \notin Gone(m, H)) => Owned(m', W)
      BY <1>1, <1>3, <2>1, RemoveKeeps
    <3>2. SendsBuildOnLoneReceives => \A o \in InWindow : HashOf[o] \notin Gone(m, H)
      BY <1>4, WindowIs
    <3> QED
      BY <3>1, <3>2, WindowIs
  <2>2. CASE m' = m
    BY <1>1, <2>2
  <2> QED
    BY <1>2, <2>1, <2>2
<1>6. net' \in [Peers -> Link]
  <2>1. net \in [Peers -> Link]
    BY DEF ListInv, Others
  <2>2. [[net[p] EXCEPT !.pinged = FALSE] EXCEPT !.synced = @ \/ success] \in Link
    BY <2>1 DEF Link
  <2>3. net' = [net EXCEPT ![p] = [[net[p] EXCEPT !.pinged = FALSE] EXCEPT !.synced = @ \/ success]]
    BY <1>2, <2>1 DEF Link
  <2> QED
    BY <2>1, <2>2, <2>3
<1>7. Types
  BY <1>2, <1>6, TypesKept
<1> QED
  BY <1>1, <1>2, <1>5, <1>7, Silent

LEMMA RejectedTxKeeps ==
  ASSUME ListInv, AnsweredOnce, NEW p \in Peers, NEW h \in Txs, NEW code, RejectedTx(p, h, code)
  PROVE  Keeps
<1> DEFINE error == "EINVAL"
           s == [Unrequest(m, h, p) EXCEPT !.relays[h] = @ \ {p}]
           t == IF code = "invalid" /\ s.relays[h] = {} THEN AnswerEntry(s, h, error) ELSE s
           u == [t EXCEPT !.rejects[h] = @ \cup {p}]
<1>1. Good(m) /\ p \in Threads /\ p # App /\ net \in [Peers -> Link]
  BY HandsAreTyped DEF ListInv, Others
<1>2. /\ m' = u \/ m' = t
      /\ net' = [net EXCEPT ![p].state = "leaving"] \/ net' = net
      /\ Then(p, <<>>) /\ Idle(p)
      /\ UNCHANGED <<download, syncing, failures, phase, window, answers, passed, unheard>>
  BY DEF RejectedTx, Running
<1>3. Same(s, m)
  <2> DEFINE x == Unrequest(m, h, p)
             R == [x.relays EXCEPT ![h] = @ \ {p}]
  <2>1. Same(x, m)
    BY <1>1, VouchSame
  <2> HIDE DEF x
  <2>2. R \in [Txs -> SUBSET Peers] /\ s = [x EXCEPT !.relays = R]
    BY <2>1 DEF Same, Tables, x
  <2> HIDE DEF R, s
  <2> QED
    BY <2>1, <2>2 DEF Same, Tables
<1>4. /\ Good(s) /\ \A W : Owned(m, W) => Owned(s, W)
      /\ \A c \in Calls : Waiting(s, c) + InSeq(c, s.queue) = Waiting(m, c) + InSeq(c, m.queue)
  BY <1>1, <1>3, SameBooks, ZenonT(60)
<1>5. error \in Verdicts
  BY DEF Verdicts
<1> HIDE DEF s, error
<1>6. /\ Good(t) /\ \A W : Owned(m, W) => Owned(t, W)
      /\ \A c \in Calls : Waiting(t, c) + InSeq(c, t.queue) = Waiting(m, c) + InSeq(c, m.queue)
  <2>1. LET x == AnswerEntry(s, h, error)
         IN /\ Good(x) /\ x.record = s.record /\ x.mined = s.mined
            /\ \A W : Owned(s, W) => Owned(x, W)
            /\ \A c \in Calls : Waiting(x, c) + InSeq(c, x.queue) = Waiting(s, c) + InSeq(c, s.queue)
    BY <1>4, <1>5, AnswerEntryKeeps
  <2> QED
    BY <1>4, <2>1
<1> HIDE DEF t
<1>7. Same(u, t)
  <2> DEFINE R == [t.rejects EXCEPT ![h] = @ \cup {p}]
  <2>1. R \in [Txs -> SUBSET Peers] /\ u = [t EXCEPT !.rejects = R]
    BY <1>6 DEF Good, Tables
  <2> HIDE DEF R, u
  <2> QED
    BY <1>6, <2>1 DEF Same, Good, Tables
<1> HIDE DEF u
<1>8. /\ Good(u) /\ \A W : Owned(t, W) => Owned(u, W)
      /\ \A c \in Calls : Waiting(u, c) + InSeq(c, u.queue) = Waiting(t, c) + InSeq(c, t.queue)
  BY <1>6, <1>7, SameBooks
<1>9. /\ Good(m') /\ \A W : Owned(m, W) => Owned(m', W)
      /\ \A c \in Calls : Waiting(m', c) + InSeq(c, m'.queue) = Waiting(m, c) + InSeq(c, m.queue)
  BY <1>2, <1>6, <1>8
<1>10. net' \in [Peers -> Link]
  BY <1>1, <1>2 DEF Link
<1>11. Types
  BY <1>2, <1>10, TypesKept
<1> QED
  BY <1>1, <1>2, <1>9, <1>11, Silent

(* The steps that touch no object and no callback.                         *)
LEMMA BookkeepingKeeps ==
  ASSUME ListInv, AnsweredOnce, NEW p \in Peers, NEW h, NEW endsSync \in BOOLEAN,
         \/ h \in Txs /\ (InvNew(p, h) \/ DataNotfound(p, h) \/ Conflict(p, h))
         \/ Reorg(p) \/ CaughtUp(p) \/ Pong(p, endsSync)
  PROVE  Keeps
<1>1. Good(m) /\ m \in Tables /\ net \in [Peers -> Link]
  BY HandsAreTyped DEF ListInv, Others, Good
<1>2. ASSUME Same(m', m), UNCHANGED <<download, failures, phase, hand, window, answers, passed, unheard>>,
             net' \in [Peers -> Link], syncing' \in BOOLEAN
      PROVE  Keeps
  <2>1. /\ Good(m') /\ \A W : Owned(m, W) => Owned(m', W)
        /\ \A c \in Calls : Waiting(m', c) + InSeq(c, m'.queue) = Waiting(m, c) + InSeq(c, m.queue)
    BY <1>1, <1>2, SameBooks
  <2>2. Types
    BY <1>2 DEF ListInv, Others, Types
  <2> QED
    BY <1>2, <2>1, <2>2, Still
<1>3. syncing \in BOOLEAN
  BY DEF ListInv, Others
<1>4. CASE h \in Txs /\ InvNew(p, h)
  <2> DEFINE k == [net[p].known EXCEPT ![h] = "inv"]
             l == [net[p] EXCEPT !.known = k]
  <2>1. k \in [Txs -> {"no", "told", "inv", "mempool"}] /\ net' = [net EXCEPT ![p] = l]
    BY <1>1, <1>4 DEF InvNew, Link
  <2>2. l \in Link
    <3> HIDE DEF k
    <3> QED
      BY <1>1, <2>1 DEF Link
  <2> HIDE DEF l
  <2>3. net' \in [Peers -> Link]
    BY <1>1, <2>1, <2>2
  <2>4. Same(m', m) /\ UNCHANGED <<download, syncing, failures, phase, hand, window, answers, passed, unheard>>
    BY <1>1, <1>4 DEF InvNew, Same
  <2> QED
    BY <1>2, <1>3, <2>3, <2>4
<1>5. CASE h \in Txs /\ DataNotfound(p, h)
  <2> DEFINE x == Unrequest(m, h, p)
             R == [x.relays EXCEPT ![h] = @ \ {p}]
  <2>1. Same(x, m)
    BY <1>1, <1>5, VouchSame
  <2>2. m' = [x EXCEPT !.relays[h] = @ \ {p}]
    BY <1>5 DEF DataNotfound
  <2> HIDE DEF x
  <2>3. R \in [Txs -> SUBSET Peers] /\ m' = [x EXCEPT !.relays = R]
    BY <2>1, <2>2 DEF Same, Tables
  <2> HIDE DEF R
  <2>4. Same(m', m)
    BY <2>1, <2>3 DEF Same, Tables
  <2>5. UNCHANGED <<net, download, syncing, failures, phase, hand, window, answers, passed, unheard>>
    BY <1>5 DEF DataNotfound
  <2> QED
    BY <1>1, <1>2, <1>3, <2>4, <2>5
<1>6. CASE Reorg(p)
  <2>1. m' = [m EXCEPT !.mined = {}]
        /\ UNCHANGED <<net, download, syncing, failures, phase, hand, window, answers, passed, unheard>>
    BY <1>6 DEF Reorg
  <2>2. Same(m', m)
    BY <1>1, <2>1 DEF Same, Tables
  <2> QED
    BY <1>1, <1>2, <1>3, <2>1, <2>2
<1>7. CASE h \in Txs /\ Conflict(p, h)
  <2> DEFINE V == m.invalid \cup {h}
  <2>1. m' = [m EXCEPT !.invalid = V] /\ V \in SUBSET Txs
        /\ UNCHANGED <<net, download, syncing, failures, phase, hand, window, answers, passed, unheard>>
    BY <1>1, <1>7 DEF Conflict, Tables
  <2> HIDE DEF V
  <2>2. Same(m', m)
    BY <1>1, <2>1 DEF Same, Tables
  <2> QED
    BY <1>1, <1>2, <1>3, <2>1, <2>2
<1>8. CASE CaughtUp(p)
  <2>1. net' = LoadMempools(m, net)
        /\ UNCHANGED <<m, download, syncing, failures, phase, hand, window, answers, passed, unheard>>
    BY <1>8 DEF CaughtUp
  <2>2. Same(m', m)
    BY <1>1, <2>1 DEF Same
  <2> QED
    BY <1>1, <1>2, <1>3, <2>1, <2>2, LinksKeep
<1>9. CASE Pong(p, endsSync)
  <2> DEFINE R == [g \in Txs |-> IF g \in ToAsk(m, p) THEN m.requests[g] \cup {p} ELSE m.requests[g]]
  <2>1. /\ m' = [m EXCEPT !.requests = R] /\ syncing' = (syncing /\ ~endsSync)
        /\ UNCHANGED <<download, failures, phase, hand, window, answers, passed, unheard>>
        /\ net' = IF ToAsk(m, p) = {} THEN [net EXCEPT ![p].synced = TRUE]
                  ELSE [net EXCEPT ![p].pinged = @ \/ ~net[p].synced]
    BY <1>9 DEF Pong
  <2>2. R \in [Txs -> SUBSET Peers]
    BY <1>1 DEF Tables
  <2> HIDE DEF R
  <2>3. Same(m', m)
    BY <1>1, <2>1, <2>2 DEF Same, Tables
  <2>4. net' \in [Peers -> Link]
    <3>1. /\ [net[p] EXCEPT !.synced = TRUE] \in Link
          /\ [net[p] EXCEPT !.pinged = @ \/ ~net[p].synced] \in Link
      BY <1>1 DEF Link
    <3>2. \/ net' = [net EXCEPT ![p] = [net[p] EXCEPT !.synced = TRUE]]
          \/ net' = [net EXCEPT ![p] = [net[p] EXCEPT !.pinged = @ \/ ~net[p].synced]]
      BY <1>1, <2>1 DEF Link
    <3> QED
      BY <1>1, <3>1, <3>2
  <2>5. syncing' \in BOOLEAN
    BY <2>1
  <2> QED
    BY <1>2, <2>1, <2>3, <2>4, <2>5
<1> QED
  BY <1>4, <1>5, <1>6, <1>7, <1>8, <1>9, Zenon

LEMMA LinksMove ==
  ASSUME ListInv, AnsweredOnce, NEW p \in Peers, NEW q \in Peers,
         NEW syncs \in BOOLEAN, NEW atTip \in BOOLEAN,
         Dial(p, syncs) \/ Unusable(p) \/ Join(p, atTip) \/ Lead(p, q, atTip)
  PROVE  Keeps
<1>1. /\ Good(m) /\ net \in [Peers -> Link] /\ download \in Peers \cup {None}
      /\ failures \in 0..MaxFailures + 1 /\ 0 \in 0..MaxFailures + 1
  BY HandsAreTyped, PublishAssumption DEF ListInv, Others
<1>2. ASSUME NEW N \in [Peers -> Link], NEW x \in Peers,
             NEW state \in {"off", "dialing", "up", "leaving"}
      PROVE  [N EXCEPT ![x].state = state] \in [Peers -> Link]
  <2>1. [N[x] EXCEPT !.state = state] \in Link
    BY DEF Link
  <2> QED
    BY <2>1
<1>3. ASSUME UNCHANGED m, UNCHANGED <<phase, hand, window, answers, passed, unheard>>,
             net' \in [Peers -> Link], syncing' \in BOOLEAN,
             failures' = failures \/ failures' = 0, download' \in Peers \cup {None}
      PROVE  Keeps
  <2>1. Types
    BY <1>1, <1>3 DEF ListInv, Others, Types
  <2> QED
    BY <1>1, <1>3, <2>1, Still
<1>4. CASE Dial(p, syncs)
  BY <1>1, <1>2, <1>3, <1>4 DEF Dial, ListInv, Others
<1>5. CASE Unusable(p)
  BY <1>1, <1>2, <1>3, <1>5 DEF Unusable, ListInv, Others
<1>6. CASE Join(p, atTip)
  <2> DEFINE joined == [net[p] EXCEPT !.state = "up"]
             told == Mempooled(m, Announced(m, joined, p), p)
  <2>1. joined \in Link
    BY <1>1 DEF Link
  <2> HIDE DEF joined
  <2>2. told \in Link
    BY <1>1, <2>1, LinksKeep
  <2>3. net' = [net EXCEPT ![p] = IF atTip THEN told ELSE joined]
    BY <1>6 DEF Join, joined
  <2> HIDE DEF told
  <2>4. net' \in [Peers -> Link]
    BY <1>1, <2>1, <2>2, <2>3
  <2> QED
    BY <1>1, <1>3, <1>6, <2>4 DEF Join, ListInv, Others
<1>7. CASE Lead(p, q, atTip)
  <2> DEFINE N == [net EXCEPT ![p].state = "up"]
             O == IF download = None THEN N ELSE [N EXCEPT ![download].state = "leaving"]
             A == AnnounceTo(m, O, {q})
             L == LoadMempools(m, A)
  <2>1. N \in [Peers -> Link]
    BY <1>1, <1>2
  <2> HIDE DEF N
  <2>2. O \in [Peers -> Link]
    BY <1>1, <1>2, <2>1
  <2> HIDE DEF O
  <2>3. A \in [Peers -> Link]
    BY <2>2, LinksKeep
  <2> HIDE DEF A
  <2>4. L \in [Peers -> Link]
    BY <2>3, LinksKeep
  <2>5. net' = IF atTip THEN L ELSE A
    BY <1>7 DEF Lead, A, O, N
  <2> HIDE DEF L
  <2>6. net' \in [Peers -> Link]
    BY <2>3, <2>4, <2>5
  <2> QED
    BY <1>1, <1>3, <1>7, <2>6 DEF Lead, ListInv, Others
<1> QED
  BY <1>4, <1>5, <1>6, <1>7, Zenon

LEMMA DisconnectedKeeps ==
  ASSUME ListInv, AnsweredOnce, NEW p \in Peers, NEW error, NEW next \in Peers \cup {None},
         Disconnected(p, error, next)
  PROVE  Keeps
<1> DEFINE R == [h \in Txs |-> m.relays[h] \ {p}]
           s == [m EXCEPT !.relays = R]
           failed == IF error \in {"ETIMEDOUT", "other"} /\ failures <= MaxFailures
                     THEN failures + 1 ELSE failures
           B == {e \in s.listed : e.call # None}
<1>1. Good(m) /\ m \in Tables /\ net \in [Peers -> Link] /\ p \in Threads /\ p # App
      /\ failures \in 0..MaxFailures + 1 /\ MaxFailures \in Nat
      /\ download \in Peers \cup {None} /\ syncing \in BOOLEAN
  BY HandsAreTyped, PublishAssumption DEF ListInv, Others, Good
<1>2. /\ m' = Cancelled(s, "ENOTCONN") \/ m' = Cancelled(s, "ETIMEDOUT") \/ m' = s
      /\ failures' = IF p = download /\ failed > MaxFailures THEN MaxFailures ELSE failed
      /\ net' = [AnnounceTo(m, net, {next}) EXCEPT ![p] = Down]
      /\ download' = download \/ download' = next
      /\ syncing' \in BOOLEAN
      /\ Then(p, <<>>) /\ Idle(p) /\ UNCHANGED <<phase, window, answers, passed, unheard>>
  BY <1>1 DEF Disconnected
<1>3. Same(s, m)
  <2>1. R \in [Txs -> SUBSET Peers]
    BY <1>1 DEF Tables
  <2> HIDE DEF R
  <2> QED
    BY <1>1, <2>1 DEF Same, Tables
<1> HIDE DEF s
<1>4. /\ Good(s) /\ \A W : Owned(m, W) => Owned(s, W)
      /\ \A c \in Calls : Waiting(s, c) + InSeq(c, s.queue) = Waiting(m, c) + InSeq(c, m.queue)
  BY <1>1, <1>3, SameBooks
<1>5. ASSUME NEW why \in Verdicts, m' = Cancelled(s, why)
      PROVE  /\ Good(m') /\ \A W \in SUBSET Objs : Owned(m, W) => Owned(m', W)
             /\ \A c \in Calls : Waiting(m', c) + InSeq(c, m'.queue) = Waiting(m, c) + InSeq(c, m.queue)
  <2>1. B \subseteq s.listed
    OBVIOUS
  <2>2. m' = DropEntries(s, B, why)
    BY <1>5 DEF Cancelled
  <2> HIDE DEF B
  <2>3. LET x == DropEntries(s, B, why)
        IN /\ Good(x) /\ x.listed = s.listed \ B /\ x.record = s.record /\ x.mined = s.mined
           /\ x.queue \in Seq(Answer)
           /\ \A c \in Calls : Waiting(x, c) + InSeq(c, x.queue) = Waiting(s, c) + InSeq(c, s.queue)
           /\ \A W \in SUBSET Objs : Owned(s, W) => Owned(x, W)
    BY <1>4, <2>1, DropKeeps, Zenon
  <2> QED
    BY <1>4, <2>2, <2>3
<1>6. /\ Good(m') /\ \A W \in SUBSET Objs : Owned(m, W) => Owned(m', W)
      /\ \A c \in Calls : Waiting(m', c) + InSeq(c, m'.queue) = Waiting(m, c) + InSeq(c, m.queue)
  <2> "ENOTCONN" \in Verdicts /\ "ETIMEDOUT" \in Verdicts
    BY DEF Verdicts
  <2> QED
    BY <1>2, <1>4, <1>5
<1>7. net' \in [Peers -> Link]
  <2>1. Down \in Link
    BY DEF Down, Link
  <2>2. AnnounceTo(m, net, {next}) \in [Peers -> Link]
    BY <1>1, LinksKeep
  <2> QED
    BY <1>2, <2>1, <2>2
<1>8. failures' \in 0..MaxFailures + 1
  BY <1>1, <1>2
<1>9. Types
  BY <1>1, <1>2, <1>7, <1>8 DEF Types, ListInv, Others
<1>10. Owned(m, InWindow) => Owned(m', InWindow)
  BY <1>6, WindowIs
<1> QED
  BY <1>1, <1>2, <1>6, <1>9, <1>10, Silent

(* Listing what the wallet holds, with no callback, moves none.            *)
Unmoved(t, s) ==
    /\ Good(t) /\ t.queue = s.queue
    /\ \A d \in Calls : Waiting(t, d) = Waiting(s, d)
    /\ \A W \in SUBSET Objs : Owned(s, W) => Owned(t, W)

LEMMA AddHeldKeeps ==
  ASSUME NEW s, Good(s), NEW o \in Objs, s.record[HashOf[o]] = o,
         NEW r, r = AddTxToPublishList(s, o, None, FALSE)
  PROVE  Unmoved(r.s, s)
<1> DEFINE c == None
           owned == FALSE
<1>1. /\ c \in Calls \cup {None} /\ owned \in BOOLEAN
      /\ r = AddTxToPublishList(s, o, c, owned) /\ (c # None => Waiting(s, c) = 0)
  OBVIOUS
<1> HIDE DEF c, owned
<1>2. Added(s, o, c, owned, r)
  BY <1>1, AddKeeps
<1>4. c = None /\ c \notin Calls
  BY PublishAssumption DEF c
<1>5. /\ Good(r.s) /\ r.s.queue = s.queue /\ r.s.record = s.record
      /\ \A W \in SUBSET Objs : Owned(s, W) => Owned(r.s, IF r.added = "taken" THEN W \ {o} ELSE W)
  BY <1>2 DEF Added
<1>6. \A d \in Calls : Waiting(r.s, d) = Waiting(s, d)
  BY <1>2, <1>4 DEF Added
<1>3. ASSUME NEW W \in SUBSET Objs, Owned(s, W) PROVE Owned(r.s, W)
  <2>1. Owned(r.s, IF r.added = "taken" THEN W \ {o} ELSE W)
    BY <1>3, <1>5
  <2>2. CASE r.added = "taken"
    <3>1. Owned(r.s, W \ {o}) /\ r.s.record[HashOf[o]] = o
      BY <1>5, <2>1, <2>2
    <3> QED
      BY <1>5, <3>1, SharedBack
  <2> QED
    BY <2>1, <2>2
<1> QED
  BY <1>3, <1>5, <1>6 DEF Unmoved

LEMMA RelayedTxKeeps ==
  ASSUME ListInv, AnsweredOnce, NEW p \in Peers, NEW o \in Objs, NEW keep \in BOOLEAN,
         RelayedTx(p, o, keep)
  PROVE  Keeps
<1> DEFINE h == HashOf[o]
           b == Born(m, o)
           s == TakeAndVouch(b, h, p)
           kept == IF ~syncing \/ h \in Ours THEN Register(s, o, keep) ELSE s
           ours == (~syncing \/ h \in Ours) /\ Registered(s, o, keep)
           t == IF kept.record[h] = o THEN kept ELSE [kept EXCEPT !.alive = Freed(@, {o})]
           add == AddTxToPublishList(t, t.record[h], None, FALSE)
           u == IF h \in Sends /\ Valid(t, h) THEN add.s ELSE t
           v == IF syncing THEN u ELSE Vouch(u, h, p)
           calls == Taken(m, h)
           W == InWindow
<1>1. Good(m) /\ p \in Threads /\ p # App /\ h \in Txs /\ W \in SUBSET Objs /\ o # None
  BY HandsAreTyped, WindowIs, PublishAssumption
<1>2. /\ m' = (IF ~ours THEN t ELSE Unrequest(v, h, p)) /\ m.alive[o] = "unborn"
      /\ Then(p, calls) /\ Idle(p)
      /\ UNCHANGED <<net, download, syncing, failures, phase, window, answers, passed, unheard>>
  BY Zenon DEF RelayedTx, Running
<1>3. /\ Good(b) /\ b.listed = m.listed /\ b.queue = m.queue /\ b.record = m.record
      /\ b.mined = m.mined /\ (Owned(m, W) => Owned(b, W \cup {o}))
  BY <1>1, <1>2, BornKeeps
<1>4. calls = Taken(b, h)
  BY <1>3 DEF Taken, EntriesOf
<1>5. ours => kept.record[h] # None
  <2>1. ASSUME ours PROVE kept.record[h] # None
    <3>1. kept = Register(s, o, keep) /\ Registered(s, o, keep)
      BY <2>1
    <3>2. s.record \in [Txs -> Objs \cup {None}] /\ s \in Tables
      BY <1>1, <1>3, TakeAndVouchKeeps DEF Good, Tables
    <3> HIDE DEF s
    <3> QED
      BY <1>1, <3>1, <3>2 DEF Register, Registered, Held, Tables
  <2> QED
    BY <2>1
<1> HIDE DEF h, b
<1>6. /\ Good(s) /\ calls \in Seq(Answer)
      /\ s.queue = b.queue /\ s.record = b.record /\ s.alive = b.alive /\ s.mined = b.mined
      /\ \A Z : Owned(b, Z) => Owned(s, Z)
      /\ \A c \in Calls : Waiting(s, c) + InSeq(c, calls) = Waiting(b, c)
  BY <1>1, <1>3, <1>4, TakeAndVouchKeeps
<1> HIDE DEF calls, s
<1>7. /\ Good(kept) /\ kept.listed = s.listed /\ kept.queue = s.queue /\ kept.alive = s.alive
      /\ kept.mined = s.mined
      /\ \/ s.record[h] = None /\ kept.record = [s.record EXCEPT ![h] = o]
         \/ kept = s
  BY <1>6, RegisterKeeps DEF h
<1> HIDE DEF kept, ours
<1>8. /\ Good(t) /\ t.listed = kept.listed /\ t.queue = kept.queue /\ t.record = kept.record
      /\ t.mined = kept.mined
      /\ t.alive = IF kept.record[h] = o THEN kept.alive ELSE Freed(kept.alive, {o})
  <2> DEFINE A == Freed(kept.alive, {o})
             x == [kept EXCEPT !.alive = A]
  <2>1. A \in [Objs -> {"unborn", "live", "freed", "twice"}]
    BY <1>7, FreedIs DEF Good, Tables
  <2>2. t = IF kept.record[h] = o THEN kept ELSE x
    BY <1>7 DEF Good, Tables
  <2> HIDE DEF A, t
  <2>3. /\ x \in Tables /\ x.listed = kept.listed /\ x.queue = kept.queue /\ x.record = kept.record
        /\ x.mined = kept.mined /\ x.alive = A
    BY <1>7, <2>1 DEF Good, Tables
  <2> HIDE DEF x
  <2>4. Good(x)
    BY <1>7, <2>3 DEF Good, Filed
  <2> QED
    BY <1>7, <2>2, <2>3, <2>4 DEF A
<1> HIDE DEF t
<1>9. ASSUME Owned(m, W) PROVE Owned(t, W)
  <2>1. Owned(s, W \cup {o}) /\ m.record[h] # o /\ o \notin W
    <3>1. Owned(s, W \cup {o})
      BY <1>3, <1>6, <1>9
    <3>2. m.record[h] # o /\ o \notin W
      BY <1>1, <1>2, <1>9 DEF Owned
    <3> QED
      BY <3>1, <3>2
  <2> DEFINE Z == W \cup {o}
  <2>2. Z \ {o} = W /\ Z \in SUBSET Objs /\ o \in Z /\ Owned(s, Z)
    BY <1>1, <2>1
  <2> HIDE DEF Z, W
  <2>3. CASE s.record[h] = None /\ kept.record = [s.record EXCEPT ![h] = o]
    <3>1. Owned(kept, Z \ {o})
      BY <1>6, <1>7, <2>2, <2>3, AdoptKeeps DEF h
    <3>2. kept.record[h] = o
      BY <1>1, <1>6, <2>3 DEF Good, Tables
    <3> QED
      BY <1>8, <2>2, <3>1, <3>2 DEF Owned
  <2>4. CASE kept = s
    <3>1. kept.record[h] # o
      BY <1>3, <1>6, <2>1, <2>4
    <3>2. Owned(kept, Z)
      BY <2>2, <2>4
    <3>3. t.alive = Freed(kept.alive, {o})
      BY <1>8, <3>1
    <3>4. Owned(t, Z \ {o})
      BY <1>7, <1>8, <2>2, <3>1, <3>2, <3>3, ReleaseKeeps DEF h
    <3> QED
      BY <2>2, <3>4
  <2> QED
    BY <1>7, <2>3, <2>4
<1>10. \A c : Waiting(t, c) = Waiting(s, c)
  BY <1>7, <1>8 DEF Waiting
<1>11. ASSUME ours
       PROVE  /\ Good(u) /\ u.queue = t.queue /\ \A c \in Calls : Waiting(u, c) = Waiting(t, c)
              /\ Owned(t, W) => Owned(u, W)
  <2> DEFINE a == t.record[h]
  <2>1. a \in Objs /\ HashOf[a] = h
    BY <1>1, <1>5, <1>8, <1>11 DEF Good, Filed, Tables
  <2>2. t.record[HashOf[a]] = a /\ Good(t)
    BY <1>8, <2>1
  <2> HIDE DEF a, W
  <2>3. Unmoved(add.s, t)
    <3>1. add = AddTxToPublishList(t, a, None, FALSE)
      BY DEF a
    <3> HIDE DEF add, u, v
    <3> QED
      BY <2>1, <2>2, <3>1, AddHeldKeeps
  <2> QED
    BY <1>1, <1>8, <2>3 DEF Unmoved
<1> HIDE DEF u
<1>12. ASSUME ours
       PROVE  /\ Good(m') /\ m'.queue = t.queue /\ \A c \in Calls : Waiting(m', c) = Waiting(t, c)
              /\ Owned(t, W) => Owned(m', W)
  <2>1. Good(v) /\ v.queue = u.queue /\ (\A c : Waiting(v, c) = Waiting(u, c))
        /\ \A Z : Owned(u, Z) => Owned(v, Z)
    <3>1. Same(Vouch(u, h, p), u)
      BY <1>1, <1>11, <1>12, VouchSame
    <3>2. /\ Good(Vouch(u, h, p)) /\ \A Z : Owned(u, Z) => Owned(Vouch(u, h, p), Z)
          /\ \A c : Waiting(Vouch(u, h, p), c) = Waiting(u, c)
      BY <1>11, <1>12, <3>1, SameKeeps
    <3> QED
      BY <1>11, <1>12, <3>1, <3>2 DEF Same
  <2> HIDE DEF v
  <2>2. m' = Unrequest(v, h, p)
    BY <1>2, <1>12
  <2>3. Same(m', v)
    BY <1>1, <2>1, <2>2, VouchSame
  <2>4. /\ Good(m') /\ \A Z : Owned(v, Z) => Owned(m', Z)
        /\ \A c : Waiting(m', c) = Waiting(v, c)
    BY <2>1, <2>3, SameKeeps
  <2> QED
    BY <1>11, <1>12, <2>1, <2>3, <2>4 DEF Same
<1>13. /\ Good(m') /\ m'.queue = t.queue /\ \A c \in Calls : Waiting(m', c) = Waiting(t, c)
       /\ Owned(t, W) => Owned(m', W)
  <2>1. CASE ours
    BY <1>12, <2>1
  <2>2. CASE ~ ours
    BY <1>2, <1>8, <2>2
  <2> QED
    BY <2>1, <2>2
<1>14. ASSUME NEW c \in Calls
       PROVE  Waiting(m', c) + InSeq(c, m'.queue) + InSeq(c, calls) = Waiting(m, c) + InSeq(c, m.queue)
  <2>1. m'.queue = m.queue /\ Waiting(m', c) = Waiting(s, c)
    BY <1>3, <1>6, <1>7, <1>8, <1>10, <1>13
  <2>2. Waiting(s, c) + InSeq(c, calls) = Waiting(m, c)
    BY <1>3, <1>6 DEF Waiting
  <2>3. InSeq(c, m.queue) \in Nat /\ InSeq(c, calls) \in Nat /\ Waiting(s, c) \in Nat
    BY <1>1, <1>6, InSeqIsNat DEF Good, Tables, Waiting
  <2> QED
    BY <2>1, <2>2, <2>3
<1>15. hand' \in HandType /\ WindowWaits' /\ AnsweredOnce'
  BY <1>1, <1>2, <1>6, <1>13, <1>14, Handler
<1>16. ListInv'
  BY <1>2, <1>13, <1>15 DEF ListInv, Others, HandType
<1>17. InWindow' = W
  BY <1>2, WindowIs
<1>18. Owned(m, InWindow) => Owned(m', InWindow')
  BY <1>9, <1>13, <1>17
<1> HIDE DEF W
<1> QED
  BY <1>15, <1>16, <1>18 DEF Keeps

(* Setting the stem of h's entries moves nothing.                          *)
Restemmed(t, s) ==
    /\ Good(t)
    /\ t.queue = s.queue /\ t.record = s.record /\ t.alive = s.alive /\ t.mined = s.mined
    /\ \A W : Owned(s, W) => Owned(t, W)
    /\ \A c : Waiting(t, c) = Waiting(s, c)

LEMMA RestemKeeps ==
  ASSUME NEW s, Good(s), NEW h \in Txs, NEW p \in Peers \cup {None}, NEW t,
         t = [s EXCEPT !.listed = {IF e.hash = h THEN [e EXCEPT !.stem = p] ELSE e : e \in @}]
  PROVE  Restemmed(t, s)
  BY StemKeeps, ZenonT(60) DEF Restemmed

LEMMA UnstemKeeps ==
  ASSUME NEW s, Good(s), NEW h \in Txs
  PROVE  Restemmed(Unstemmed(s, h), s)
<1> DEFINE p == None
           t == [s EXCEPT !.listed = {IF e.hash = h THEN [e EXCEPT !.stem = p] ELSE e : e \in @}]
<1>1. p \in Peers \cup {None} /\ Unstemmed(s, h) = t
  BY DEF Unstemmed
<1> HIDE DEF p
<1> QED
  BY <1>1, RestemKeeps

LEMMA FluffTxKeeps ==
  ASSUME ListInv, AnsweredOnce, NEW h \in Txs, FluffTx(h)
  PROVE  Keeps
<1>1. Good(m) /\ net \in [Peers -> Link]
  BY HandsAreTyped DEF ListInv, Others
<1>2. /\ m' = Unstemmed(m, h) /\ net' = AnnounceTo(m', net, Up)
      /\ UNCHANGED <<download, syncing, failures, phase, hand, window, answers, passed, unheard>>
  BY DEF FluffTx
<1>3. Restemmed(m', m)
  BY <1>1, <1>2, UnstemKeeps
<1>4. Types
  BY <1>1, <1>2, LinksKeep, TypesKept
<1>5. \A c \in Calls : Waiting(m', c) + InSeq(c, m'.queue) = Waiting(m, c) + InSeq(c, m.queue)
  BY <1>3 DEF Restemmed
<1>6. Owned(m, InWindow) => Owned(m', InWindow)
  BY <1>3 DEF Restemmed
<1> QED
  BY <1>2, <1>3, <1>4, <1>5, <1>6, Still DEF Restemmed

LEMMA RegisterTxKeeps ==
  ASSUME ListInv, AnsweredOnce, NEW o \in Objs, RegisterTx(o)
  PROVE  Keeps
<1> DEFINE b == Born(m, o)
           W == InWindow
           keep == TRUE
<1>1. Good(m) /\ W \in SUBSET Objs /\ keep \in BOOLEAN /\ HashOf[o] \in Txs
  BY HandsAreTyped, WindowIs, PublishAssumption
<1>2. /\ m.alive[o] = "unborn" /\ m.record[HashOf[o]] = None /\ m' = Register(b, o, keep)
      /\ UNCHANGED <<net, download, syncing, failures, phase, hand, window, answers, passed, unheard>>
  BY DEF RegisterTx, Held
<1>3. /\ Good(b) /\ b.listed = m.listed /\ b.queue = m.queue /\ b.record = m.record
      /\ (Owned(m, W) => Owned(b, W \cup {o}))
  BY <1>1, <1>2, BornKeeps
<1> HIDE DEF b
<1>4. /\ Good(m') /\ m'.listed = b.listed /\ m'.queue = b.queue /\ m'.alive = b.alive
      /\ m'.record = [b.record EXCEPT ![HashOf[o]] = o]
  <2> HIDE DEF keep
  <2>1. /\ Good(m') /\ m'.listed = b.listed /\ m'.queue = b.queue /\ m'.alive = b.alive
        /\ IF b.record[HashOf[o]] = None /\ keep THEN m'.record = [b.record EXCEPT ![HashOf[o]] = o]
           ELSE m' = b
    BY <1>1, <1>2, <1>3, RegisterKeeps
  <2> QED
    BY <1>2, <1>3, <2>1 DEF keep
<1>5. ASSUME Owned(m, W) PROVE Owned(m', W)
  <2> DEFINE Z == W \cup {o}
  <2>1. Owned(b, Z) /\ o \in Z /\ Z \ {o} = W
    <3>1. o \notin W
      BY <1>1, <1>2, <1>5 DEF Owned
    <3> QED
      BY <1>3, <1>5, <3>1
  <2> HIDE DEF Z, W
  <2>2. b.record[HashOf[o]] = None
    BY <1>2, <1>3
  <2>3. Owned(m', Z \ {o})
    BY <1>3, <1>4, <2>1, <2>2, AdoptKeeps
  <2> QED
    BY <2>1, <2>3
<1>6. \A c \in Calls : Waiting(m', c) + InSeq(c, m'.queue) = Waiting(m, c) + InSeq(c, m.queue)
  BY <1>3, <1>4 DEF Waiting
<1>7. Types
  BY <1>2, TypesKept DEF ListInv, Others
<1> QED
  BY <1>2, <1>4, <1>5, <1>6, <1>7, Still

LEMMA RemoveTransactionKeeps ==
  ASSUME ListInv, AnsweredOnce, NEW h \in Txs, RemoveTransaction(h)
  PROVE  Keeps
<1> DEFINE H == {h}
           t == RemoveAndPurge(m, H)
           J == [t.rejects EXCEPT ![h] = {}]
           R == [t.relays EXCEPT ![h] = {}]
           V == t.vouched \ {h}
<1>1. Good(m) /\ App \in Threads /\ H \in SUBSET Txs
  BY HandsAreTyped
<1>2. /\ m' = [t EXCEPT !.rejects[h] = {}, !.relays[h] = {}, !.vouched = @ \ {h}]
      /\ Then(App, <<>>) /\ Idle(App) /\ window = None
      /\ UNCHANGED <<net, download, syncing, failures, phase, window, answers, passed, unheard>>
  BY DEF RemoveTransaction, Calling
<1> HIDE DEF H
<1>3. /\ Good(t)
      /\ \A c \in Calls : Waiting(t, c) + InSeq(c, t.queue) = Waiting(m, c) + InSeq(c, m.queue)
      /\ \A W \in SUBSET Objs :
           Owned(m, W) /\ (\A o \in W : HashOf[o] \notin Gone(m, H)) => Owned(t, W)
  BY <1>1, RemoveKeeps
<1> HIDE DEF t
<1>4. /\ J \in [Txs -> SUBSET Peers] /\ R \in [Txs -> SUBSET Peers] /\ V \in SUBSET Txs
      /\ m' = [t EXCEPT !.rejects = J, !.relays = R, !.vouched = V]
  BY <1>2, <1>3 DEF Good, Tables
<1> HIDE DEF J, R, V
<1>5. Same(m', t)
  BY <1>3, <1>4 DEF Same, Good, Tables
<1>6. /\ Good(m') /\ \A W : Owned(t, W) => Owned(m', W)
      /\ \A c \in Calls : Waiting(m', c) + InSeq(c, m'.queue) = Waiting(t, c) + InSeq(c, t.queue)
  BY <1>3, <1>5, SameBooks
<1>7. InWindow = {}
  BY <1>2 DEF InWindow
<1>8. Owned(m, InWindow) => Owned(m', InWindow)
  BY <1>3, <1>6, <1>7
<1>9. \A c \in Calls : Waiting(m', c) + InSeq(c, m'.queue) = Waiting(m, c) + InSeq(c, m.queue)
  BY <1>3, <1>6
<1>10. Types
  BY <1>2, TypesKept DEF ListInv, Others
<1> QED
  BY <1>1, <1>2, <1>6, <1>8, <1>9, <1>10, Silent

(* A thread's step that moves callbacks into its hand.                     *)
LEMMA Handed ==
  ASSUME ListInv, AnsweredOnce, NEW t \in Threads, t = App => window = None,
         hand' \in HandType, \A u \in Threads \ {t} : hand'[u] = hand[u], Good(m'), Types,
         \A c \in Calls : Waiting(m', c) + InSeq(c, m'.queue) + InSeq(c, hand'[t].calls)
                          = Waiting(m, c) + InSeq(c, m.queue) + InSeq(c, hand[t].calls),
         SendsBuildOnLoneReceives /\ Owned(m, InWindow) => Owned(m', InWindow),
         UNCHANGED <<window, answers, passed, unheard>>
  PROVE  Keeps
<1>1. /\ hand \in HandType /\ answers \in [Calls -> Seq(Verdicts)] /\ Good(m) /\ App \in Threads
  BY HandsAreTyped DEF ListInv, Others
<1>2. \A c : Win(c)' = Win(c) /\ Due(c)' = Due(c)
  BY DEF Win, Due
<1>3. WindowWaits'
  BY <1>1 DEF WindowWaits, ListInv
<1>4. ASSUME NEW c \in Calls
      PROVE  Waiting(m', c) + InSeq(c, m'.queue) + InSeq(c, hand'[t].calls) + Win(c)'
               + Len(answers'[c]) + Due(c)
             = Waiting(m, c) + InSeq(c, m.queue) + InSeq(c, hand[t].calls) + Win(c)
               + Len(answers[c]) + Due(c)'
  <2>1. Waiting(m', c) + InSeq(c, m'.queue) + InSeq(c, hand'[t].calls)
        = Waiting(m, c) + InSeq(c, m.queue) + InSeq(c, hand[t].calls)
    OBVIOUS
  <2>2. answers'[c] = answers[c]
    OBVIOUS
  <2> QED
    BY <1>2, <2>1, <2>2
<1>5. AnsweredOnce'
  <2>1. answers' \in [Calls -> Seq(Verdicts)] /\ \A u \in Threads \ {t} : hand'[u].calls = hand[u].calls
    BY <1>1
  <2> QED
    BY <1>1, <1>4, <2>1, Balance
<1>6. ListInv'
  BY <1>3 DEF ListInv, Others, Types, HandType
<1>7. InWindow' = InWindow
  BY WindowIs
<1> QED
  BY <1>5, <1>6, <1>7 DEF Keeps

LEMMA FlushAnswersKeeps ==
  ASSUME ListInv, AnsweredOnce, NEW t \in Threads, FlushAnswers(t)
  PROVE  Keeps
<1> DEFINE r == [calls |-> m.queue, flush |-> FALSE]
           q == <<>>
<1>1. Good(m) /\ m \in Tables /\ hand \in HandType
  BY HandsAreTyped DEF Good
<1>2. /\ hand[t].calls = <<>> /\ hand[t].flush
      /\ hand' = [hand EXCEPT ![t] = r] /\ m' = [m EXCEPT !.queue = q]
      /\ UNCHANGED <<net, download, syncing, failures, phase, window, answers, passed, unheard>>
  BY DEF FlushAnswers
<1>3. r \in [calls : Seq(Answer), flush : BOOLEAN] /\ r.calls = m.queue /\ q \in Seq(Answer)
  BY <1>1 DEF Tables
<1>4. q = <<>> /\ \A c : InSeq(c, q) = 0
  BY <1>3, InSeqIsNat
<1> HIDE DEF r, q
<1>5. hand' \in HandType /\ hand'[t].calls = m.queue /\ \A u \in Threads \ {t} : hand'[u] = hand[u]
  BY <1>1, <1>2, <1>3 DEF HandType
<1>6. /\ m' \in Tables /\ m'.queue = q /\ m'.listed = m.listed /\ m'.record = m.record
      /\ m'.alive = m.alive
  BY <1>1, <1>2, <1>3 DEF Tables
<1>7. Good(m') /\ \A W : Owned(m, W) => Owned(m', W)
  BY <1>1, <1>6 DEF Good, Filed, Owned
<1>8. \A c : Waiting(m', c) = Waiting(m, c)
  BY <1>6 DEF Waiting
<1>9. ASSUME NEW c \in Calls
      PROVE  Waiting(m', c) + InSeq(c, m'.queue) + InSeq(c, hand'[t].calls)
             = Waiting(m, c) + InSeq(c, m.queue) + InSeq(c, hand[t].calls)
  <2>1. InSeq(c, m'.queue) = 0 /\ InSeq(c, hand[t].calls) = 0
    BY <1>2, <1>4, <1>6
  <2>2. InSeq(c, hand'[t].calls) = InSeq(c, m.queue) /\ InSeq(c, m.queue) \in Nat
    BY <1>1, <1>5, InSeqIsNat DEF Tables
  <2>3. Waiting(m, c) \in Nat /\ Waiting(m', c) = Waiting(m, c)
    BY <1>8 DEF Waiting
  <2> QED
    BY <2>1, <2>2, <2>3
<1>10. t = App => window = None
  BY <1>2 DEF ListInv, WindowWaits
<1>11. Types
  BY <1>2, TypesKept DEF ListInv, Others
<1> QED
  BY <1>2, <1>5, <1>7, <1>9, <1>10, <1>11, Handed

LEMMA FreeNowKeeps ==
  ASSUME ListInv, AnsweredOnce, NEW t \in Threads, hand[t].calls = <<>>, t = App => window = None,
         FreeNow(t), UNCHANGED <<net, download, syncing, failures, window, answers, passed, unheard>>
  PROVE  Keeps
<1> DEFINE E == m.listed
           error == "ENOTCONN"
           s == DropEntries(m, E, error)
           q == <<>>
           r == [hand[t] EXCEPT !.calls = s.queue]
<1>1. Good(m) /\ hand \in HandType /\ E \subseteq m.listed /\ error \in Verdicts
  BY HandsAreTyped DEF Verdicts
<1>2. /\ m' = [s EXCEPT !.queue = q] /\ phase' = "gone" /\ hand' = [hand EXCEPT ![t].calls = s.queue]
  BY DEF FreeNow
<1>3. q = <<>> /\ q \in Seq(Answer) /\ \A c : InSeq(c, q) = 0
  <2>1. q = <<>> /\ q \in Seq(Answer)
    OBVIOUS
  <2> QED
    BY <2>1, InSeqIsNat
<1> HIDE DEF E, error, q
<1>4. /\ Good(s) /\ s.queue \in Seq(Answer)
      /\ \A c \in Calls : Waiting(s, c) + InSeq(c, s.queue) = Waiting(m, c) + InSeq(c, m.queue)
      /\ \A W \in SUBSET Objs : Owned(m, W) => Owned(s, W)
  <2>1. LET x == DropEntries(m, E, error)
        IN /\ Good(x) /\ x.listed = m.listed \ E /\ x.record = m.record /\ x.mined = m.mined
           /\ x.queue \in Seq(Answer)
           /\ \A c \in Calls : Waiting(x, c) + InSeq(c, x.queue) = Waiting(m, c) + InSeq(c, m.queue)
           /\ \A W \in SUBSET Objs : Owned(m, W) => Owned(x, W)
    BY <1>1, DropKeeps, Zenon
  <2> QED
    BY <2>1
<1> HIDE DEF s
<1>5. r \in [calls : Seq(Answer), flush : BOOLEAN] /\ r.calls = s.queue /\ hand' = [hand EXCEPT ![t] = r]
  BY <1>1, <1>2, <1>4 DEF HandType
<1> HIDE DEF r
<1>6. hand' \in HandType /\ hand'[t].calls = s.queue /\ \A u \in Threads \ {t} : hand'[u] = hand[u]
  BY <1>1, <1>5 DEF HandType
<1>7. /\ m' \in Tables /\ m'.queue = q /\ m'.listed = s.listed /\ m'.record = s.record
      /\ m'.alive = s.alive
  BY <1>2, <1>3, <1>4 DEF Good, Tables
<1>8. Good(m') /\ \A W : Owned(s, W) => Owned(m', W)
  BY <1>4, <1>7 DEF Good, Filed, Owned
<1>9. \A c : Waiting(m', c) = Waiting(s, c)
  BY <1>7 DEF Waiting
<1>10. ASSUME NEW c \in Calls
       PROVE  Waiting(m', c) + InSeq(c, m'.queue) + InSeq(c, hand'[t].calls)
              = Waiting(m, c) + InSeq(c, m.queue) + InSeq(c, hand[t].calls)
  <2>1. InSeq(c, m'.queue) = 0 /\ InSeq(c, hand[t].calls) = 0
    BY <1>3, <1>7
  <2>2. InSeq(c, hand'[t].calls) = InSeq(c, s.queue) /\ InSeq(c, s.queue) \in Nat /\ InSeq(c, m.queue) \in Nat
    BY <1>1, <1>4, <1>6, InSeqIsNat DEF Good, Tables
  <2>3. Waiting(m, c) \in Nat /\ Waiting(s, c) \in Nat /\ Waiting(m', c) = Waiting(s, c)
    BY <1>9 DEF Waiting
  <2>4. Waiting(s, c) + InSeq(c, s.queue) = Waiting(m, c) + InSeq(c, m.queue)
    BY <1>4
  <2> QED
    BY <2>1, <2>2, <2>3, <2>4
<1>11. Types
  BY <1>2 DEF ListInv, Others, Types
<1>12. Owned(m, InWindow) => Owned(m', InWindow)
  BY <1>4, <1>8, WindowIs
<1> QED
  BY <1>6, <1>8, <1>10, <1>11, <1>12, Handed

LEMMA FreeKeeps ==
  ASSUME ListInv, AnsweredOnce, Free \/ \E p \in Peers : LastThreadOut(p)
  PROVE  Keeps
<1>1. Good(m) /\ App \in Threads /\ Peers \subseteq Threads /\ App \notin Peers
  BY HandsAreTyped
<1>2. CASE Free
  <2>1. Idle(App) /\ window = None /\ hand[App].calls = <<>>
    BY <1>2 DEF Free, Calling, Idle
  <2>2. UNCHANGED <<net, download, syncing, window, answers, passed, unheard>>
    BY <1>2 DEF Free
  <2>3. CASE FreeNow(App) /\ UNCHANGED failures
    BY <1>1, <2>1, <2>2, <2>3, FreeNowKeeps
  <2>4. CASE phase' = "parked" /\ failures' = MaxFailures /\ UNCHANGED <<m, hand>>
    <3>1. Types
      BY <2>2, <2>4, PublishAssumption DEF ListInv, Others, Types
    <3>2. \A c \in Calls : Waiting(m', c) + InSeq(c, m'.queue) = Waiting(m, c) + InSeq(c, m.queue)
      BY <2>4
    <3>3. Good(m') /\ (Owned(m, InWindow) => Owned(m', InWindow))
      BY <1>1, <2>4
    <3> QED
      BY <2>2, <2>4, <3>1, <3>2, <3>3, Still
  <2> QED
    BY <1>2, <2>3, <2>4 DEF Free
<1>3. CASE \E p \in Peers : LastThreadOut(p)
  <2>1. PICK p \in Peers : LastThreadOut(p)
    BY <1>3
  <2>2. /\ hand[p].calls = <<>> /\ FreeNow(p) /\ p \in Threads /\ p # App
        /\ UNCHANGED <<net, download, syncing, failures, window, answers, passed, unheard>>
    BY <1>1, <2>1 DEF LastThreadOut, Idle
  <2> QED
    BY <2>2, FreeNowKeeps
<1> QED
  BY <1>2, <1>3

LEMMA DeliverKeeps ==
  ASSUME ListInv, AnsweredOnce, NEW t \in Threads, Deliver(t)
  PROVE  Keeps
<1> DEFINE calls == hand[t].calls
           a == Head(calls)
           rest == Tail(calls)
           r == [hand[t] EXCEPT !.calls = rest]
           more == Append(answers[a.call], a.error)
<1>1. /\ Good(m) /\ hand \in HandType /\ answers \in [Calls -> Seq(Verdicts)] /\ calls \in Seq(Answer)
      /\ App \in Threads
  BY HandsAreTyped DEF ListInv, Others, HandType
<1>2. /\ calls # <<>> /\ answers' = [answers EXCEPT ![a.call] = more]
      /\ hand' = [hand EXCEPT ![t].calls = rest]
      /\ UNCHANGED <<m, net, download, syncing, failures, phase, window, passed, unheard>>
  <2>1. answers' = [answers EXCEPT ![a.call] = Append(@, a.error)] /\ hand' = [hand EXCEPT ![t].calls = Tail(@)]
    BY Zenon DEF Deliver
  <2> QED
    BY <1>1, <2>1 DEF Deliver, HandType
<1> HIDE DEF calls
<1>3. /\ a \in Answer /\ rest \in Seq(Answer)
      /\ \A c : InSeq(c, calls) = (IF a.call = c THEN 1 ELSE 0) + InSeq(c, rest)
  BY <1>1, <1>2, InSeqHead
<1> HIDE DEF a, rest
<1>4. a.call \in Calls /\ a.error \in Verdicts
  BY <1>3 DEF Answer
<1>5. more \in Seq(Verdicts) /\ Len(more) = Len(answers[a.call]) + 1
  BY <1>1, <1>4
<1> HIDE DEF more
<1>6. /\ answers' \in [Calls -> Seq(Verdicts)]
      /\ \A c \in Calls : Len(answers'[c]) = Len(answers[c]) + (IF a.call = c THEN 1 ELSE 0)
  <2>1. answers' \in [Calls -> Seq(Verdicts)]
    BY <1>1, <1>2, <1>4, <1>5
  <2>2. ASSUME NEW c \in Calls
        PROVE  Len(answers'[c]) = Len(answers[c]) + (IF a.call = c THEN 1 ELSE 0)
    <3>1. CASE c = a.call
      <4>1. answers'[c] = more
        BY <1>1, <1>2, <3>1
      <4>2. Len(more) = Len(answers[c]) + 1
        BY <1>5, <3>1
      <4>3. (IF a.call = c THEN 1 ELSE 0) = 1
        BY <3>1
      <4> QED
        BY <4>1, <4>2, <4>3
    <3>2. CASE c # a.call
      <4>1. answers'[c] = answers[c] /\ Len(answers[c]) \in Nat
        BY <1>1, <1>2, <3>2, LenProperties
      <4>2. (IF a.call = c THEN 1 ELSE 0) = 0 /\ Len(answers[c]) + 0 = Len(answers[c])
        BY <3>2, <4>1
      <4> QED
        BY <4>1, <4>2
    <3> QED
      BY <3>1, <3>2
  <2> QED
    BY <2>1, <2>2
<1>7. r \in [calls : Seq(Answer), flush : BOOLEAN] /\ r.calls = rest /\ hand' = [hand EXCEPT ![t] = r]
  BY <1>1, <1>2, <1>3 DEF HandType
<1> HIDE DEF r
<1>8. hand' \in HandType /\ hand'[t].calls = rest /\ \A u \in Threads \ {t} : hand'[u] = hand[u]
  BY <1>1, <1>7 DEF HandType
<1>9. \A c : Win(c)' = Win(c) /\ Due(c)' = Due(c)
  BY <1>2 DEF Win, Due
<1>10. ASSUME NEW c \in Calls
       PROVE  Waiting(m', c) + InSeq(c, m'.queue) + InSeq(c, hand'[t].calls) + Win(c)'
                + Len(answers'[c]) + Due(c)
              = Waiting(m, c) + InSeq(c, m.queue) + InSeq(c, hand[t].calls) + Win(c)
                + Len(answers[c]) + Due(c)'
  <2> DEFINE w == Waiting(m, c)
             q == InSeq(c, m.queue)
             i == InSeq(c, rest)
             v == Win(c)
             n == Len(answers[c])
             d == Due(c)
             one == IF a.call = c THEN 1 ELSE 0
  <2>1. w \in Nat /\ q \in Nat /\ i \in Nat /\ v \in Nat /\ n \in Nat /\ d \in Nat /\ one \in Nat
    <3>1. w \in Nat /\ v \in Nat /\ d \in Nat /\ one \in Nat
      BY DEF Waiting, Win, Due
    <3>2. q \in Nat /\ i \in Nat
      BY <1>1, <1>3, InSeqIsNat DEF Good, Tables
    <3>3. n \in Nat
      BY <1>1, LenProperties
    <3> QED
      BY <3>1, <3>2, <3>3
  <2>2. /\ Waiting(m', c) = w /\ InSeq(c, m'.queue) = q /\ InSeq(c, hand'[t].calls) = i
        /\ Win(c)' = v /\ Due(c)' = d /\ Len(answers'[c]) = n + one
        /\ InSeq(c, hand[t].calls) = one + i
    BY <1>2, <1>3, <1>6, <1>8, <1>9 DEF calls
  <2> HIDE DEF w, q, i, v, n, d, one
  <2>3. w + q + i + v + (n + one) + d = w + q + (one + i) + v + n + d
    BY <2>1
  <2> QED
    BY <2>2, <2>3 DEF w, q, v, n, d
<1>11. AnsweredOnce'
  <2>1. Good(m') /\ \A u \in Threads \ {t} : hand'[u].calls = hand[u].calls
    BY <1>1, <1>2, <1>8
  <2> QED
    BY <1>1, <1>6, <1>8, <1>10, <2>1, Balance
<1>12. WindowWaits'
  <2>1. window # None => t # App
    BY <1>2 DEF ListInv, WindowWaits, calls
  <2> QED
    BY <1>1, <1>2, <1>8, <2>1 DEF ListInv, WindowWaits
<1>13. ListInv'
  BY <1>1, <1>2, <1>6, <1>8, <1>12 DEF ListInv, Others, HandType
<1>14. InWindow' = InWindow /\ (Owned(m, InWindow) => Owned(m', InWindow))
  BY <1>2, WindowIs
<1> QED
  BY <1>11, <1>13, <1>14 DEF Keeps

(* A step of the application's thread that may take a callback, give one   *)
(* back or find it in its window.                                          *)
LEMMA AppBalance ==
  ASSUME ListInv, AnsweredOnce, hand[App].calls = <<>>, NEW calls \in Seq(Answer),
         hand' \in HandType, hand'[App].calls = calls, \A u \in Peers : hand'[u] = hand[u],
         Good(m'), NEW came \in [Calls -> Nat],
         \A d \in Calls : Waiting(m', d) + InSeq(d, m'.queue) + InSeq(d, calls)
                          = Waiting(m, d) + InSeq(d, m.queue) + came[d],
         \A d \in Calls : came[d] + Win(d)' + Due(d) = Win(d) + Due(d)',
         UNCHANGED answers
  PROVE  AnsweredOnce'
<1>1. /\ Good(m) /\ hand \in HandType /\ answers \in [Calls -> Seq(Verdicts)] /\ App \in Threads
  BY HandsAreTyped DEF ListInv, Others
<1>2. ASSUME NEW d \in Calls
      PROVE  Waiting(m', d) + InSeq(d, m'.queue) + InSeq(d, hand'[App].calls) + Win(d)'
               + Len(answers'[d]) + Due(d)
             = Waiting(m, d) + InSeq(d, m.queue) + InSeq(d, hand[App].calls) + Win(d)
               + Len(answers[d]) + Due(d)'
  <2> DEFINE w1 == Waiting(m, d)
             w2 == Waiting(m', d)
             q1 == InSeq(d, m.queue)
             q2 == InSeq(d, m'.queue)
             i2 == InSeq(d, calls)
             k == came[d]
             v1 == Win(d)
             v2 == Win(d)'
             d1 == Due(d)
             d2 == Due(d)'
             n == Len(answers[d])
  <2>1. /\ w1 \in Nat /\ w2 \in Nat /\ v1 \in Nat /\ v2 \in Nat /\ d1 \in Nat /\ d2 \in Nat
    BY DEF Waiting, Win, Due
  <2>2. q1 \in Nat /\ q2 \in Nat /\ i2 \in Nat /\ InSeq(d, <<>>) = 0
    BY <1>1, InSeqIsNat DEF Good, Tables
  <2>3. n \in Nat /\ k \in Nat
    BY <1>1, LenProperties
  <2>4. /\ w2 + q2 + i2 = w1 + q1 + k /\ k + v2 + d1 = v1 + d2
        /\ InSeq(d, hand'[App].calls) = i2 /\ InSeq(d, hand[App].calls) = 0
        /\ Len(answers'[d]) = n
    BY <2>2
  <2> HIDE DEF w1, w2, q1, q2, i2, k, v1, v2, d1, d2, n
  <2>5. w2 + q2 + i2 + v2 + n + d1 = w1 + q1 + 0 + v1 + n + d2
    BY <2>1, <2>2, <2>3, <2>4
  <2> QED
    BY <2>4, <2>5 DEF w1, w2, q1, q2, v1, v2, d1, d2, n
<1>3. \A u \in Threads \ {App} : hand'[u].calls = hand[u].calls
  BY DEF Threads
<1> QED
  BY <1>1, <1>2, <1>3, Balance

(* A callback is due when it is listed or in the window, and is not both.  *)
LEMMA Accounts ==
  ASSUME ListInv, AnsweredOnce, NEW c \in Calls
  PROVE  Waiting(m, c) + Win(c) <= Due(c) /\ Waiting(m, c) \in 0..1 /\ Win(c) \in 0..1 /\ Due(c) \in 0..1
<1>1. Good(m) /\ hand \in HandType /\ answers \in [Calls -> Seq(Verdicts)]
  BY HandsAreTyped DEF ListInv, Others
<1>2. Places(c) = Waiting(m, c) + InSeq(c, m.queue) + Cardinality(InHands(c, hand)) + Win(c)
                  + Len(answers[c])
  BY <1>1, PlacesAre
<1>3. Places(c) = Due(c)
  BY DEF AnsweredOnce, Due
<1>4. Waiting(m, c) \in 0..1 /\ Win(c) \in 0..1 /\ Due(c) \in 0..1
  BY DEF Waiting, Win, Due
<1>5. InSeq(c, m.queue) \in Nat
  BY <1>1, InSeqIsNat DEF Good, Tables
<1>6. Cardinality(InHands(c, hand)) \in Nat
  BY <1>1, HandsFinite
<1>7. Len(answers[c]) \in Nat
  BY <1>1, LenProperties
<1> DEFINE w == Waiting(m, c)
           q == InSeq(c, m.queue)
           i == Cardinality(InHands(c, hand))
           v == Win(c)
           n == Len(answers[c])
           d == Due(c)
<1>8. /\ w \in Nat /\ q \in Nat /\ i \in Nat /\ v \in Nat /\ n \in Nat /\ d \in Nat
      /\ d = w + q + i + v + n
  <2>1. w \in Nat /\ v \in Nat /\ d \in Nat
    BY <1>4
  <2>2. q \in Nat /\ i \in Nat /\ n \in Nat
    BY <1>5, <1>6, <1>7
  <2>3. d = w + q + i + v + n
    BY <1>2, <1>3
  <2> QED
    BY <2>1, <2>2, <2>3
<1> HIDE DEF w, q, i, v, n, d
<1>9. w + v <= d
  BY <1>8
<1> QED
  BY <1>4, <1>9 DEF w, v, d

(* What publishing o with the callback c makes of the list.                *)
Carried(t, o, c) ==
    /\ Good(t)
    /\ \A d \in Calls : Waiting(t, d) + InSeq(d, t.queue)
                        = Waiting(m, d) + InSeq(d, m.queue) + (IF d = c /\ o \notin m.mined THEN 1 ELSE 0)
    /\ \A W \in SUBSET Objs :
          /\ W \subseteq {o} /\ Owned(m, W)
          /\ m.alive[o] = "unborn" \/ m.record[HashOf[o]] = o \/ o \in W
          => Owned(t, {})

LEMMA HandOverCarries ==
  ASSUME ListInv, NEW o \in Objs, NEW c \in Calls \cup {None}, c # None => Waiting(m, c) = 0,
         NEW s, Good(s), s.queue = m.queue, s.mined = m.mined,
         \A d \in Calls : Waiting(s, d) = Waiting(m, d),
         \A W \in SUBSET Objs :
            Owned(m, W) /\ (m.alive[o] = "unborn" \/ m.record[HashOf[o]] = o \/ o \in W)
            => Owned(s, W \cup {o}),
         NEW r, r = HandOver(s, o, c)
  PROVE  Carried(r.s, o, c)
<1>1. c # None => Waiting(s, c) = 0
  OBVIOUS
<1>2. /\ Good(r.s) /\ r.s.record = s.record /\ r.s.mined = s.mined
      /\ \A d \in Calls :
            Waiting(r.s, d) + InSeq(d, r.s.queue)
            = Waiting(s, d) + InSeq(d, s.queue) + (IF d = c /\ o \notin s.mined THEN 1 ELSE 0)
      /\ \A W \in SUBSET Objs : Owned(s, W) /\ o \in W => Owned(r.s, W \ {o})
  <2>1. HandedOn(r.s, s, o, c)
    BY <1>1, HandOverKeeps
  <2> QED
    BY <2>1 DEF HandedOn
<1>3. ASSUME NEW W \in SUBSET Objs, W \subseteq {o}, Owned(m, W),
             m.alive[o] = "unborn" \/ m.record[HashOf[o]] = o \/ o \in W
      PROVE  Owned(r.s, {})
  <2>1. Owned(s, W \cup {o})
    BY <1>3
  <2> DEFINE Z == W \cup {o}
  <2>2. Z \in SUBSET Objs /\ o \in Z /\ Z \ {o} = {} /\ Owned(s, Z)
    BY <1>3, <2>1
  <2> HIDE DEF Z
  <2>3. Owned(r.s, Z \ {o})
    BY <1>2, <2>2
  <2> QED
    BY <2>2, <2>3
<1>4. \A d \in Calls : Waiting(r.s, d) + InSeq(d, r.s.queue)
                       = Waiting(m, d) + InSeq(d, m.queue) + (IF d = c /\ o \notin m.mined THEN 1 ELSE 0)
  BY <1>2
<1> QED
  BY <1>2, <1>3, <1>4 DEF Carried

LEMMA FloodCarries ==
  ASSUME ListInv, NEW o \in Objs, NEW c \in Calls \cup {None}, c # None => Waiting(m, c) = 0, Flood(o, c)
  PROVE  /\ Carried(m', o, c) /\ net' \in [Peers -> Link] /\ Then(App, <<>>)
         /\ unheard' = unheard \cup (IF o \in m.mined THEN {c} \ {None} ELSE {})
<1> DEFINE h == HashOf[o]
           s == Born(m, o)
           u == Unstemmed(s, h)
           r == HandOver(u, o, c)
<1>1. Good(m) /\ net \in [Peers -> Link] /\ h \in Txs
  BY HandsAreTyped, PublishAssumption DEF ListInv, Others
<1>2. /\ m' = r.s /\ net' = AnnounceTo(r.s, net, {p \in Up : p # download \/ Up = {p}})
      /\ unheard' = unheard \cup (IF o \in m.mined THEN {c} \ {None} ELSE {})
      /\ Then(App, <<>>)
  BY DEF Flood
<1>3. /\ Good(s) /\ s.listed = m.listed /\ s.queue = m.queue /\ s.record = m.record
      /\ s.mined = m.mined
      /\ \A W \in SUBSET Objs :
           Owned(m, W) /\ (m.alive[o] = "unborn" \/ m.record[HashOf[o]] = o \/ o \in W)
           => Owned(s, W \cup {o})
  BY <1>1, BornKeeps
<1> HIDE DEF h, s
<1>4. Restemmed(u, s)
  BY <1>1, <1>3, UnstemKeeps
<1> HIDE DEF u
<1>5. /\ Good(u) /\ u.queue = m.queue /\ u.mined = m.mined
      /\ \A W \in SUBSET Objs :
           Owned(m, W) /\ (m.alive[o] = "unborn" \/ m.record[HashOf[o]] = o \/ o \in W)
           => Owned(u, W \cup {o})
  BY <1>3, <1>4 DEF Restemmed
<1>6. \A d \in Calls : Waiting(u, d) = Waiting(m, d)
  <2>1. \A d \in Calls : Waiting(s, d) = Waiting(m, d)
    BY <1>3 DEF Waiting
  <2> QED
    BY <1>4, <2>1 DEF Restemmed
<1> HIDE DEF r
<1>7. Carried(r.s, o, c)
  BY <1>5, <1>6, HandOverCarries DEF r
<1>8. net' \in [Peers -> Link]
  BY <1>1, <1>2, LinksKeep
<1> QED
  BY <1>2, <1>7, <1>8

(* A publish that is carried out.                                          *)
LEMMA CarriedKeeps ==
  ASSUME ListInv, AnsweredOnce, NEW o \in Objs, NEW c \in Calls \cup {None}, Carried(m', o, c),
         Then(App, <<>>), hand[App].calls = <<>>, window' = None,
         Types, passed' \subseteq Calls, unheard' \subseteq passed', UNCHANGED answers,
         \A d \in Calls : (IF d = c /\ o \notin m.mined THEN 1 ELSE 0) + Win(d)' + Due(d) = Win(d) + Due(d)',
         Owned(m, InWindow) => Owned(m', {})
  PROVE  Keeps
<1> DEFINE calls == <<>>
           r == [calls |-> calls, flush |-> TRUE]
           came == [d \in Calls |-> IF d = c /\ o \notin m.mined THEN 1 ELSE 0]
<1>1. Good(m) /\ hand \in HandType /\ App \in Threads /\ Peers \subseteq Threads /\ App \notin Peers
  BY HandsAreTyped
<1>2. /\ calls \in Seq(Answer) /\ r \in [calls : Seq(Answer), flush : BOOLEAN] /\ r.calls = calls
      /\ hand' = [hand EXCEPT ![App] = r]
  BY DEF Then
<1>3. \A d \in Calls : InSeq(d, calls) = 0
  BY <1>2, InSeqIsNat
<1>4. hand[App].calls = calls
  OBVIOUS
<1> HIDE DEF r
<1>5. hand' \in HandType /\ hand'[App].calls = calls /\ \A u \in Peers : hand'[u] = hand[u]
  BY <1>1, <1>2 DEF HandType
<1>6. /\ Good(m')
      /\ \A d \in Calls : Waiting(m', d) + InSeq(d, m'.queue)
                          = Waiting(m, d) + InSeq(d, m.queue)
                            + (IF d = c /\ o \notin m.mined THEN 1 ELSE 0)
  BY DEF Carried
<1>7. came \in [Calls -> Nat] /\ \A d \in Calls : came[d] = IF d = c /\ o \notin m.mined THEN 1 ELSE 0
  OBVIOUS
<1> HIDE DEF calls, came
<1>8. \A d \in Calls : Waiting(m', d) + InSeq(d, m'.queue) + InSeq(d, calls)
                       = Waiting(m, d) + InSeq(d, m.queue) + came[d]
  <2>1. \A d \in Calls : Waiting(m', d) \in Nat /\ InSeq(d, m'.queue) \in Nat
    BY <1>6, InSeqIsNat DEF Waiting, Good, Tables
  <2> QED
    BY <1>3, <1>6, <1>7, <2>1
<1>9. \A d \in Calls : came[d] + Win(d)' + Due(d) = Win(d) + Due(d)'
  BY <1>7
<1>10. AnsweredOnce'
  BY <1>2, <1>4, <1>5, <1>6, <1>7, <1>8, <1>9, AppBalance
<1>11. ListInv'
  BY <1>5, <1>6 DEF ListInv, Others, WindowWaits, Types, HandType
<1>12. InWindow' = {}
  BY DEF InWindow
<1> QED
  BY <1>10, <1>11, <1>12 DEF Keeps

(* A callback that was not passed before becomes due, unless it is dropped. *)
LEMMA FreshIsDue ==
  ASSUME ListInv, AnsweredOnce, NEW c \in Calls \cup {None}, Fresh(c), Pass(c), NEW S \in SUBSET {c},
         unheard' = unheard \cup (S \ {None})
  PROVE  /\ passed' \subseteq Calls /\ unheard' \subseteq passed'
         /\ \A d \in Calls : Due(d)' = Due(d) + (IF d = c /\ d \notin S THEN 1 ELSE 0)
         /\ c # None => Waiting(m, c) = 0
<1>1. passed \subseteq Calls /\ unheard \subseteq passed /\ None \notin Calls
  BY PublishAssumption DEF ListInv, Others
<1>2. passed' = passed \cup ({c} \ {None}) /\ c \notin passed
  BY DEF Pass, Fresh
<1>3. passed' \subseteq Calls /\ unheard' \subseteq passed'
  BY <1>1, <1>2
<1>4. ASSUME NEW d \in Calls
      PROVE  Due(d)' = Due(d) + (IF d = c /\ d \notin S THEN 1 ELSE 0)
  <2>1. CASE d = c
    <3>1. d \notin passed /\ d \notin unheard /\ d \in passed' /\ (d \in unheard' <=> d \in S)
      BY <1>1, <1>2, <2>1
    <3>2. Due(d) = 0 /\ Due(d)' = IF d \notin S THEN 1 ELSE 0
      BY <3>1 DEF Due
    <3> QED
      BY <2>1, <3>2
  <2>2. CASE d # c
    <3>1. (d \in passed' <=> d \in passed) /\ (d \in unheard' <=> d \in unheard)
      BY <1>2, <2>2
    <3>2. Due(d)' = Due(d) /\ Due(d) \in Nat
      BY <3>1 DEF Due
    <3> QED
      BY <2>2, <3>2
  <2> QED
    BY <2>1, <2>2
<1>5. ASSUME c # None PROVE Waiting(m, c) = 0
  <2>1. c \in Calls /\ Due(c) = 0
    BY <1>2, <1>5 DEF Due
  <2>2. Waiting(m, c) + Win(c) <= 0 /\ Waiting(m, c) \in 0..1 /\ Win(c) \in 0..1
    BY <2>1, Accounts
  <2> QED
    BY <2>2
<1> QED
  BY <1>3, <1>4, <1>5

LEMMA StemPublishTxKeeps ==
  ASSUME ListInv, AnsweredOnce, NEW o \in Objs, NEW c \in Calls \cup {None}, NEW p \in Peers,
         StemPublishTx(o, c, p)
  PROVE  Keeps
<1> DEFINE h == HashOf[o]
           b == Born(m, o)
           r == HandOver(b, o, c)
           s == [r.s EXCEPT !.listed = {IF e.hash = HashOf[o] THEN [e EXCEPT !.stem = p] ELSE e : e \in @}]
           S == IF o \in m.mined THEN {c} ELSE {}
<1>1. Good(m) /\ net \in [Peers -> Link] /\ h \in Txs
  BY HandsAreTyped, PublishAssumption DEF ListInv, Others
<1>2. /\ window = None /\ hand[App].calls = <<>> /\ Offered(o) /\ Fresh(c) /\ Pass(c)
      /\ IF r.added = "pending" THEN m' = r.s /\ UNCHANGED net ELSE m' = s /\ net' = AnnounceTo(s, net, {p})
      /\ unheard' = unheard \cup (IF o \in m.mined THEN {c} \ {None} ELSE {})
      /\ Then(App, <<>>)
      /\ UNCHANGED <<download, syncing, failures, phase, window, answers>>
  BY DEF StemPublishTx, Calling, Idle
<1>3. S \in SUBSET {c} /\ unheard' = unheard \cup (S \ {None})
  BY <1>2
<1>4. /\ Good(b) /\ b.listed = m.listed /\ b.queue = m.queue /\ b.record = m.record
      /\ b.mined = m.mined
      /\ \A W \in SUBSET Objs :
           Owned(m, W) /\ (m.alive[o] = "unborn" \/ m.record[HashOf[o]] = o \/ o \in W)
           => Owned(b, W \cup {o})
  BY <1>1, BornKeeps
<1>5. \A d \in Calls : Due(d)' = Due(d) + (IF d = c /\ d \notin S THEN 1 ELSE 0)
  BY <1>2, <1>3, FreshIsDue
<1>6. passed' \subseteq Calls /\ unheard' \subseteq passed' /\ (c # None => Waiting(m, c) = 0)
  BY <1>2, <1>3, FreshIsDue
<1>7. \A d \in Calls : Waiting(b, d) = Waiting(m, d)
  BY <1>4 DEF Waiting
<1> HIDE DEF b, r
<1>8. Carried(r.s, o, c)
  BY <1>4, <1>6, <1>7, HandOverCarries DEF r
<1>9. Carried(m', o, c)
  <2>1. CASE m' = r.s
    BY <1>8, <2>1
  <2>2. CASE m' = s
    <3> HIDE DEF s
    <3>1. Restemmed(s, r.s)
      BY <1>1, <1>8, RestemKeeps DEF Carried, s
    <3> QED
      BY <1>8, <2>2, <3>1 DEF Carried, Restemmed
  <2> QED
    BY <1>2, <2>1, <2>2
<1> HIDE DEF s
<1>10. Types
  <2> DEFINE one == {p}
  <2>1. net' = net \/ net' = AnnounceTo(s, net, one)
    BY <1>2
  <2> HIDE DEF one
  <2>2. net' \in [Peers -> Link]
    BY <1>1, <2>1, LinksKeep
  <2> QED
    BY <1>2, <2>2, TypesKept
<1>11. \A d \in Calls : (IF d = c /\ o \notin m.mined THEN 1 ELSE 0) + Win(d)' + Due(d) = Win(d) + Due(d)'
  <2>1. ASSUME NEW d \in Calls
        PROVE  (IF d = c /\ o \notin m.mined THEN 1 ELSE 0) + Win(d)' + Due(d) = Win(d) + Due(d)'
    <3>1. Win(d)' = 0 /\ Win(d) = 0 /\ Due(d) \in Nat
      BY <1>2 DEF Win, Due
    <3>2. d = c => (d \notin S <=> o \notin m.mined)
      OBVIOUS
    <3> QED
      BY <1>5, <3>1, <3>2
  <2> QED
    BY <2>1
<1>12. Owned(m, InWindow) => Owned(m', {})
  <2>1. InWindow = {}
    BY <1>2 DEF InWindow
  <2>2. m.alive[o] = "unborn" \/ m.record[HashOf[o]] = o
    BY <1>2 DEF Offered
  <2> QED
    BY <1>9, <2>1, <2>2 DEF Carried
<1>13. window' = None /\ UNCHANGED answers /\ Then(App, <<>>) /\ hand[App].calls = <<>>
  BY <1>2
<1> QED
  BY <1>6, <1>9, <1>10, <1>11, <1>12, <1>13, CarriedKeeps

(* PublishTx with a download peer, or without one: it gives the lock up.   *)
LEMMA PublishTxKeeps ==
  ASSUME ListInv, AnsweredOnce, NEW o \in Objs, NEW c \in Calls \cup {None}, PublishTx(o, c)
  PROVE  Keeps
<1> DEFINE S == IF download # None /\ o \in m.mined THEN {c} ELSE {}
<1>1. Good(m) /\ hand \in HandType /\ answers \in [Calls -> Seq(Verdicts)] /\ App \in Threads
  BY HandsAreTyped DEF ListInv, Others
<1>2. /\ window = None /\ hand[App].calls = <<>> /\ ~hand[App].flush /\ Offered(o) /\ Fresh(c) /\ Pass(c)
      /\ UNCHANGED <<download, syncing, failures, phase, answers>>
  BY DEF PublishTx, Calling, Idle
<1>3. m.alive[o] = "unborn" \/ m.record[HashOf[o]] = o
  BY <1>2 DEF Offered
<1>4. InWindow = {}
  BY <1>2 DEF InWindow
<1>5. c # None => Waiting(m, c) = 0
  <2>1. ASSUME c # None PROVE Waiting(m, c) = 0
    <3>1. c \in Calls /\ Due(c) = 0
      BY <1>2, <2>1 DEF Due, Fresh
    <3>2. Waiting(m, c) + Win(c) <= 0 /\ Waiting(m, c) \in 0..1 /\ Win(c) \in 0..1
      BY <3>1, Accounts
    <3> QED
      BY <3>2
  <2> QED
    BY <2>1
<1>6. CASE download # None
  <2>1. Flood(o, c) /\ UNCHANGED window
    BY <1>6 DEF PublishTx
  <2>2. /\ Carried(m', o, c) /\ net' \in [Peers -> Link] /\ Then(App, <<>>)
        /\ unheard' = unheard \cup (IF o \in m.mined THEN {c} \ {None} ELSE {})
    BY <1>5, <2>1, FloodCarries
  <2>3. S \in SUBSET {c} /\ unheard' = unheard \cup (S \ {None})
    BY <1>6, <2>2
  <2>4. /\ passed' \subseteq Calls /\ unheard' \subseteq passed'
        /\ \A d \in Calls : Due(d)' = Due(d) + (IF d = c /\ d \notin S THEN 1 ELSE 0)
    BY <1>2, <2>3, FreshIsDue
  <2>5. ASSUME NEW d \in Calls
        PROVE  (IF d = c /\ o \notin m.mined THEN 1 ELSE 0) + Win(d)' + Due(d) = Win(d) + Due(d)'
    <3>1. Win(d)' = 0 /\ Win(d) = 0 /\ Due(d) \in Nat
      BY <1>2, <2>1 DEF Win, Due
    <3>2. d = c => (d \notin S <=> o \notin m.mined)
      BY <1>6
    <3> QED
      BY <2>4, <3>1, <3>2
  <2>6. Owned(m, InWindow) => Owned(m', {})
    BY <1>3, <1>4, <2>2 DEF Carried
  <2>7. Types
    BY <1>2, <2>2, TypesKept
  <2>8. window' = None /\ UNCHANGED answers
    BY <1>2, <2>1
  <2> QED
    BY <1>2, <2>2, <2>4, <2>5, <2>6, <2>7, <2>8, CarriedKeeps
<1>7. CASE download = None
  <2> DEFINE w == [obj |-> o, call |-> c, tired |-> failures >= MaxFailures]
             calls == <<>>
             came == [d \in Calls |-> 0]
             late == {}
  <2>1. /\ window' = w /\ m' = Born(m, o) /\ UNCHANGED <<net, hand, unheard>>
    BY <1>7 DEF PublishTx
  <2>2. /\ w \in [obj : Objs, call : Calls \cup {None}, tired : BOOLEAN] /\ w # None
        /\ w.call = c /\ w.obj = o
    <3> DEFINE b == failures >= MaxFailures
    <3>1. b \in BOOLEAN /\ w = [obj |-> o, call |-> c, tired |-> b]
      OBVIOUS
    <3> HIDE DEF b, w
    <3>2. w \in [obj : Objs, call : Calls \cup {None}, tired : BOOLEAN] /\ w.call = c /\ w.obj = o
      BY <3>1
    <3> QED
      BY <3>2, PublishAssumption
  <2>3. /\ Good(m') /\ m'.listed = m.listed /\ m'.queue = m.queue
        /\ \A W \in SUBSET Objs :
             Owned(m, W) /\ (m.alive[o] = "unborn" \/ m.record[HashOf[o]] = o \/ o \in W)
             => Owned(m', W \cup {o})
    BY <1>1, <2>1, BornKeeps
  <2>4. late \in SUBSET {c} /\ unheard' = unheard \cup (late \ {None}) /\ late = {}
    BY <2>1
  <2> HIDE DEF late
  <2>5. /\ passed' \subseteq Calls /\ unheard' \subseteq passed'
        /\ \A d \in Calls : Due(d)' = Due(d) + (IF d = c /\ d \notin late THEN 1 ELSE 0)
    BY <1>2, <2>4, FreshIsDue
  <2>6. calls \in Seq(Answer) /\ hand' \in HandType /\ hand[App].calls = calls /\ hand'[App].calls = calls
        /\ \A u \in Peers : hand'[u] = hand[u]
    BY <1>1, <1>2, <2>1
  <2>7. \A d \in Calls : InSeq(d, calls) = 0
    BY <2>6, InSeqIsNat
  <2>8. came \in [Calls -> Nat] /\ \A d \in Calls : came[d] = 0
    OBVIOUS
  <2>9. calls = <<>>
    OBVIOUS
  <2> HIDE DEF w, calls, came
  <2>10. ASSUME NEW d \in Calls
         PROVE  /\ Waiting(m', d) + InSeq(d, m'.queue) + InSeq(d, calls)
                   = Waiting(m, d) + InSeq(d, m.queue) + came[d]
                /\ came[d] + Win(d)' + Due(d) = Win(d) + Due(d)'
    <3>1. Waiting(m', d) = Waiting(m, d)
      BY <2>3 DEF Waiting
    <3>2. Win(d) = 0 /\ Win(d)' = (IF d = c THEN 1 ELSE 0) /\ Due(d) \in Nat
      BY <1>2, <2>1, <2>2 DEF Win, Due
    <3>3. Due(d)' = Due(d) + (IF d = c THEN 1 ELSE 0)
      BY <2>4, <2>5
    <3> QED
      BY <2>3, <2>7, <2>8, <3>1, <3>2, <3>3
  <2>11. AnsweredOnce'
    BY <1>2, <2>3, <2>6, <2>8, <2>9, <2>10, AppBalance
  <2>12. WindowWaits'
    <3>1. hand'[App].calls = <<>> /\ ~hand'[App].flush
      BY <1>2, <2>1
    <3>2. window'.call \in passed' \cup {None} /\ HashOf[window'.obj] \in Sends
      BY <1>2, <2>1, <2>2 DEF Pass, Offered
    <3> QED
      BY <3>1, <3>2 DEF WindowWaits
  <2>13. ListInv'
    BY <1>2, <2>1, <2>2, <2>3, <2>5, <2>12 DEF ListInv, Others
  <2>14. InWindow' = {o}
    BY <2>1, <2>2 DEF InWindow
  <2>15. Owned(m, {}) => Owned(m', {o})
    <3> DEFINE W == {}
    <3>1. W \in SUBSET Objs /\ W \cup {o} = {o}
      OBVIOUS
    <3>2. Owned(m, W) => Owned(m', W \cup {o})
      BY <1>3, <2>3, <3>1
    <3> QED
      BY <3>1, <3>2
  <2> QED
    BY <1>4, <2>11, <2>13, <2>14, <2>15 DEF Keeps
<1> QED
  BY <1>6, <1>7

(* A reply to the caller's own callback.                                   *)
LEMMA ReplyIs ==
  ASSUME NEW c \in Calls \cup {None}, NEW error \in Verdicts
  PROVE  /\ Reply(c, error) \in Seq(Answer)
         /\ \A d \in Calls : InSeq(d, Reply(c, error)) = IF d = c THEN 1 ELSE 0
<1>1. None \notin Calls
  BY PublishAssumption
<1>2. CASE c = None
  <2> DEFINE q == <<>>
  <2>1. q \in Seq(Answer) /\ q = <<>> /\ Reply(c, error) = q
    BY <1>2 DEF Reply
  <2>2. \A d \in Calls : InSeq(d, q) = 0
    BY <2>1, InSeqIsNat
  <2> QED
    BY <1>1, <1>2, <2>1, <2>2
<1>3. CASE c # None
  <2> DEFINE a == [call |-> c, error |-> error]
  <2>1. a \in Answer /\ a.call = c /\ Reply(c, error) = <<a>>
    BY <1>3 DEF Reply, Answer
  <2> HIDE DEF a
  <2>2. <<a>> \in Seq(Answer) /\ \A d \in Calls : InSeq(d, <<a>>) = IF a.call = d THEN 1 ELSE 0
    BY <2>1, InSeqOne
  <2> QED
    BY <2>1, <2>2
<1> QED
  BY <1>2, <1>3

LEMMA PublishUnsignedKeeps ==
  ASSUME ListInv, AnsweredOnce, NEW o \in Objs, NEW c \in Calls \cup {None}, PublishUnsigned(o, c)
  PROVE  Keeps
<1> DEFINE A == [m.alive EXCEPT ![o] = "freed"]
           error == "EINVAL"
           calls == Reply(c, error)
           r == [hand[App] EXCEPT !.calls = calls]
           came == [d \in Calls |-> IF d = c THEN 1 ELSE 0]
           late == {}
<1>1. /\ Good(m) /\ m \in Tables /\ hand \in HandType /\ App \in Threads /\ Peers \subseteq Threads
      /\ App \notin Peers
  BY HandsAreTyped DEF Good
<1>2. /\ window = None /\ hand[App].calls = <<>> /\ Fresh(c) /\ Pass(c) /\ m.alive[o] = "unborn"
      /\ m' = [m EXCEPT !.alive = A] /\ hand' = [hand EXCEPT ![App].calls = calls]
      /\ UNCHANGED <<net, download, syncing, failures, phase, window, answers, unheard>>
  <2>1. m' = [m EXCEPT !.alive[o] = "freed"]
    BY DEF PublishUnsigned
  <2>2. m' = [m EXCEPT !.alive = A]
    BY <1>1, <2>1 DEF Tables
  <2> QED
    BY <2>2 DEF PublishUnsigned, Calling, Idle
<1>3. error \in Verdicts
  BY DEF Verdicts
<1>4. A \in [Objs -> {"unborn", "live", "freed", "twice"}]
      /\ \A x \in Objs : IF x = o THEN A[x] = "freed" ELSE A[x] = m.alive[x]
  BY <1>1 DEF Tables
<1>5. late \in SUBSET {c} /\ unheard' = unheard \cup (late \ {None}) /\ late = {}
  BY <1>2
<1>6. came \in [Calls -> Nat] /\ \A d \in Calls : came[d] = IF d = c THEN 1 ELSE 0
  OBVIOUS
<1> HIDE DEF A, error, late, came
<1>7. calls \in Seq(Answer) /\ \A d \in Calls : InSeq(d, calls) = IF d = c THEN 1 ELSE 0
  BY <1>3, ReplyIs
<1> HIDE DEF calls
<1>8. r \in [calls : Seq(Answer), flush : BOOLEAN] /\ r.calls = calls /\ hand' = [hand EXCEPT ![App] = r]
  BY <1>1, <1>2, <1>7 DEF HandType
<1> HIDE DEF r
<1>9. hand' \in HandType /\ hand'[App].calls = calls /\ \A u \in Peers : hand'[u] = hand[u]
  BY <1>1, <1>8 DEF HandType
<1>10. /\ m' \in Tables /\ m'.listed = m.listed /\ m'.queue = m.queue /\ m'.record = m.record
       /\ m'.alive = A
  BY <1>1, <1>2, <1>4 DEF Tables
<1>11. Good(m')
  BY <1>1, <1>10 DEF Good, Filed
<1>12. InWindow = {} /\ InWindow' = {}
  BY <1>2 DEF InWindow
<1>13. ASSUME Owned(m, {}) PROVE Owned(m', {})
  <2>1. \A x \in Objs : m.alive[x] = "live" => m'.alive[x] = "live"
    BY <1>2, <1>4, <1>10
  <2>2. \A x \in Objs : (m'.alive[x] = "live" => m.alive[x] = "live") /\ (m'.alive[x] = "twice" => m.alive[x] = "twice")
    BY <1>2, <1>4, <1>10
  <2>3. /\ \A e \in m.listed : e.obj \in Objs
        /\ \A h \in Txs : m.record[h] # None => m.record[h] \in Objs
    BY <1>1 DEF Tables, PubEntry
  <2>4. \A e \in m'.listed : /\ m'.alive[e.obj] = "live" /\ (e.owned <=> m'.record[e.hash] # e.obj)
                             /\ e.owned => e.obj \notin {}
    BY <1>10, <1>13, <2>1, <2>3 DEF Owned
  <2>5. \A h \in Txs : m'.record[h] # None => m'.alive[m'.record[h]] = "live"
    BY <1>10, <1>13, <2>1, <2>3 DEF Owned
  <2>6. \A x \in Objs :
          /\ m'.alive[x] # "twice"
          /\ m'.alive[x] = "live" => \/ x \in {} \/ m'.record[HashOf[x]] = x
                                     \/ \E e \in m'.listed : e.obj = x
    BY <1>10, <1>13, <2>2 DEF Owned
  <2> QED
    BY <2>4, <2>5, <2>6 DEF Owned
<1>14. /\ passed' \subseteq Calls /\ unheard' \subseteq passed'
       /\ \A d \in Calls : Due(d)' = Due(d) + (IF d = c /\ d \notin late THEN 1 ELSE 0)
  BY <1>2, <1>5, FreshIsDue
<1>15. ASSUME NEW d \in Calls
       PROVE  /\ Waiting(m', d) + InSeq(d, m'.queue) + InSeq(d, calls)
                 = Waiting(m, d) + InSeq(d, m.queue) + came[d]
              /\ came[d] + Win(d)' + Due(d) = Win(d) + Due(d)'
  <2>1. Waiting(m', d) = Waiting(m, d) /\ m'.queue = m.queue /\ InSeq(d, calls) = came[d]
    BY <1>6, <1>7, <1>10 DEF Waiting
  <2>2. Win(d) = 0 /\ Win(d)' = 0 /\ Due(d) \in Nat
    BY <1>2 DEF Win, Due
  <2>3. Due(d)' = Due(d) + came[d] /\ came[d] \in Nat
    BY <1>5, <1>6, <1>14
  <2>4. Waiting(m', d) + InSeq(d, m'.queue) + InSeq(d, calls)
        = Waiting(m, d) + InSeq(d, m.queue) + came[d]
    BY <2>1
  <2> QED
    BY <2>2, <2>3, <2>4
<1>16. AnsweredOnce'
  BY <1>2, <1>6, <1>7, <1>9, <1>11, <1>15, AppBalance
<1>17. ListInv'
  BY <1>2, <1>9, <1>11, <1>14 DEF ListInv, Others, WindowWaits, HandType
<1> QED
  BY <1>12, <1>13, <1>16, <1>17 DEF Keeps

(* PublishTx takes the lock again.                                         *)
LEMMA PublishResumeKeeps ==
  ASSUME ListInv, AnsweredOnce, NEW reachable \in BOOLEAN, PublishResume(reachable)
  PROVE  Keeps
<1> DEFINE o == window.obj
           c == window.call
<1>1. /\ Good(m) /\ m \in Tables /\ hand \in HandType /\ App \in Threads /\ Peers \subseteq Threads
      /\ App \notin Peers
  BY HandsAreTyped DEF Good
<1>2. /\ window # None /\ window' = None
      /\ IF window.tired \/ ~reachable
         THEN /\ m' = IF m.record[HashOf[o]] = o THEN m ELSE [m EXCEPT !.alive = Freed(@, {o})]
              /\ hand' = [hand EXCEPT ![App].calls = Reply(c, "ENOTCONN")]
              /\ UNCHANGED <<net, unheard>>
         ELSE Flood(o, c)
      /\ UNCHANGED <<download, syncing, failures, phase, answers, passed>>
  BY DEF PublishResume
<1>3. /\ o \in Objs /\ c \in Calls \cup {None} /\ c \in passed \cup {None} /\ hand[App].calls = <<>>
      /\ passed \subseteq Calls /\ unheard \subseteq passed
  BY <1>2 DEF ListInv, Others, WindowWaits
<1>4. InWindow = {o} /\ InWindow' = {}
  BY <1>2 DEF InWindow
<1>5. \A d \in Calls : /\ Win(d) = (IF d = c THEN 1 ELSE 0) /\ Win(d)' = 0
                       /\ d = c => Due(d) = 1 /\ Waiting(m, d) = 0
  <2>1. ASSUME NEW d \in Calls
        PROVE  /\ Win(d) = (IF d = c THEN 1 ELSE 0) /\ Win(d)' = 0
               /\ d = c => Due(d) = 1 /\ Waiting(m, d) = 0
    <3>1. Win(d) = (IF d = c THEN 1 ELSE 0) /\ Win(d)' = 0
      BY <1>2 DEF Win
    <3>2. Waiting(m, d) + Win(d) <= Due(d) /\ Waiting(m, d) \in 0..1 /\ Win(d) \in 0..1 /\ Due(d) \in 0..1
      BY Accounts
    <3>3. d = c => Due(d) = 1 /\ Waiting(m, d) = 0
      BY <3>1, <3>2
    <3> QED
      BY <3>1, <3>3
  <2> QED
    BY <2>1
<1>6. c # None => Waiting(m, c) = 0
  BY <1>3, <1>5
<1> HIDE DEF o, c
<1>7. CASE window.tired \/ ~reachable
  <2> DEFINE error == "ENOTCONN"
             calls == Reply(c, error)
             r == [hand[App] EXCEPT !.calls = calls]
             came == [d \in Calls |-> IF d = c THEN 1 ELSE 0]
  <2>1. /\ m' = IF m.record[HashOf[o]] = o THEN m ELSE [m EXCEPT !.alive = Freed(@, {o})]
        /\ hand' = [hand EXCEPT ![App].calls = calls] /\ UNCHANGED <<net, unheard>>
    BY <1>2, <1>7
  <2>2. error \in Verdicts
    BY DEF Verdicts
  <2>3. came \in [Calls -> Nat] /\ \A d \in Calls : came[d] = IF d = c THEN 1 ELSE 0
    OBVIOUS
  <2> HIDE DEF error, came
  <2>4. calls \in Seq(Answer) /\ \A d \in Calls : InSeq(d, calls) = IF d = c THEN 1 ELSE 0
    BY <1>3, <2>2, ReplyIs
  <2> HIDE DEF calls
  <2>5. r \in [calls : Seq(Answer), flush : BOOLEAN] /\ r.calls = calls /\ hand' = [hand EXCEPT ![App] = r]
    BY <1>1, <2>1, <2>4 DEF HandType
  <2> HIDE DEF r
  <2>6. hand' \in HandType /\ hand'[App].calls = calls /\ \A u \in Peers : hand'[u] = hand[u]
    BY <1>1, <2>5 DEF HandType
  <2>7. /\ Good(m') /\ m'.listed = m.listed /\ m'.queue = m.queue
        /\ Owned(m, {o}) => Owned(m', {})
    <3>1. CASE m.record[HashOf[o]] = o
      <4>1. m' = m
        BY <2>1, <3>1
      <4>2. ASSUME Owned(m, {o}) PROVE Owned(m, {})
        <5> DEFINE W == {o}
        <5>1. W \ {o} = {} /\ Owned(m, W)
          BY <4>2
        <5> HIDE DEF W
        <5>2. Owned(m, W \ {o})
          BY <3>1, <5>1, SharedKeeps
        <5> QED
          BY <5>1, <5>2
      <4> QED
        BY <1>1, <4>1, <4>2
    <3>2. CASE m.record[HashOf[o]] # o
      <4> DEFINE A == Freed(m.alive, {o})
      <4>1. A \in [Objs -> {"unborn", "live", "freed", "twice"}] /\ m' = [m EXCEPT !.alive = A]
        BY <1>1, <2>1, <3>2, FreedIs DEF Tables
      <4>2. A = Freed(m.alive, {o})
        OBVIOUS
      <4> HIDE DEF A
      <4>3. /\ m' \in Tables /\ m'.listed = m.listed /\ m'.queue = m.queue /\ m'.record = m.record
            /\ m'.alive = A
        BY <1>1, <4>1 DEF Tables
      <4>4. Good(m')
        BY <1>1, <4>3 DEF Good, Filed
      <4>5. ASSUME Owned(m, {o}) PROVE Owned(m', {})
        <5> DEFINE W == {o}
        <5>1. W \in SUBSET Objs /\ o \in W /\ W \ {o} = {} /\ Owned(m, W)
          BY <1>3, <4>5
        <5> HIDE DEF W
        <5>2. Owned(m', W \ {o})
          BY <1>1, <1>3, <3>2, <4>2, <4>3, <5>1, ReleaseKeeps
        <5> QED
          BY <5>1, <5>2
      <4> QED
        BY <4>3, <4>4, <4>5
    <3> QED
      BY <3>1, <3>2
  <2>8. \A d \in Calls : Due(d)' = Due(d)
    BY <1>2, <2>1 DEF Due
  <2>9. ASSUME NEW d \in Calls
        PROVE  /\ Waiting(m', d) + InSeq(d, m'.queue) + InSeq(d, calls)
                  = Waiting(m, d) + InSeq(d, m.queue) + came[d]
               /\ came[d] + Win(d)' + Due(d) = Win(d) + Due(d)'
    <3>1. Waiting(m', d) = Waiting(m, d) /\ m'.queue = m.queue /\ InSeq(d, calls) = came[d]
      BY <2>3, <2>4, <2>7 DEF Waiting
    <3>2. Win(d) = came[d] /\ Win(d)' = 0 /\ Due(d) \in Nat /\ came[d] \in Nat
      BY <1>5, <2>3 DEF Due
    <3>3. Waiting(m', d) + InSeq(d, m'.queue) + InSeq(d, calls)
          = Waiting(m, d) + InSeq(d, m.queue) + came[d]
      BY <3>1
    <3> QED
      BY <2>8, <3>2, <3>3
  <2>10. AnsweredOnce'
    BY <1>2, <1>3, <2>3, <2>4, <2>6, <2>7, <2>9, AppBalance
  <2>11. ListInv'
    BY <1>2, <2>1, <2>6, <2>7 DEF ListInv, Others, WindowWaits, HandType
  <2> QED
    BY <1>4, <2>7, <2>10, <2>11 DEF Keeps
<1>8. CASE ~(window.tired \/ ~reachable)
  <2> DEFINE S == IF o \in m.mined THEN {c} ELSE {}
  <2>1. Flood(o, c)
    BY <1>2, <1>8
  <2>2. /\ Carried(m', o, c) /\ net' \in [Peers -> Link] /\ Then(App, <<>>)
        /\ unheard' = unheard \cup (IF o \in m.mined THEN {c} \ {None} ELSE {})
    BY <1>3, <1>6, <2>1, FloodCarries
  <2>3. passed' \subseteq Calls /\ unheard' \subseteq passed'
    BY <1>2, <1>3, <2>2
  <2>4. ASSUME NEW d \in Calls
        PROVE  (IF d = c /\ o \notin m.mined THEN 1 ELSE 0) + Win(d)' + Due(d) = Win(d) + Due(d)'
    <3>1. CASE d # c
      <4>1. (d \in unheard' <=> d \in unheard) /\ (d \in passed' <=> d \in passed)
        BY <1>2, <2>2, <3>1
      <4>2. Due(d)' = Due(d) /\ Due(d) \in Nat
        BY <4>1 DEF Due
      <4> QED
        BY <1>5, <3>1, <4>2
    <3>2. CASE d = c
      <4>1. Win(d) = 1 /\ Win(d)' = 0 /\ Due(d) = 1
        BY <1>5, <3>2
      <4>2. d \in passed /\ d \notin unheard /\ d # None
        BY <4>1, PublishAssumption DEF Due
      <4>3. d \in passed' /\ (d \in unheard' <=> o \in m.mined)
        BY <1>2, <2>2, <3>2, <4>2
      <4>4. Due(d)' = IF o \in m.mined THEN 0 ELSE 1
        BY <4>3 DEF Due
      <4> QED
        BY <3>2, <4>1, <4>4
    <3> QED
      BY <3>1, <3>2
  <2>5. Owned(m, InWindow) => Owned(m', {})
    <3> DEFINE W == {o}
    <3>1. W \in SUBSET Objs /\ W \subseteq {o} /\ o \in W /\ InWindow = W
      BY <1>3, <1>4
    <3> HIDE DEF W
    <3> QED
      BY <2>2, <3>1 DEF Carried
  <2>6. Types
    BY <1>2, <2>2, TypesKept
  <2> QED
    BY <1>2, <1>3, <2>2, <2>3, <2>4, <2>5, <2>6, CarriedKeeps
<1> QED
  BY <1>7, <1>8

----------------------------------------------------------------------------
(* The invariant *)

LEMMA StartsEmpty ==
  ASSUME Init
  PROVE  ListInv /\ AnsweredOnce /\ Owned(m, InWindow)
<1>1. m \in Tables
  BY DEF Init, Tables
<1>2. /\ m.listed = {} /\ m.queue = <<>> /\ (\A h \in Txs : m.record[h] = None)
      /\ \A o \in Objs : m.alive[o] = "unborn"
  BY DEF Init
<1>3. Good(m)
  BY <1>1, <1>2 DEF Good, Filed
<1>4. Others
  <2>1. Down \in Link
    BY DEF Down, Link
  <2>2. net \in [Peers -> Link] /\ answers \in [Calls -> Seq(Verdicts)]
    BY <2>1 DEF Init
  <2>3. hand \in [Threads -> [calls : Seq(Answer), flush : BOOLEAN]]
    <3> DEFINE r == [calls |-> <<>>, flush |-> FALSE]
    <3>1. r \in [calls : Seq(Answer), flush : BOOLEAN] /\ hand = [t \in Threads |-> r]
      BY DEF Init
    <3> HIDE DEF r
    <3> QED
      BY <3>1
  <2>4. failures \in 0..MaxFailures + 1
    BY PublishAssumption DEF Init
  <2> QED
    BY <2>2, <2>3, <2>4 DEF Init, Others
<1>5. ListInv
  BY <1>3, <1>4 DEF Init, ListInv, WindowWaits
<1>6. InWindow = {}
  BY DEF Init, InWindow
<1>7. Owned(m, {})
  BY <1>2, PublishAssumption DEF Owned
<1>8. AnsweredOnce
  <2>1. \A c : Waiting(m, c) = 0 /\ Win(c) = 0
    BY <1>2 DEF Init, Waiting, Win
  <2>2. \A c : InSeq(c, m.queue) = 0
    BY <1>1, <1>2, InSeqIsNat DEF Tables
  <2>3. \A c : InHands(c, hand) = {}
    <3>1. \A t \in Threads : hand[t].calls = <<>>
      BY DEF Init
    <3>2. \A c, t : t \in Threads => {t} \X Mark(c, hand[t].calls) = {}
      BY <3>1 DEF Mark
    <3> QED
      BY <3>2 DEF InHands
  <2>4. Cardinality({}) = 0
    BY FS_EmptySet
  <2>5. \A c \in Calls : Len(answers[c]) = 0 /\ c \notin passed \ unheard
    BY DEF Init
  <2>6. ASSUME NEW c \in Calls PROVE Places(c) = 0
    <3>1. Places(c) = Waiting(m, c) + InSeq(c, m.queue) + Cardinality(InHands(c, hand)) + Win(c)
                      + Len(answers[c])
      BY <1>3, PlacesAre
    <3>2. Cardinality(InHands(c, hand)) = 0
      BY <2>3, <2>4
    <3>3. Waiting(m, c) = 0 /\ InSeq(c, m.queue) = 0 /\ Win(c) = 0 /\ Len(answers[c]) = 0
      BY <2>1, <2>2, <2>5
    <3> QED
      BY <3>1, <3>2, <3>3
  <2> QED
    BY <2>5, <2>6 DEF AnsweredOnce
<1> QED
  BY <1>5, <1>6, <1>7, <1>8

LEMMA StutterKeeps ==
  ASSUME ListInv, AnsweredOnce, UNCHANGED vars
  PROVE  Keeps
<1>1. UNCHANGED <<m, net, download, syncing, failures, phase, hand, window, answers, passed, unheard>>
  BY DEF vars
<1>2. Good(m') /\ Types
  BY <1>1 DEF ListInv, Others, Types
<1>3. Owned(m, InWindow) => Owned(m', InWindow)
  BY <1>1
<1>4. \A c \in Calls : Waiting(m', c) + InSeq(c, m'.queue) = Waiting(m, c) + InSeq(c, m.queue)
  BY <1>1
<1> QED
  BY <1>1, <1>2, <1>3, <1>4, Still

LEMMA StepKeeps ==
  ASSUME ListInv, AnsweredOnce, [Next]_vars
  PROVE  Keeps
<1>1. CASE AppStep
  <2>1. ASSUME NEW o \in Objs, NEW c \in Calls \cup {None},
               \/ PublishUnsigned(o, c)
               \/ PublishTx(o, c)
               \/ \E p \in Peers : StemPublishTx(o, c, p)
        PROVE  Keeps
    BY <2>1, PublishUnsignedKeeps, PublishTxKeeps, StemPublishTxKeeps
  <2>2. ASSUME NEW reachable \in BOOLEAN, PublishResume(reachable) PROVE Keeps
    BY <2>2, PublishResumeKeeps
  <2>3. ASSUME NEW h \in Txs, FluffTx(h) \/ RemoveTransaction(h) PROVE Keeps
    BY <2>3, FluffTxKeeps, RemoveTransactionKeeps
  <2>4. ASSUME NEW o \in Objs, RegisterTx(o) PROVE Keeps
    BY <2>4, RegisterTxKeeps
  <2>5. CASE Free
    BY <2>5, FreeKeeps
  <2> QED
    BY <1>1, <2>1, <2>2, <2>3, <2>4, <2>5, Zenon DEF AppStep
<1>2. ASSUME NEW p \in Peers, MessageStep(p) PROVE Keeps
  <2>1. ASSUME NEW h \in Txs, NEW keep \in BOOLEAN, HasTx(p, h, keep) \/ RequestedTx(p, h, keep)
        PROVE  Keeps
    BY <2>1, HasTxKeeps, RequestedTxKeeps
  <2>2. ASSUME NEW o \in Objs, NEW keep \in BOOLEAN, RelayedTx(p, o, keep) PROVE Keeps
    BY <2>2, RelayedTxKeeps
  <2>3. ASSUME NEW h \in Txs, InvNew(p, h) \/ DataNotfound(p, h) \/ Confirm(p, h) \/ Conflict(p, h)
        PROVE  Keeps
    BY <2>3, ConfirmKeeps, BookkeepingKeeps
  <2>4. ASSUME NEW h \in Txs, NEW code \in {"invalid", "spent", "other"}, RejectedTx(p, h, code)
        PROVE  Keeps
    BY <2>4, RejectedTxKeeps
  <2>5. CASE Reorg(p) \/ CaughtUp(p)
    <3> TRUE \in BOOLEAN
      OBVIOUS
    <3> QED
      BY <2>5, BookkeepingKeeps
  <2>6. ASSUME NEW endsSync \in BOOLEAN, Pong(p, endsSync) PROVE Keeps
    BY <2>6, BookkeepingKeeps
  <2>7. ASSUME NEW success \in BOOLEAN, NEW atTip \in BOOLEAN, UnrelayedDone(p, success, atTip)
        PROVE  Keeps
    BY <2>7, UnrelayedDoneKeeps
  <2> QED
    BY <1>2, <2>1, <2>2, <2>3, <2>4, <2>5, <2>6, <2>7, Zenon DEF MessageStep
<1>3. ASSUME NEW p \in Peers, LinkStep(p) PROVE Keeps
  <2>1. ASSUME NEW syncs \in BOOLEAN, Dial(p, syncs) PROVE Keeps
    BY <2>1, LinksMove
  <2>2. ASSUME Unusable(p) PROVE Keeps
    <3> TRUE \in BOOLEAN
      OBVIOUS
    <3> QED
      BY <2>2, LinksMove
  <2>3. ASSUME NEW atTip \in BOOLEAN, Join(p, atTip) \/ \E q \in Peers : Lead(p, q, atTip) PROVE Keeps
    BY <2>3, LinksMove
  <2>4. ASSUME NEW error \in {"none", "EPROTO", "ETIMEDOUT", "other"}, NEW next \in Peers \cup {None},
               Disconnected(p, error, next)
        PROVE  Keeps
    BY <2>4, DisconnectedKeeps
  <2>5. CASE LastThreadOut(p)
    BY <2>5, FreeKeeps
  <2> QED
    BY <1>3, <2>1, <2>2, <2>3, <2>4, <2>5, Zenon DEF LinkStep
<1>4. ASSUME NEW t \in Threads, Deliver(t) \/ FlushAnswers(t) PROVE Keeps
  BY <1>4, DeliverKeeps, FlushAnswersKeeps
<1>5. CASE UNCHANGED vars
  BY <1>5, StutterKeeps
<1> QED
  BY <1>1, <1>2, <1>3, <1>4, <1>5, Zenon DEF Next

LEMMA ListInvariant == Spec => [](ListInv /\ AnsweredOnce)
<1>1. Init => ListInv /\ AnsweredOnce
  BY StartsEmpty
<1>2. (ListInv /\ AnsweredOnce) /\ [Next]_vars => (ListInv /\ AnsweredOnce)'
  BY StepKeeps DEF Keeps
<1> QED
  BY <1>1, <1>2, PTL DEF Spec

LEMMA OwnedInvariant ==
  ASSUME SendsBuildOnLoneReceives
  PROVE  Spec => [](ListInv /\ AnsweredOnce /\ Owned(m, InWindow))
<1>1. Init => ListInv /\ AnsweredOnce /\ Owned(m, InWindow)
  BY StartsEmpty
<1>2. (ListInv /\ AnsweredOnce /\ Owned(m, InWindow)) /\ [Next]_vars
      => (ListInv /\ AnsweredOnce /\ Owned(m, InWindow))'
  BY StepKeeps DEF Keeps
<1> QED
  BY <1>1, <1>2, PTL DEF Spec

LEMMA OwnersAreOne ==
  ASSUME Good(m), Others, Owned(m, InWindow)
  PROVE  OneOwner
<1> SUFFICES ASSUME NEW o \in Objs PROVE Owners(o) = IF m.alive[o] = "live" THEN 1 ELSE 0
  BY DEF OneOwner
<1> DEFINE E == {e \in m.listed : e.obj = o /\ e.owned}
           inList == Cardinality(E)
           inWallet == IF m.record[HashOf[o]] = o THEN 1 ELSE 0
           inHand == IF window # None /\ window.obj = o /\ m.record[HashOf[o]] # o THEN 1 ELSE 0
<1>1. Owners(o) = inList + inWallet + inHand
  BY DEF Owners
<1>2. /\ m \in Tables /\ Filed(m) /\ HashOf[o] \in Txs /\ None \notin Objs
      /\ \A e \in m.listed : e.hash \in Txs /\ HashOf[e.obj] = e.hash /\ e.owned \in BOOLEAN
  BY PublishAssumption DEF Good, Filed, Tables, PubEntry
<1>3. \A e, f \in E : e = f
  BY <1>2 DEF Filed
<1>4. \A e \in E : m.record[HashOf[o]] # o /\ o \notin InWindow /\ m.alive[o] = "live"
  BY <1>2 DEF Owned
<1>5. inList = IF E = {} THEN 0 ELSE 1
  <2>1. CASE E = {}
    BY <2>1, FS_EmptySet
  <2>2. CASE E # {}
    <3>1. PICK e : e \in E
      BY <2>2
    <3>2. E = {e}
      BY <1>3, <3>1
    <3>3. Cardinality({e}) = 1
      BY FS_Singleton
    <3> QED
      BY <2>2, <3>2, <3>3
  <2> QED
    BY <2>1, <2>2
<1>6. o \in InWindow <=> window # None /\ window.obj = o
  BY DEF InWindow
<1>7. CASE m.alive[o] = "live"
  <2>1. E # {} \/ m.record[HashOf[o]] = o \/ o \in InWindow
    <3>1. ASSUME NEW e \in m.listed, e.obj = o, m.record[HashOf[o]] # o PROVE e \in E
      BY <1>2, <3>1 DEF Owned
    <3> QED
      BY <1>7, <3>1 DEF Owned
  <2>2. CASE E # {}
    <3>1. m.record[HashOf[o]] # o /\ o \notin InWindow
      BY <1>4, <2>2
    <3>2. inList = 1 /\ inWallet = 0 /\ inHand = 0
      BY <1>5, <1>6, <2>2, <3>1
    <3> QED
      BY <1>1, <1>7, <3>2
  <2>3. CASE E = {}
    <3>1. inList = 0 /\ inWallet + inHand = 1
      BY <1>5, <1>6, <2>1, <2>3
    <3> QED
      BY <1>1, <1>7, <3>1
  <2> QED
    BY <2>2, <2>3
<1>8. CASE m.alive[o] # "live"
  <2>1. E = {} /\ m.record[HashOf[o]] # o /\ o \notin InWindow
    BY <1>2, <1>4, <1>8 DEF Owned
  <2>2. inList = 0 /\ inWallet = 0 /\ inHand = 0
    BY <1>5, <1>6, <2>1
  <2> QED
    BY <1>1, <1>8, <2>2
<1> QED
  BY <1>7, <1>8

----------------------------------------------------------------------------
(* What steps may do to records and requests *)

(* t asks no peer for more than s, and holds every record s holds.         *)
Framed(s) == {"record", "requests"} \subseteq DOMAIN s /\ DOMAIN s.record = Txs /\ DOMAIN s.requests = Txs

Modest(t, s) ==
    /\ Framed(t)
    /\ \A h \in Txs : t.requests[h] \subseteq s.requests[h]
    /\ \A h \in Txs : s.record[h] # None => t.record[h] = s.record[h]

LEMMA GoodIsFramed ==
  ASSUME NEW s, Good(s)
  PROVE  Framed(s)
  BY DEF Good, Tables, Framed

LEMMA ModestChain ==
  ASSUME NEW s, NEW t, NEW u, Modest(t, s), Modest(u, t)
  PROVE  Modest(u, s)
  BY DEF Modest

LEMMA ModestIsFramed ==
  ASSUME NEW s, NEW t, Modest(t, s)
  PROVE  Framed(t)
  BY DEF Modest

LEMMA Modesty ==
  ASSUME NEW s, Framed(s), NEW h, NEW p, NEW o, NEW keep, NEW E, NEW error, NEW c, NEW owned, NEW x
  PROVE  /\ Modest(s, s) /\ Modest(Take(s, h), s) /\ Modest(Vouch(s, h, p), s)
         /\ Modest(Unrequest(s, h, p), s) /\ Modest(Register(s, o, keep), s)
         /\ Modest(OwnershipFollowsObject(s, h), s) /\ Modest(DropEntries(s, E, error), s)
         /\ Modest(Born(s, o), s) /\ Modest(Unstemmed(s, h), s) /\ Modest(AnswerEntry(s, h, error), s)
         /\ Modest(TakeAndVouch(s, h, p), s)
         /\ Modest(AddTxToPublishList(s, o, c, owned).s, s) /\ Modest(HandOver(s, o, c).s, s)
         /\ Modest([s EXCEPT !.alive = x], s) /\ Modest([s EXCEPT !.queue = x], s)
         /\ Modest([s EXCEPT !.listed = x], s) /\ Modest([s EXCEPT !.relays = x], s)
         /\ Modest([s EXCEPT !.rejects = x], s) /\ Modest([s EXCEPT !.mined = x], s)
         /\ Modest([s EXCEPT !.invalid = x], s)
<1>1. Modest(s, s)
  BY DEF Modest, Framed
<1>2. Modest(Take(s, h), s)
  BY DEF Modest, Framed, Take
<1>3. Modest(Vouch(s, h, p), s)
  BY DEF Modest, Framed, Vouch
<1>4. Modest(Unrequest(s, h, p), s)
  BY DEF Modest, Framed, Unrequest
<1>5. Modest(Register(s, o, keep), s)
  BY DEF Modest, Framed, Register, Held
<1>6. Modest(OwnershipFollowsObject(s, h), s)
  BY DEF Modest, Framed, OwnershipFollowsObject
<1>7. Modest(DropEntries(s, E, error), s)
  BY DEF Modest, Framed, DropEntries
<1>8. Modest(Born(s, o), s) /\ Modest(Unstemmed(s, h), s)
  BY DEF Modest, Framed, Born, Unstemmed
<1>9. Modest(AnswerEntry(s, h, error), s)
  BY DEF Modest, Framed, AnswerEntry, Take
<1>10. Modest(TakeAndVouch(s, h, p), s)
  BY DEF Modest, Framed, TakeAndVouch, Vouch, Take
<1>11. Modest(AddTxToPublishList(s, o, c, owned).s, s)
  BY SMTT(60) DEF Modest, Framed, AddTxToPublishList
<1>12. Modest(HandOver(s, o, c).s, s)
  BY DEF Modest, Framed, HandOver, AddTxToPublishList
<1>13. /\ Modest([s EXCEPT !.alive = x], s) /\ Modest([s EXCEPT !.queue = x], s)
       /\ Modest([s EXCEPT !.listed = x], s) /\ Modest([s EXCEPT !.relays = x], s)
       /\ Modest([s EXCEPT !.rejects = x], s) /\ Modest([s EXCEPT !.mined = x], s)
       /\ Modest([s EXCEPT !.invalid = x], s)
  BY DEF Modest, Framed
<1> QED
  BY <1>1, <1>2, <1>3, <1>4, <1>5, <1>6, <1>7, <1>8, <1>9, <1>10, <1>11, <1>12, <1>13

LEMMA FloodIsModest ==
  ASSUME Framed(m), NEW o, NEW c, Flood(o, c)
  PROVE  Modest(m', m)
<1> DEFINE h == HashOf[o]
           s == Born(m, o)
           u == Unstemmed(s, h)
           r == HandOver(u, o, c)
<1>1. m' = r.s
  BY DEF Flood
<1>2. Modest(s, m)
  BY Modesty
<1> HIDE DEF s
<1>3. Modest(u, s)
  BY <1>2, ModestIsFramed, Modesty
<1> HIDE DEF u
<1>4. Modest(r.s, u)
  BY <1>3, ModestIsFramed, Modesty
<1> HIDE DEF r
<1> QED
  BY <1>1, <1>2, <1>3, <1>4, ModestChain

LEMMA StemIsModest ==
  ASSUME Framed(m), NEW o, NEW c, NEW p, StemPublishTx(o, c, p)
  PROVE  Modest(m', m)
<1> DEFINE b == Born(m, o)
           r == HandOver(b, o, c)
           l == {IF e.hash = HashOf[o] THEN [e EXCEPT !.stem = p] ELSE e : e \in r.s.listed}
           s == [r.s EXCEPT !.listed = l]
<1>1. m' = r.s \/ m' = s
  BY DEF StemPublishTx
<1>2. Modest(b, m)
  BY Modesty
<1> HIDE DEF b
<1>3. Modest(r.s, b)
  BY <1>2, ModestIsFramed, Modesty
<1> HIDE DEF r, l
<1>4. Modest(s, r.s)
  BY <1>3, ModestIsFramed, Modesty
<1> HIDE DEF s
<1> QED
  BY <1>1, <1>2, <1>3, <1>4, ModestChain

LEMMA AppIsModest ==
  ASSUME Framed(m), AppStep
  PROVE  Modest(m', m) \/ \E h \in Txs : RemoveTransaction(h)
<1>1. ASSUME NEW o \in Objs, NEW c \in Calls \cup {None},
             \/ PublishUnsigned(o, c)
             \/ PublishTx(o, c)
             \/ \E p \in Peers : StemPublishTx(o, c, p)
      PROVE  Modest(m', m)
  <2>1. CASE PublishUnsigned(o, c)
    BY <2>1 DEF PublishUnsigned, Modest, Framed
  <2>2. CASE PublishTx(o, c)
    <3>1. Flood(o, c) \/ m' = Born(m, o)
      BY <2>2 DEF PublishTx
    <3> QED
      BY <3>1, FloodIsModest, Modesty
  <2>3. CASE \E p \in Peers : StemPublishTx(o, c, p)
    BY <2>3, StemIsModest
  <2> QED
    BY <1>1, <2>1, <2>2, <2>3
<1>2. ASSUME NEW reachable \in BOOLEAN, PublishResume(reachable) PROVE Modest(m', m)
  <2>1. \/ m' = m \/ m' = [m EXCEPT !.alive = Freed(m.alive, {window.obj})]
        \/ Flood(window.obj, window.call)
    BY <1>2 DEF PublishResume, Framed
  <2> QED
    BY <2>1, FloodIsModest, Modesty
<1>3. ASSUME NEW h \in Txs, FluffTx(h) PROVE Modest(m', m)
  BY <1>3, Modesty DEF FluffTx
<1>4. ASSUME NEW o \in Objs, RegisterTx(o) PROVE Modest(m', m)
  <2> DEFINE b == Born(m, o)
  <2>1. m' = Register(b, o, TRUE)
    BY <1>4 DEF RegisterTx
  <2>2. Modest(b, m)
    BY Modesty
  <2> HIDE DEF b
  <2>3. Modest(m', b)
    BY <2>1, <2>2 DEF Modest, Framed, Register, Held
  <2> QED
    BY <2>2, <2>3, ModestChain
<1>5. ASSUME Free PROVE Modest(m', m)
  <2>1. FreeNow(App) \/ m' = m
    BY <1>5 DEF Free
  <2> QED
    BY <2>1 DEF FreeNow, DropEntries, Modest, Framed
<1> QED
  BY <1>1, <1>2, <1>3, <1>4, <1>5, Zenon DEF AppStep

LEMMA MessagesAreModest ==
  ASSUME Framed(m), NEW p \in Peers, MessageStep(p)
  PROVE  \/ Modest(m', m) \/ \E h \in Txs : Confirm(p, h)
         \/ \E endsSync \in BOOLEAN : Pong(p, endsSync)
         \/ m' = RemoveAndPurge(m, Unrelayed(m)) /\ \E success, atTip \in BOOLEAN : UnrelayedDone(p, success, atTip)
<1>1. ASSUME NEW h \in Txs, NEW keep \in BOOLEAN, HasTx(p, h, keep) PROVE Modest(m', m)
  <2> DEFINE o == ObjectOf(h)
             a == TakeAndVouch(m, h, p)
             b == Register(a, o, keep)
             s == OwnershipFollowsObject(b, h)
             v == IF syncing THEN s ELSE Vouch(s, h, p)
  <2>1. m' = Unrequest(v, h, p)
    BY <1>1 DEF HasTx
  <2>2. Modest(a, m)
    BY Modesty
  <2> HIDE DEF a
  <2>3. Modest(b, a)
    BY <2>2, ModestIsFramed, Modesty
  <2> HIDE DEF b
  <2>4. Modest(s, b)
    BY <2>3, ModestIsFramed, Modesty
  <2> HIDE DEF s
  <2>5. Modest(v, s)
    BY <2>4, ModestIsFramed, Modesty
  <2> HIDE DEF v
  <2>6. Modest(Unrequest(v, h, p), v)
    BY <2>5, ModestIsFramed, Modesty
  <2> QED
    BY <2>1, <2>2, <2>3, <2>4, <2>5, <2>6, ModestChain
<1>2. ASSUME NEW h \in Txs, NEW keep \in BOOLEAN, RequestedTx(p, h, keep) PROVE Modest(m', m)
  <2> DEFINE o == (CHOOSE e \in EntriesOf(m, h) : TRUE).obj
             a == Take(m, h)
             s == IF Stemming(m, h) THEN a ELSE Vouch(a, h, p)
             b == Register(s, o, keep)
  <2>1. m' = OwnershipFollowsObject(b, h) \/ m' = DropEntries(m, EntriesOf(m, h), "EINVAL")
    BY <1>2 DEF RequestedTx
  <2>2. Modest(a, m)
    BY Modesty
  <2> HIDE DEF a
  <2>3. Modest(s, a)
    BY <2>2, ModestIsFramed, Modesty
  <2> HIDE DEF s
  <2>4. Modest(b, s)
    BY <2>3, ModestIsFramed, Modesty
  <2> HIDE DEF b
  <2>5. Modest(OwnershipFollowsObject(b, h), b)
    BY <2>4, ModestIsFramed, Modesty
  <2>6. Modest(DropEntries(m, EntriesOf(m, h), "EINVAL"), m)
    BY Modesty
  <2> QED
    BY <2>1, <2>2, <2>3, <2>4, <2>5, <2>6, ModestChain
<1>3. ASSUME NEW o \in Objs, NEW keep \in BOOLEAN, RelayedTx(p, o, keep) PROVE Modest(m', m)
  <2> DEFINE h == HashOf[o]
             b == Born(m, o)
             s == TakeAndVouch(b, h, p)
             kept == IF ~syncing \/ h \in Ours THEN Register(s, o, keep) ELSE s
             ours == (~syncing \/ h \in Ours) /\ Registered(s, o, keep)
             A == Freed(kept.alive, {o})
             t == IF kept.record[h] = o THEN kept ELSE [kept EXCEPT !.alive = Freed(@, {o})]
             add == AddTxToPublishList(t, t.record[h], None, FALSE)
             u == IF h \in Sends /\ Valid(t, h) THEN add.s ELSE t
             v == IF syncing THEN u ELSE Vouch(u, h, p)
  <2>1. m' = t \/ m' = Unrequest(v, h, p)
    <3>1. m' = IF ~ours THEN t ELSE Unrequest(v, h, p)
      BY <1>3, Zenon DEF RelayedTx
    <3> HIDE DEF ours, t, v
    <3> QED
      BY <3>1
  <2>2. Modest(b, m)
    BY Modesty
  <2> HIDE DEF b
  <2>3. Modest(s, b)
    BY <2>2, ModestIsFramed, Modesty
  <2> HIDE DEF s
  <2>4. Modest(kept, s)
    BY <2>3, ModestIsFramed, Modesty
  <2>5. Modest(t, kept)
    <3>1. [kept EXCEPT !.alive = Freed(@, {o})] = [kept EXCEPT !.alive = A]
      BY Zenon
    <3>2. t = kept \/ t = [kept EXCEPT !.alive = A]
      BY <3>1, Zenon
    <3> HIDE DEF kept, A, t
    <3> QED
      BY <2>4, <3>2, ModestIsFramed, Modesty
  <2> HIDE DEF kept, A, t
  <2>6. Modest(add.s, t)
    BY <2>5, ModestIsFramed, Modesty
  <2>7. Modest(t, t)
    BY <2>5, ModestIsFramed, Modesty
  <2> HIDE DEF add
  <2>8. Modest(u, t)
    BY <2>6, <2>7
  <2> HIDE DEF u
  <2>9. Modest(v, u)
    BY <2>8, ModestIsFramed, Modesty
  <2> HIDE DEF v
  <2>10. Modest(Unrequest(v, h, p), v)
    BY <2>9, ModestIsFramed, Modesty
  <2>11. Modest(t, m)
    BY <2>2, <2>3, <2>4, <2>5, ModestChain
  <2>12. Modest(v, t)
    BY <2>8, <2>9, ModestChain
  <2>13. Modest(Unrequest(v, h, p), m)
    BY <2>10, <2>11, <2>12, ModestChain
  <2> QED
    BY <2>1, <2>11, <2>13
<1>4. ASSUME NEW h \in Txs, InvNew(p, h) \/ DataNotfound(p, h) \/ Conflict(p, h) PROVE Modest(m', m)
  <2>1. CASE InvNew(p, h)
    BY <2>1 DEF InvNew, Modest, Framed
  <2>2. CASE DataNotfound(p, h)
    <3> DEFINE r == Unrequest(m, h, p)
    <3>1. m' = [r EXCEPT !.relays[h] = @ \ {p}]
      BY <2>2 DEF DataNotfound
    <3>2. Modest(r, m)
      BY Modesty
    <3> HIDE DEF r
    <3>3. Modest([r EXCEPT !.relays[h] = @ \ {p}], r)
      BY <3>2 DEF Modest, Framed
    <3> QED
      BY <3>1, <3>2, <3>3, ModestChain
  <2>3. CASE Conflict(p, h)
    BY <2>3 DEF Conflict, Unrequest, Modest, Framed
  <2> QED
    BY <1>4, <2>1, <2>2, <2>3
<1>5. ASSUME NEW h \in Txs, NEW code, RejectedTx(p, h, code) PROVE Modest(m', m)
  <2> DEFINE r == Unrequest(m, h, p)
             s == [r EXCEPT !.relays[h] = @ \ {p}]
             t == IF code = "invalid" /\ s.relays[h] = {} THEN AnswerEntry(s, h, "EINVAL") ELSE s
             counted == /\ code = "invalid" /\ (Held(m, h) \/ Listed(m, h))
                        /\ Cardinality(m.rejects[h]) < MaxRejects
  <2>1. m' = t \/ m' = [t EXCEPT !.rejects[h] = @ \cup {p}]
    <3>1. m' = IF counted THEN [t EXCEPT !.rejects[h] = @ \cup {p}] ELSE t
      BY <1>5, Zenon DEF RejectedTx
    <3> HIDE DEF counted, t
    <3> QED
      BY <3>1
  <2>2. Modest(r, m)
    BY Modesty
  <2> HIDE DEF r
  <2>3. Modest(s, r)
    BY <2>2 DEF Modest, Framed
  <2> HIDE DEF s
  <2>4. Modest(t, s)
    BY <2>3, ModestIsFramed, Modesty
  <2> HIDE DEF t
  <2>5. Modest([t EXCEPT !.rejects[h] = @ \cup {p}], t)
    BY <2>4 DEF Modest, Framed
  <2> QED
    BY <2>1, <2>2, <2>3, <2>4, <2>5, ModestChain
<1>6. ASSUME Reorg(p) \/ CaughtUp(p) PROVE Modest(m', m)
  BY <1>6, Modesty DEF Reorg, CaughtUp
<1>7. ASSUME NEW success \in BOOLEAN, NEW atTip \in BOOLEAN, UnrelayedDone(p, success, atTip)
      PROVE  Modest(m', m) \/ m' = RemoveAndPurge(m, Unrelayed(m))
  BY <1>7, Modesty DEF UnrelayedDone
<1> QED
  BY <1>1, <1>2, <1>3, <1>4, <1>5, <1>6, <1>7, Zenon DEF MessageStep

LEMMA LinksAreModest ==
  ASSUME Framed(m), NEW p \in Peers, LinkStep(p)
  PROVE  Modest(m', m)
<1>1. ASSUME NEW error, NEW next, Disconnected(p, error, next) PROVE Modest(m', m)
  <2> DEFINE s == [m EXCEPT !.relays = [h \in Txs |-> @[h] \ {p}]]
  <2>1. m' = Cancelled(s, "ENOTCONN") \/ m' = Cancelled(s, "ETIMEDOUT") \/ m' = s
    BY <1>1 DEF Disconnected
  <2>2. Modest(s, m)
    BY DEF Modest, Framed
  <2> HIDE DEF s
  <2>3. Modest(Cancelled(s, "ENOTCONN"), s) /\ Modest(Cancelled(s, "ETIMEDOUT"), s) /\ Modest(s, s)
    BY <2>2, ModestIsFramed, Modesty DEF Cancelled
  <2> QED
    BY <2>1, <2>2, <2>3, ModestChain
<1>2. ASSUME LastThreadOut(p) PROVE Modest(m', m)
  BY <1>2 DEF LastThreadOut, FreeNow, DropEntries, Modest, Framed
<1>3. ASSUME UNCHANGED m PROVE Modest(m', m)
  BY <1>3, Modesty
<1> QED
  BY <1>1, <1>2, <1>3 DEF LinkStep, Dial, Unusable, Join, Lead

LEMMA StepsAreModest ==
  ASSUME Framed(m), [Next]_vars
  PROVE  \/ Modest(m', m) \/ \E h \in Txs : RemoveTransaction(h)
         \/ \E p \in Peers, h \in Txs : Confirm(p, h)
         \/ \E p \in Peers, endsSync \in BOOLEAN : Pong(p, endsSync)
         \/ /\ m' = RemoveAndPurge(m, Unrelayed(m))
            /\ \E p \in Peers, success, atTip \in BOOLEAN : UnrelayedDone(p, success, atTip)
<1>1. ASSUME NEW t \in Threads, Deliver(t) \/ FlushAnswers(t) PROVE Modest(m', m)
  <2>1. m' = m \/ m' = [m EXCEPT !.queue = <<>>]
    BY <1>1 DEF Deliver, FlushAnswers
  <2>2. Modest(m, m) /\ Modest([m EXCEPT !.queue = <<>>], m)
    BY DEF Modest, Framed
  <2> QED
    BY <2>1, <2>2, SMTT(60)
<1>2. ASSUME UNCHANGED vars PROVE Modest(m', m)
  BY <1>2, Modesty DEF vars
<1> QED
  BY <1>1, <1>2, AppIsModest, MessagesAreModest, LinksAreModest DEF Next

LEMMA RemovalsUnlist ==
  ASSUME Good(m), NEW H \in SUBSET Txs, NEW t, t = RemoveAndPurge(m, H),
         m'.record = t.record, m'.listed = t.listed,
         NEW h \in Txs, Held(m, h), ~ Held(m', h)
  PROVE  h \in Gone(m, H) /\ ~ Listed(m', h)
<1>1. /\ t.record[h] = IF h \in Gone(m, H) THEN None ELSE m.record[h]
      /\ \A e \in t.listed : e.hash \notin Gone(m, H)
  BY RemoveKeeps
<1>2. h \in Gone(m, H)
  BY <1>1 DEF Held
<1> QED
  BY <1>1, <1>2 DEF Listed, EntriesOf

(* How a record can be let go of.                                          *)
LEMMA LettingGo ==
  ASSUME Good(m), [Next]_vars, NEW h \in Txs, Held(m, h), ~ Held(m', h)
  PROVE  /\ ~ Listed(m', h)
         /\ \/ \E g \in Txs : RemoveTransaction(g)
            \/ h \notin Ours
            \/ h \in Gone(m, Unrelayed(m))
<1>1. CASE Modest(m', m)
  BY <1>1 DEF Modest, Held
<1>2. ASSUME NEW g \in Txs, RemoveTransaction(g) PROVE ~ Listed(m', h)
  <2> DEFINE H == {g}
             t == RemoveAndPurge(m, H)
  <2>1. m' = [t EXCEPT !.rejects[g] = {}, !.relays[g] = {}, !.vouched = @ \ {g}]
    BY <1>2 DEF RemoveTransaction
  <2>2. H \in SUBSET Txs
    OBVIOUS
  <2> HIDE DEF H
  <2>3. t \in Tables
    BY <2>2, RemoveKeeps DEF Good
  <2> HIDE DEF t
  <2>4. m'.record = t.record /\ m'.listed = t.listed
    BY <2>1, <2>3 DEF Tables
  <2>5. t = RemoveAndPurge(m, H)
    BY DEF t
  <2> QED
    BY <2>2, <2>4, <2>5, RemovalsUnlist
<1>3. ASSUME NEW p \in Peers, NEW g \in Txs, Confirm(p, g) PROVE ~ Listed(m', h) /\ h \notin Ours
  <2>1. m' = UpdateTx(m, g)
    BY <1>3 DEF Confirm
  <2>2. /\ m'.record[h] = IF h = g /\ g \notin Ours THEN None ELSE m.record[h]
        /\ \A e \in m'.listed : e.hash # g
    BY <2>1, UpdateTxKeeps
  <2> QED
    BY <2>2 DEF Held, Listed, EntriesOf
<1>4. ASSUME NEW p \in Peers, NEW endsSync \in BOOLEAN, Pong(p, endsSync) PROVE FALSE
  <2>1. m'.record = m.record
    BY <1>4 DEF Pong, Good, Tables
  <2> QED
    BY <2>1 DEF Held
<1>5. CASE m' = RemoveAndPurge(m, Unrelayed(m))
  <2> DEFINE H == Unrelayed(m)
  <2>1. H \in SUBSET Txs
    BY PublishAssumption DEF Unrelayed
  <2> HIDE DEF H
  <2>2. h \in Gone(m, H) /\ ~ Listed(m', h)
    BY <1>5, <2>1, RemovalsUnlist DEF H
  <2> QED
    BY <2>2 DEF H
<1> QED
  BY <1>1, <1>2, <1>3, <1>4, <1>5, StepsAreModest, GoodIsFramed

----------------------------------------------------------------------------
(* What peers are newly told and asked *)

(* From O to N a peer is told only of what s lists and does not hide.      *)
Discreet(s, N, O) ==
    \A p \in Peers, h \in Txs :
       N[p].known[h] = "told" /\ O[p].known[h] # "told" => Listed(s, h) /\ ~ HidesFrom(s, h, p)

LEMMA Untold ==
  ASSUME NEW s, NEW N, NEW O, \A p \in Peers, h \in Txs : N[p].known[h] \in {O[p].known[h], "no", "inv"}
  PROVE  Discreet(s, N, O)
  BY DEF Discreet

LEMMA DiscreetChain ==
  ASSUME NEW s, NEW M, NEW N, NEW O, Discreet(s, N, O), Discreet(s, M, N)
  PROVE  Discreet(s, M, O)
  BY DEF Discreet

LEMMA SameListSameSecrets ==
  ASSUME NEW s, NEW t, NEW N, NEW O, Discreet(s, N, O), t.listed = s.listed
  PROVE  Discreet(t, N, O)
  BY DEF Discreet, Listed, HidesFrom, EntriesOf

LEMMA AnnouncedDiscreetly ==
  ASSUME NEW s, NEW l \in Link, NEW p \in Peers, NEW h \in Txs, l.known[h] # "told"
  PROVE  LET k == Announced(s, l, p)
             j == Mempooled(s, k, p)
         IN k.known[h] = "told" \/ j.known[h] = "told" => Listed(s, h) /\ ~ HidesFrom(s, h, p)
<1> DEFINE k == Announced(s, l, p)
           j == Mempooled(s, k, p)
<1>1. /\ "known" \in DOMAIN k
      /\ k.known = [g \in Txs |-> IF Listed(s, g) /\ ~ HidesFrom(s, g, p) /\ l.known[g] = "no"
                                  THEN "told" ELSE l.known[g]]
  BY DEF Announced, Link
<1> HIDE DEF k
<1>2. j.known[h] \in {k.known[h], "mempool"}
  BY <1>1 DEF Mempooled
<1>3. k.known[h] = "told" \/ j.known[h] = "told" => Listed(s, h) /\ ~ HidesFrom(s, h, p)
  BY <1>1, <1>2
<1> QED
  BY <1>3 DEF k

LEMMA AnnouncingIsDiscreet ==
  ASSUME NEW s, NEW O \in [Peers -> Link], NEW P
  PROVE  Discreet(s, AnnounceTo(s, O, P), O) /\ AnnounceTo(s, O, P) \in [Peers -> Link]
<1>1. ASSUME NEW p \in Peers PROVE Announced(s, O[p], p) \in Link
  BY DEF Announced, Link
<1>2. AnnounceTo(s, O, P) \in [Peers -> Link]
  BY <1>1 DEF AnnounceTo
<1>3. ASSUME NEW p \in Peers, NEW h \in Txs, O[p].known[h] # "told",
             AnnounceTo(s, O, P)[p].known[h] = "told"
      PROVE  Listed(s, h) /\ ~ HidesFrom(s, h, p)
  <2>1. Announced(s, O[p], p).known[h] = "told"
    BY <1>3 DEF AnnounceTo
  <2> QED
    BY <1>3, <2>1, AnnouncedDiscreetly
<1> QED
  BY <1>2, <1>3 DEF Discreet

LEMMA LoadingIsDiscreet ==
  ASSUME NEW s, NEW O \in [Peers -> Link]
  PROVE  Discreet(s, LoadMempools(s, O), O)
<1> SUFFICES ASSUME NEW p \in Peers, NEW h \in Txs, O[p].known[h] # "told",
                    LoadMempools(s, O)[p].known[h] = "told"
             PROVE  Listed(s, h) /\ ~ HidesFrom(s, h, p)
  BY DEF Discreet
<1>1. Mempooled(s, Announced(s, O[p], p), p).known[h] = "told"
  BY DEF LoadMempools
<1> QED
  BY <1>1, AnnouncedDiscreetly

LEMMA AppTells ==
  ASSUME ListInv, AppStep
  PROVE  Discreet(m', net', net)
<1>0. net \in [Peers -> Link]
  BY DEF ListInv, Others
<1>1. ASSUME UNCHANGED net PROVE Discreet(m', net', net)
  BY <1>1, Untold
<1>2. ASSUME NEW o, NEW c, Flood(o, c) PROVE Discreet(m', net', net)
  <2>1. net' = AnnounceTo(m', net, {p \in Up : p # download \/ Up = {p}})
    BY <1>2 DEF Flood
  <2> QED
    BY <1>0, <2>1, AnnouncingIsDiscreet
<1>3. ASSUME NEW o \in Objs, NEW c \in Calls \cup {None}, NEW p \in Peers, StemPublishTx(o, c, p)
      PROVE  Discreet(m', net', net)
  <2>1. UNCHANGED net \/ net' = AnnounceTo(m', net, {p})
    BY <1>3 DEF StemPublishTx
  <2> QED
    BY <1>0, <1>1, <2>1, AnnouncingIsDiscreet
<1>4. ASSUME NEW h \in Txs, FluffTx(h) PROVE Discreet(m', net', net)
  <2>1. net' = AnnounceTo(m', net, Up)
    BY <1>4 DEF FluffTx
  <2> QED
    BY <1>0, <2>1, AnnouncingIsDiscreet
<1> QED
  BY <1>1, <1>2, <1>3, <1>4
     DEF AppStep, PublishUnsigned, PublishTx, PublishResume, RemoveTransaction, RegisterTx, Free

LEMMA MessagesTell ==
  ASSUME ListInv, NEW p \in Peers, MessageStep(p)
  PROVE  Discreet(m', net', net)
<1>0. net \in [Peers -> Link]
  BY DEF ListInv, Others
<1>1. ASSUME UNCHANGED net PROVE Discreet(m', net', net)
  BY <1>1, Untold
<1>2. ASSUME NEW h \in Txs, InvNew(p, h) PROVE Discreet(m', net', net)
  <2>1. \A q \in Peers, g \in Txs : net'[q].known[g] \in {net[q].known[g], "no", "inv"}
    BY <1>0, <1>2 DEF InvNew, Link
  <2> QED
    BY <2>1, Untold
<1>3. ASSUME NEW h \in Txs, NEW code \in {"invalid", "spent", "other"}, RejectedTx(p, h, code)
      PROVE  Discreet(m', net', net)
  <2>1. net' = net \/ net' = [net EXCEPT ![p].state = "leaving"]
    BY <1>3 DEF RejectedTx
  <2>2. \A q \in Peers : net'[q].known = net[q].known
    BY <1>0, <2>1 DEF Link
  <2> QED
    BY <2>2, Untold
<1>4. ASSUME NEW endsSync \in BOOLEAN, Pong(p, endsSync) PROVE Discreet(m', net', net)
  <2>1. net' = [net EXCEPT ![p].synced = TRUE] \/ net' = [net EXCEPT ![p].pinged = @ \/ ~net[p].synced]
    BY <1>4 DEF Pong
  <2>2. \A q \in Peers : net'[q].known = net[q].known
    BY <1>0, <2>1 DEF Link
  <2> QED
    BY <2>2, Untold
<1>5. ASSUME NEW success \in BOOLEAN, NEW atTip \in BOOLEAN, UnrelayedDone(p, success, atTip)
      PROVE  Discreet(m', net', net)
  <2>1. net' = [net EXCEPT ![p].pinged = FALSE, ![p].synced = @ \/ success]
    BY <1>5 DEF UnrelayedDone
  <2>2. \A q \in Peers : net'[q].known = net[q].known
    BY <1>0, <2>1 DEF Link
  <2> QED
    BY <2>2, Untold
<1>6. ASSUME CaughtUp(p) PROVE Discreet(m', net', net)
  BY <1>0, <1>6, LoadingIsDiscreet DEF CaughtUp
<1>7. ASSUME NEW h \in Txs, NEW keep \in BOOLEAN, HasTx(p, h, keep) \/ RequestedTx(p, h, keep)
      PROVE  Discreet(m', net', net)
  BY <1>1, <1>7 DEF HasTx, RequestedTx
<1>8. ASSUME NEW o \in Objs, NEW keep \in BOOLEAN, RelayedTx(p, o, keep) PROVE Discreet(m', net', net)
  BY <1>1, <1>8 DEF RelayedTx
<1>9. ASSUME NEW h \in Txs, DataNotfound(p, h) \/ Confirm(p, h) \/ Conflict(p, h)
      PROVE  Discreet(m', net', net)
  BY <1>1, <1>9 DEF DataNotfound, Confirm, Conflict
<1>10. ASSUME Reorg(p) PROVE Discreet(m', net', net)
  BY <1>1, <1>10 DEF Reorg
<1> QED
  BY <1>2, <1>3, <1>4, <1>5, <1>6, <1>7, <1>8, <1>9, <1>10, Zenon DEF MessageStep

LEMMA LinksTell ==
  ASSUME ListInv, NEW p \in Peers, LinkStep(p)
  PROVE  Discreet(m', net', net)
<1>0. net \in [Peers -> Link]
  BY DEF ListInv, Others
<1>1. ASSUME NEW syncs \in BOOLEAN, Dial(p, syncs) \/ Unusable(p) \/ LastThreadOut(p)
      PROVE  Discreet(m', net', net)
  <2>1. \A q \in Peers : net'[q].known = net[q].known
    BY <1>0, <1>1 DEF Dial, Unusable, LastThreadOut, Link
  <2> QED
    BY <2>1, Untold
<1>2. ASSUME NEW atTip \in BOOLEAN, Join(p, atTip) PROVE Discreet(m', net', net)
  <2> DEFINE joined == [net[p] EXCEPT !.state = "up"]
             loaded == Mempooled(m, Announced(m, joined, p), p)
  <2>1. /\ joined \in Link /\ joined.known = net[p].known
        /\ m' = m /\ (net' = [net EXCEPT ![p] = joined] \/ net' = [net EXCEPT ![p] = loaded])
    BY <1>0, <1>2 DEF Join, Link
  <2> HIDE DEF joined
  <2>2. ASSUME NEW h \in Txs, net[p].known[h] # "told", loaded.known[h] = "told"
        PROVE  Listed(m, h) /\ ~ HidesFrom(m, h, p)
    BY <2>1, <2>2, AnnouncedDiscreetly
  <2> HIDE DEF loaded
  <2>3. ASSUME NEW q \in Peers, NEW h \in Txs, net'[q].known[h] = "told", net[q].known[h] # "told"
        PROVE  Listed(m, h) /\ ~ HidesFrom(m, h, q)
    BY <1>0, <2>1, <2>2, <2>3
  <2> QED
    BY <1>2, <2>3 DEF Discreet, Join
<1>3. ASSUME NEW q \in Peers, NEW atTip \in BOOLEAN, Lead(p, q, atTip) PROVE Discreet(m', net', net)
  <2> DEFINE N == [net EXCEPT ![p].state = "up"]
             O == IF download = None THEN N ELSE [N EXCEPT ![download].state = "leaving"]
             P == {q}
             A == AnnounceTo(m, O, P)
             B == LoadMempools(m, A)
  <2>1. m' = m /\ (net' = A \/ net' = B)
    BY <1>3 DEF Lead
  <2>2. N \in [Peers -> Link] /\ \A r \in Peers : N[r].known = net[r].known
    BY <1>0 DEF Link
  <2>3. download \in Peers \cup {None}
    BY DEF ListInv, Others
  <2> HIDE DEF N
  <2>4. O \in [Peers -> Link] /\ \A r \in Peers : O[r].known = N[r].known
    BY <2>2, <2>3 DEF Link
  <2> HIDE DEF O, P
  <2>5. Discreet(m, O, net)
    BY <2>2, <2>4, Untold
  <2>6. Discreet(m, A, O) /\ A \in [Peers -> Link]
    BY <2>4, AnnouncingIsDiscreet
  <2> HIDE DEF A
  <2>7. Discreet(m, B, A)
    BY <2>6, LoadingIsDiscreet
  <2> HIDE DEF B
  <2> QED
    BY <2>1, <2>5, <2>6, <2>7, DiscreetChain
<1>4. ASSUME NEW error \in {"none", "EPROTO", "ETIMEDOUT", "other"}, NEW next \in Peers \cup {None},
             Disconnected(p, error, next)
      PROVE  Discreet(m', net', net)
  <2> DEFINE P == {next}
             A == AnnounceTo(m, net, P)
             s == [m EXCEPT !.relays = [h \in Txs |-> @[h] \ {p}]]
  <2>1. net' = [A EXCEPT ![p] = Down]
    BY <1>4 DEF Disconnected
  <2>2. m' = s \/ next = None
    BY <1>4, PublishAssumption DEF Disconnected, PublishTimedOut
  <2>3. Discreet(m, A, net) /\ A \in [Peers -> Link]
    BY <1>0, AnnouncingIsDiscreet
  <2>4. ASSUME next = None PROVE A = net
    BY <1>0, <2>4, PublishAssumption DEF AnnounceTo
  <2>5. s.listed = m.listed
    BY DEF ListInv, Good, Tables
  <2> HIDE DEF A, s
  <2>6. \A q \in Peers, h \in Txs : net'[q].known[h] \in {A[q].known[h], "no", "inv"}
    BY <2>1, <2>3 DEF Down
  <2>7. CASE m' = s
    <3>1. Discreet(m, net', A)
      BY <2>6, Untold
    <3>2. Discreet(m, net', net)
      BY <2>3, <3>1, DiscreetChain
    <3> QED
      BY <2>5, <2>7, <3>2, SameListSameSecrets
  <2>8. CASE next = None
    BY <2>4, <2>6, <2>8, Untold, SMTT(60)
  <2> QED
    BY <2>2, <2>7, <2>8
<1> QED
  BY <1>1, <1>2, <1>3, <1>4 DEF LinkStep

LEMMA StepsTell ==
  ASSUME ListInv, [Next]_vars
  PROVE  Discreet(m', net', net)
<1>1. ASSUME UNCHANGED net PROVE Discreet(m', net', net)
  BY <1>1, Untold
<1> QED
  BY <1>1, AppTells, MessagesTell, LinksTell DEF Next, vars, Deliver, FlushAnswers

(* Only the request for unrelayed transactions asks a peer for more.       *)
LEMMA StepsAsk ==
  ASSUME ListInv, [Next]_vars, NEW p \in Peers, NEW h \in Txs, p \in m'.requests[h] \ m.requests[h]
  PROVE  m'.listed = m.listed /\ ~ HidesFrom(m, h, p)
<1>0. Framed(m) /\ m \in Tables
  BY GoodIsFramed DEF ListInv, Good
<1>1. CASE Modest(m', m)
  BY <1>1 DEF Modest
<1>2. ASSUME NEW H PROVE RemoveAndPurge(m, H).requests = m.requests /\ "requests" \in DOMAIN RemoveAndPurge(m, H)
  BY <1>0 DEF RemoveAndPurge, DropEntries, WalletRemove, Tables
<1>3. CASE \E g \in Txs : RemoveTransaction(g)
  <2>1. PICK g \in Txs : RemoveTransaction(g)
    BY <1>3
  <2> DEFINE H == {g}
             t == RemoveAndPurge(m, H)
  <2>2. m' = [t EXCEPT !.rejects[g] = {}, !.relays[g] = {}, !.vouched = @ \ {g}]
    BY <2>1 DEF RemoveTransaction
  <2>3. t.requests = m.requests /\ "requests" \in DOMAIN t
    BY <1>2
  <2> HIDE DEF t
  <2>4. m'.requests = m.requests
    BY <2>2, <2>3
  <2> QED
    BY <2>4
<1>4. ASSUME NEW q \in Peers, NEW g \in Txs, Confirm(q, g) PROVE FALSE
  <2>1. m' = UpdateTx(m, g)
    BY <1>4 DEF Confirm
  <2>2. m'.requests = m.requests
    BY <1>0, <2>1 DEF UpdateTx, DropEntries, Tables
  <2> QED
    BY <2>2
<1>5. ASSUME NEW q \in Peers, NEW endsSync \in BOOLEAN, Pong(q, endsSync)
      PROVE  m'.listed = m.listed /\ ~ HidesFrom(m, h, p)
  <2>1. /\ m'.listed = m.listed
        /\ m'.requests = [g \in Txs |-> IF g \in ToAsk(m, q) THEN m.requests[g] \cup {q} ELSE m.requests[g]]
    BY <1>0, <1>5 DEF Pong, Tables
  <2>2. h \in ToAsk(m, q) /\ p = q
    BY <2>1
  <2> QED
    BY <2>1, <2>2 DEF ToAsk
<1>6. CASE m' = RemoveAndPurge(m, Unrelayed(m))
  BY <1>2, <1>6
<1> QED
  BY <1>0, <1>1, <1>3, <1>4, <1>5, <1>6, StepsAreModest

----------------------------------------------------------------------------
(* What the network said *)

(* The instances in which nothing ends the evidence that a peer took the   *)
(* send: one transaction, no stem phase, no block, no removal by the user. *)
OneSend == \A g, h \in Txs : g = h
EvidenceStays ==
    "block" \notin Messages /\ "remove" \notin Api /\ ("stem" \notin Api \/ Dandelion = {})

(* An answer in q says that a peer took the transaction.                   *)
Approves(q) == \E i \in DOMAIN q : q[i].error = "OK"

NoneStems(s) == \A e \in s.listed : "stem" \in DOMAIN e /\ e.stem = None

Kindly(s) == {"listed", "queue", "vouched", "record"} \subseteq DOMAIN s

(* t knows what s knows of the network, and queues no more approval.       *)
Backs(t, s) ==
    /\ Kindly(t)
    /\ s.vouched \subseteq t.vouched
    /\ NoneStems(s) => NoneStems(t)
    /\ s.queue \in Seq(Answer) => t.queue \in Seq(Answer) /\ (Approves(t.queue) => Approves(s.queue))

(* Somebody was told, or is about to be told, that a peer took the send.   *)
Said ==
    \/ Approves(m.queue) \/ \E t \in Threads : Approves(hand[t].calls)
    \/ \E c \in Calls : \E i \in DOMAIN answers[c] : answers[c][i] = "OK"

Vouched == NoneStems(m) /\ (Said => Txs \subseteq m.vouched)

LEMMA AnswersSay ==
  ASSUME NEW E, IsFiniteSet(E), E \subseteq PubEntry, NEW error \in Verdicts
  PROVE  /\ AnswersTo(E, error) \in Seq(Answer)
         /\ Approves(AnswersTo(E, error)) => error = "OK" /\ E # {}
<1> DEFINE F == {f \in E : f.call # None}
           g == [e \in F |-> [call |-> e.call, error |-> error]]
           S == {[call |-> e.call, error |-> error] : e \in F}
           q == SetToSeq(S)
<1>1. IsFiniteSet(F)
  BY FS_Subset
<1>2. IsFiniteSet(S)
  <2>1. g \in Surjection(F, S)
    BY DEF Surjection
  <2> QED
    BY <1>1, <2>1, FS_Surjection
<1>3. \A a \in S : a.error = error /\ E # {}
  OBVIOUS
<1> HIDE DEF S
<1>4. q \in Seq(S)
  BY <1>2, SetAsSeq
<1> HIDE DEF q
<1>5. \A i \in DOMAIN q : q[i] \in S
  BY <1>4, LenProperties, ElementOfSeq
<1>6. AnswersTo(E, error) = q
  BY DEF AnswersTo, q, S
<1> QED
  BY <1>3, <1>5, <1>6, AnswersCount DEF Approves

LEMMA Appended ==
  ASSUME NEW q \in Seq(Answer), NEW u \in Seq(Answer)
  PROVE  q \o u \in Seq(Answer) /\ (Approves(q \o u) => Approves(q) \/ Approves(u))
<1> DEFINE v == q \o u
           k == Len(q)
<1>1. /\ v \in Seq(Answer) /\ Len(v) = k + Len(u)
      /\ \A i \in 1..(k + Len(u)) : v[i] = IF i <= k THEN q[i] ELSE u[i - k]
  BY ConcatProperties
<1>2. /\ k \in Nat /\ Len(u) \in Nat /\ DOMAIN q = 1..k /\ DOMAIN u = 1..Len(u)
      /\ DOMAIN v = 1..(k + Len(u))
  BY <1>1, LenProperties
<1> HIDE DEF v, k
<1>3. ASSUME NEW i \in DOMAIN v, v[i].error = "OK" PROVE Approves(q) \/ Approves(u)
  <2>1. CASE i <= k
    <3>1. i \in DOMAIN q /\ v[i] = q[i]
      BY <1>1, <1>2, <2>1
    <3> QED
      BY <1>3, <3>1 DEF Approves
  <2>2. CASE ~ (i <= k)
    <3>1. i - k \in DOMAIN u /\ v[i] = u[i - k]
      BY <1>1, <1>2, <2>2
    <3> QED
      BY <1>3, <3>1 DEF Approves
  <2> QED
    BY <2>1, <2>2
<1> QED
  BY <1>1, <1>3 DEF Approves, v

LEMMA BacksChain ==
  ASSUME NEW s, NEW t, NEW u, Backs(t, s), Backs(u, t)
  PROVE  Backs(u, s)
  BY DEF Backs

LEMMA BacksKind ==
  ASSUME NEW s, NEW t, Backs(t, s)
  PROVE  Kindly(t)
  BY DEF Backs

(* What changes neither the list, the queue nor the evidence.              *)
LEMMA BacksSame ==
  ASSUME NEW s, Kindly(s), NEW t, Kindly(t), t.listed = s.listed, t.queue = s.queue, s.vouched \subseteq t.vouched
  PROVE  Backs(t, s)
  BY DEF Backs, NoneStems

LEMMA Backing ==
  ASSUME NEW s, Kindly(s), NEW h, NEW p, NEW o, NEW keep, NEW x
  PROVE  /\ Backs(s, s) /\ Backs(Take(s, h), s) /\ Backs(Vouch(s, h, p), s)
         /\ Backs(Unrequest(s, h, p), s) /\ Backs(Register(s, o, keep), s)
         /\ Backs(OwnershipFollowsObject(s, h), s) /\ Backs(Born(s, o), s)
         /\ Backs(Unstemmed(s, h), s) /\ Backs(TakeAndVouch(s, h, p), s)
         /\ Backs([s EXCEPT !.alive = x], s) /\ Backs([s EXCEPT !.relays = x], s)
         /\ Backs([s EXCEPT !.mined = x], s) /\ Backs([s EXCEPT !.invalid = x], s)
         /\ Backs([s EXCEPT !.requests = x], s) /\ Backs([s EXCEPT !.rejects = x], s)
<1>1. ASSUME NEW t, Kindly(t), t.queue = s.queue, s.vouched \subseteq t.vouched, NoneStems(s) => NoneStems(t)
      PROVE  Backs(t, s)
  BY <1>1 DEF Backs
<1>2. Backs(s, s)
  BY <1>1
<1>3. Backs(Take(s, h), s)
  <2>1. NoneStems(s) => NoneStems(Take(s, h))
    BY DEF Kindly, NoneStems, Take
  <2> QED
    BY <1>1, <2>1 DEF Kindly, Take
<1>4. Backs(Vouch(s, h, p), s)
  BY BacksSame DEF Kindly, Vouch
<1>5. Backs(Unrequest(s, h, p), s)
  BY BacksSame DEF Kindly, Unrequest
<1>6. Backs(Register(s, o, keep), s)
  BY <1>2, BacksSame DEF Kindly, Register
<1>7. Backs(OwnershipFollowsObject(s, h), s)
  <2>1. NoneStems(s) => NoneStems(OwnershipFollowsObject(s, h))
    BY DEF Kindly, NoneStems, OwnershipFollowsObject
  <2> QED
    BY <1>1, <2>1 DEF Kindly, OwnershipFollowsObject
<1>8. Backs(Born(s, o), s)
  BY BacksSame DEF Kindly, Born
<1>9. Backs(Unstemmed(s, h), s)
  <2>1. NoneStems(s) => NoneStems(Unstemmed(s, h))
    BY DEF Kindly, NoneStems, Unstemmed
  <2> QED
    BY <1>1, <2>1 DEF Kindly, Unstemmed
<1>10. Backs(TakeAndVouch(s, h, p), s)
  <2> DEFINE t == Take(s, h)
  <2>1. Backs(Vouch(t, h, p), t)
    <3>1. Kindly(t)
      BY <1>3, BacksKind
    <3> HIDE DEF t
    <3> QED
      BY <3>1, BacksSame DEF Kindly, Vouch
  <2>2. TakeAndVouch(s, h, p) = s \/ TakeAndVouch(s, h, p) = Vouch(t, h, p)
    BY DEF TakeAndVouch
  <2>3. Backs(t, s)
    BY <1>3
  <2> HIDE DEF t
  <2> QED
    BY <1>2, <2>1, <2>2, <2>3, BacksChain
<1>11. /\ Backs([s EXCEPT !.alive = x], s) /\ Backs([s EXCEPT !.relays = x], s)
       /\ Backs([s EXCEPT !.mined = x], s) /\ Backs([s EXCEPT !.invalid = x], s)
       /\ Backs([s EXCEPT !.requests = x], s) /\ Backs([s EXCEPT !.rejects = x], s)
  BY BacksSame DEF Kindly
<1> QED
  BY <1>2, <1>3, <1>4, <1>5, <1>6, <1>7, <1>8, <1>9, <1>10, <1>11

(* Callbacks are queued an error: nobody is told that the send was taken.  *)
LEMMA DropBacks ==
  ASSUME NEW s, Kindly(s), NEW E, IsFiniteSet(E), E \subseteq PubEntry, NEW error \in Verdicts \ {"OK"}
  PROVE  Backs(DropEntries(s, E, error), s)
<1> DEFINE u == AnswersTo(E, error)
           t == DropEntries(s, E, error)
<1>1. u \in Seq(Answer) /\ ~ Approves(u)
  BY AnswersSay
<1>2. Kindly(t) /\ t.listed \subseteq s.listed /\ t.queue = s.queue \o u /\ t.vouched = s.vouched
  BY DEF Kindly, DropEntries
<1> HIDE DEF t, u
<1>3. s.queue \in Seq(Answer) => t.queue \in Seq(Answer) /\ (Approves(t.queue) => Approves(s.queue))
  BY <1>1, <1>2, Appended
<1>4. NoneStems(s) => NoneStems(t)
  BY <1>2 DEF NoneStems
<1> QED
  BY <1>2, <1>3, <1>4 DEF Backs, t

LEMMA AnswerBacks ==
  ASSUME NEW s, Kindly(s), NEW h, IsFiniteSet(EntriesOf(s, h)), EntriesOf(s, h) \subseteq PubEntry,
         NEW error \in Verdicts \ {"OK"}
  PROVE  Backs(AnswerEntry(s, h, error), s)
<1> DEFINE u == AnswersTo(EntriesOf(s, h), error)
           k == Take(s, h)
           t == AnswerEntry(s, h, error)
<1>1. u \in Seq(Answer) /\ ~ Approves(u)
  BY AnswersSay
<1>2. Backs(k, s) /\ k.queue = s.queue
  <2>1. Backs(k, s)
    BY Backing
  <2>2. k.queue = s.queue
    BY DEF Kindly, Take
  <2> QED
    BY <2>1, <2>2
<1>3. t = [k EXCEPT !.queue = k.queue \o u]
  BY DEF AnswerEntry
<1> HIDE DEF k, u, t
<1>4. Kindly(t) /\ t.listed = k.listed /\ t.queue = k.queue \o u /\ t.vouched = k.vouched
  BY <1>2, <1>3 DEF Kindly, Backs
<1>5. Backs(t, k)
  <2>1. k.queue \in Seq(Answer) => t.queue \in Seq(Answer) /\ (Approves(t.queue) => Approves(k.queue))
    BY <1>1, <1>4, Appended
  <2>2. NoneStems(k) => NoneStems(t)
    BY <1>4 DEF NoneStems
  <2> QED
    BY <1>4, <2>1, <2>2 DEF Backs
<1>6. Backs(t, s)
  BY <1>2, <1>5, BacksChain
<1> QED
  BY <1>6 DEF t

LEMMA AddBacks ==
  ASSUME NEW s, Kindly(s), NEW o, NEW c, NEW owned
  PROVE  Backs(AddTxToPublishList(s, o, c, owned).s, s)
<1> DEFINE r == AddTxToPublishList(s, o, c, owned)
<1>1. ASSUME NEW L, r.s = [s EXCEPT !.listed = L],
             NoneStems(s) => \A f \in L : "stem" \in DOMAIN f /\ f.stem = None
      PROVE  Backs(r.s, s)
  <2> DEFINE t == [s EXCEPT !.listed = L]
  <2>1. Kindly(t) /\ t.listed = L /\ t.queue = s.queue /\ t.vouched = s.vouched
    BY DEF Kindly
  <2>2. Backs(t, s)
    BY <1>1, <2>1 DEF Backs, NoneStems
  <2> QED
    BY <1>1, <2>2
<1>2. CASE r.s = s
  BY <1>2, Backing
<1>3. CASE o \in s.mined
  BY <1>2, <1>3 DEF AddTxToPublishList
<1>4. CASE o \notin s.mined /\ Duplicate(s, o) # {}
  <2> DEFINE e == CHOOSE f \in Duplicate(s, o) : TRUE
             x == [e EXCEPT !.call = c]
             L == (s.listed \ {e}) \cup {x}
  <2>1. e \in s.listed
    BY <1>4 DEF Duplicate, EntriesOf
  <2>2. r = IF c = None THEN [s |-> s, added |-> "duplicate"]
            ELSE IF e.call # None THEN [s |-> s, added |-> "pending"]
            ELSE [s |-> [s EXCEPT !.listed = (@ \ {e}) \cup {[e EXCEPT !.call = c]}],
                  added |-> "duplicate"]
    BY <1>4 DEF AddTxToPublishList
  <2> HIDE DEF e
  <2>3. CASE c = None \/ e.call # None
    BY <1>2, <2>2, <2>3
  <2>4. CASE c # None /\ e.call = None
    <3>1. r.s = [s EXCEPT !.listed = L]
      BY <2>2, <2>4
    <3>2. ASSUME NoneStems(s) PROVE "stem" \in DOMAIN x /\ x.stem = None
      <4>1. "stem" \in DOMAIN e /\ e.stem = None
        BY <2>1, <3>2 DEF NoneStems
      <4> QED
        BY <4>1
    <3> HIDE DEF x
    <3>3. NoneStems(s) => \A f \in L : "stem" \in DOMAIN f /\ f.stem = None
      BY <3>2 DEF NoneStems
    <3> HIDE DEF L
    <3> QED
      BY <1>1, <3>1, <3>3
  <2> QED
    BY <2>3, <2>4
<1>5. CASE o \notin s.mined /\ Duplicate(s, o) = {}
  <2> DEFINE L == s.listed \cup {NewEntry(o, c, owned /\ s.record[HashOf[o]] # o)}
                     \cup {NewEntry(s.record[g], None, FALSE) : g \in ParentsToList(s, HashOf[o])}
  <2>1. r.s = [s EXCEPT !.listed = L]
    BY <1>5 DEF AddTxToPublishList
  <2>2. \A a, b, w : "stem" \in DOMAIN NewEntry(a, b, w) /\ NewEntry(a, b, w).stem = None
    BY DEF NewEntry
  <2>3. ASSUME NoneStems(s), NEW f \in L PROVE "stem" \in DOMAIN f /\ f.stem = None
    <3>1. f \in s.listed \/ \E a, b, w : f = NewEntry(a, b, w)
      OBVIOUS
    <3> HIDE DEF L
    <3> QED
      BY <2>2, <2>3, <3>1 DEF NoneStems
  <2> HIDE DEF L
  <2> QED
    BY <1>1, <2>1, <2>3
<1> QED
  BY <1>3, <1>4, <1>5

LEMMA HandOverBacks ==
  ASSUME NEW s, Kindly(s), NEW o, NEW c \in Calls \cup {None}
  PROVE  Backs(HandOver(s, o, c).s, s)
<1> DEFINE r == AddTxToPublishList(s, o, c, TRUE)
           spare == IF r.added = "taken" \/ r.s.record[HashOf[o]] = o THEN {} ELSE {o}
           u == IF r.added = "pending" THEN Reply(c, "EALREADY") ELSE <<>>
           A == Freed(r.s.alive, spare)
           t == HandOver(s, o, c).s
<1>1. t = [r.s EXCEPT !.alive = A, !.queue = r.s.queue \o u]
  BY Zenon DEF HandOver
<1>2. Backs(r.s, s)
  BY AddBacks
<1>3. u \in Seq(Answer) /\ ~ Approves(u)
  <2>1. CASE c = None
    <3>1. u = <<>>
      BY <2>1, Zenon DEF Reply
    <3> HIDE DEF u
    <3> QED
      BY <3>1 DEF Approves
  <2>2. CASE c # None
    <3> DEFINE a == [call |-> c, error |-> "EALREADY"]
    <3>1. u = <<>> \/ u = <<a>>
      BY <2>2, Zenon DEF Reply
    <3>2. a \in Answer /\ a.error # "OK"
      BY <2>2 DEF Answer, Verdicts
    <3> HIDE DEF u, a
    <3>3. CASE u = <<>>
      BY <3>3 DEF Approves
    <3>4. CASE u = <<a>>
      <4>1. u \in Seq(Answer) /\ \A i \in DOMAIN u : u[i] = a
        BY <3>2, <3>4
      <4> QED
        BY <3>2, <4>1 DEF Approves
    <3> QED
      BY <3>1, <3>3, <3>4
  <2> QED
    BY <2>1, <2>2
<1> HIDE DEF r, A, u, t
<1>4. Kindly(t) /\ t.listed = r.s.listed /\ t.queue = r.s.queue \o u /\ t.vouched = r.s.vouched
  BY <1>1, <1>2 DEF Kindly, Backs
<1> DEFINE k == r.s
<1> HIDE DEF k
<1>5. Backs(t, k)
  <2>1. Kindly(t) /\ t.listed = k.listed /\ t.queue = k.queue \o u /\ t.vouched = k.vouched
    BY <1>4 DEF k
  <2>2. k.queue \in Seq(Answer) => t.queue \in Seq(Answer) /\ (Approves(t.queue) => Approves(k.queue))
    BY <1>3, <2>1, Appended
  <2>3. NoneStems(k) => NoneStems(t)
    BY <2>1 DEF NoneStems
  <2> QED
    BY <2>1, <2>2, <2>3 DEF Backs
<1>6. Backs(t, s)
  BY <1>2, <1>5, BacksChain DEF k
<1> QED
  BY <1>6 DEF t

LEMMA PurgeBacks ==
  ASSUME NEW s, Good(s), NEW H
  PROVE  Backs(RemoveAndPurge(s, H), s)
<1> DEFINE t == WalletRemove(s, H)
           E == Released(s, t)
<1>1. Kindly(s)
  BY DEF Good, Tables, Kindly
<1>2. Kindly(t) /\ t.listed = s.listed /\ t.queue = s.queue /\ t.vouched = s.vouched
  BY <1>1 DEF WalletRemove, Kindly
<1>3. Backs(t, s)
  BY <1>1, <1>2, BacksSame
<1> HIDE DEF t
<1>4. E \subseteq s.listed /\ IsFiniteSet(s.listed) /\ s.listed \subseteq PubEntry
  BY <1>2, ListFinite DEF Released, Good, Tables
<1>5. IsFiniteSet(E) /\ E \subseteq PubEntry
  BY <1>4, FS_Subset
<1> HIDE DEF E
<1>6. Backs(DropEntries(t, E, "ECANCELED"), t)
  BY <1>2, <1>5, DropBacks DEF Verdicts
<1>7. RemoveAndPurge(s, H) = DropEntries(t, E, "ECANCELED")
  BY DEF RemoveAndPurge, t, E
<1> QED
  BY <1>3, <1>6, <1>7, BacksChain

(* A step may approve only what it vouches for.                            *)
Evident == Backs(m', m) /\ (Said' => Said \/ Txs \subseteq m'.vouched)

LEMMA Speaking ==
  ASSUME ListInv, Backs(m', m), UNCHANGED answers, NEW t \in Threads,
         \A u \in Threads \ {t} : hand'[u].calls = hand[u].calls,
         Approves(hand'[t].calls) => Approves(hand[t].calls) \/ Approves(m.queue) \/ Txs \subseteq m'.vouched
  PROVE  Evident
<1>1. m.queue \in Seq(Answer)
  BY DEF ListInv, Good, Tables
<1>2. Approves(m'.queue) => Approves(m.queue)
  BY <1>1 DEF Backs
<1> QED
  BY <1>2, Zenon DEF Evident, Said

LEMMA Silence ==
  ASSUME ListInv, Backs(m', m), UNCHANGED <<hand, answers>>
  PROVE  Evident
<1>1. App \in Threads
  BY DEF Threads
<1> QED
  BY <1>1, Speaking

LEMMA ThenSays ==
  ASSUME ListInv, Backs(m', m), UNCHANGED answers, NEW t \in Threads, NEW r,
         hand' = [hand EXCEPT ![t] = r] \/ hand' = [hand EXCEPT ![t].calls = r.calls],
         Approves(r.calls) => Approves(m.queue) \/ Txs \subseteq m'.vouched
  PROVE  Evident
<1>1. hand \in HandType
  BY DEF ListInv, Others, HandType
<1>2. hand'[t].calls = r.calls /\ \A u \in Threads \ {t} : hand'[u].calls = hand[u].calls
  BY <1>1 DEF HandType
<1> QED
  BY <1>2, Speaking

LEMMA KindlyM ==
  ASSUME ListInv
  PROVE  /\ Kindly(m) /\ m.queue \in Seq(Answer)
         /\ \A h : IsFiniteSet(EntriesOf(m, h)) /\ EntriesOf(m, h) \subseteq PubEntry
<1>1. /\ m \in Tables /\ IsFiniteSet(m.listed)
  BY ListFinite DEF ListInv, Good
<1>2. \A h : EntriesOf(m, h) \subseteq m.listed
  BY DEF EntriesOf
<1> QED
  BY <1>1, <1>2, FS_Subset DEF Tables, Kindly

(* A handler that takes h's callbacks vouches for h if it takes any.       *)
LEMMA TakenSays ==
  ASSUME ListInv, OneSend, Backs(m', m), UNCHANGED answers, NEW p \in Peers, NEW h \in Txs,
         Then(p, Taken(m, h)), Listed(m, h) => h \in m'.vouched
  PROVE  Evident
<1> DEFINE q == Taken(m, h)
           r == [calls |-> q, flush |-> TRUE]
<1>1. Approves(q) => Listed(m, h)
  BY KindlyM, AnswersSay DEF Taken, Verdicts, Listed
<1>2. h \in m'.vouched => Txs \subseteq m'.vouched
  BY DEF OneSend
<1>3. hand' = [hand EXCEPT ![p] = r] /\ p \in Threads
  BY DEF Then, Threads
<1>4. r.calls = q
  BY Zenon
<1> HIDE DEF q, r
<1>5. Approves(r.calls) => Approves(m.queue) \/ Txs \subseteq m'.vouched
  BY <1>1, <1>2, <1>4
<1> QED
  BY <1>3, <1>5, ThenSays

(* One that takes none approves nothing.                                   *)
LEMMA NothingTaken ==
  ASSUME ListInv, Backs(m', m), UNCHANGED answers, NEW t \in Threads, Then(t, <<>>)
  PROVE  Evident
<1> DEFINE r == [calls |-> <<>>, flush |-> TRUE]
<1>1. hand' = [hand EXCEPT ![t] = r]
  BY DEF Then
<1>2. ~ Approves(r.calls)
  BY DEF Approves
<1> HIDE DEF r
<1> QED
  BY <1>1, <1>2, ThenSays

LEMMA ReplySays ==
  ASSUME NEW c, NEW error, error # "OK"
  PROVE  ~ Approves(Reply(c, error))
<1> DEFINE a == [call |-> c, error |-> error]
<1>1. a.error # "OK"
  OBVIOUS
<1>2. Reply(c, error) = <<>> \/ Reply(c, error) = <<a>>
  BY DEF Reply
<1> HIDE DEF a
<1> QED
  BY <1>1, <1>2 DEF Approves

LEMMA FloodSays ==
  ASSUME ListInv, NEW o, NEW c \in Calls \cup {None}, Flood(o, c), UNCHANGED answers
  PROVE  Evident
<1> DEFINE h == HashOf[o]
           s == Born(m, o)
           u == Unstemmed(s, h)
           r == HandOver(u, o, c)
<1>1. m' = r.s /\ Then(App, <<>>) /\ App \in Threads
  BY DEF Flood, Threads
<1>2. Backs(s, m)
  BY KindlyM, Backing
<1> HIDE DEF s
<1>3. Backs(u, s)
  BY <1>2, BacksKind, Backing
<1> HIDE DEF u
<1>4. Backs(r.s, u)
  BY <1>3, BacksKind, HandOverBacks
<1> HIDE DEF r
<1>5. Backs(m', m)
  BY <1>1, <1>2, <1>3, <1>4, BacksChain
<1> QED
  BY <1>1, <1>5, NothingTaken

(* Everything that the list still owes is answered as not connected.       *)
LEMMA FreeSays ==
  ASSUME ListInv, NEW t \in Threads, FreeNow(t), UNCHANGED answers
  PROVE  Evident
<1> DEFINE s == DropEntries(m, m.listed, "ENOTCONN")
           r == [calls |-> s.queue]
<1>1. m' = [s EXCEPT !.queue = <<>>] /\ hand' = [hand EXCEPT ![t].calls = r.calls]
  BY DEF FreeNow
<1>2. m.listed \subseteq PubEntry /\ IsFiniteSet(m.listed)
  BY ListFinite DEF ListInv, Good, Tables
<1>3. Backs(s, m)
  BY <1>2, KindlyM, DropBacks DEF Verdicts
<1>4. r.calls = s.queue
  BY Zenon
<1> HIDE DEF s, r
<1>5. Kindly(m') /\ m'.listed = s.listed /\ m'.queue = <<>> /\ m'.vouched = s.vouched
  BY <1>1, <1>3 DEF Backs, Kindly
<1>6. m'.queue \in Seq(Answer) /\ ~ Approves(m'.queue)
  BY <1>5 DEF Approves
<1>7. Backs(m', s)
  BY <1>5, <1>6 DEF Backs, NoneStems
<1>8. Backs(m', m)
  BY <1>3, <1>7, BacksChain
<1>9. Approves(r.calls) => Approves(m.queue)
  BY <1>3, <1>4, KindlyM DEF Backs
<1> QED
  BY <1>1, <1>8, <1>9, ThenSays

LEMMA AppSays ==
  ASSUME ListInv, EvidenceStays, AppStep
  PROVE  Evident
<1>0. Kindly(m) /\ Backs(m, m) /\ App \in Threads
  BY KindlyM, Backing DEF Threads
<1>1. ASSUME NEW o \in Objs, NEW c \in Calls \cup {None}, PublishUnsigned(o, c) PROVE Evident
  <2> DEFINE A == [m.alive EXCEPT ![o] = "freed"]
             r == [calls |-> Reply(c, "EINVAL")]
  <2>1. m' = [m EXCEPT !.alive = A] /\ hand' = [hand EXCEPT ![App].calls = r.calls] /\ UNCHANGED answers
    BY <1>1 DEF PublishUnsigned
  <2>2. ~ Approves(r.calls)
    BY ReplySays
  <2> HIDE DEF A, r
  <2>3. Backs(m', m)
    BY <1>0, <2>1, Backing
  <2> QED
    BY <1>0, <2>1, <2>2, <2>3, ThenSays
<1>2. ASSUME NEW o \in Objs, NEW c \in Calls \cup {None}, PublishTx(o, c) PROVE Evident
  <2>1. UNCHANGED answers /\ (Flood(o, c) \/ (m' = Born(m, o) /\ UNCHANGED hand))
    BY <1>2 DEF PublishTx
  <2>2. Backs(Born(m, o), m)
    BY <1>0, Backing
  <2> QED
    BY <2>1, <2>2, FloodSays, Silence
<1>3. ASSUME NEW o \in Objs, NEW c \in Calls \cup {None}, NEW p \in Peers, StemPublishTx(o, c, p) PROVE FALSE
  BY <1>3 DEF StemPublishTx, Calling, EvidenceStays
<1>4. ASSUME NEW reachable \in BOOLEAN, PublishResume(reachable) PROVE Evident
  <2> DEFINE o == window.obj
             c == window.call
             A == Freed(m.alive, {o})
             r == [calls |-> Reply(c, "ENOTCONN")]
  <2>1. /\ UNCHANGED answers
        /\ \/ /\ m' = m \/ m' = [m EXCEPT !.alive = A]
              /\ hand' = [hand EXCEPT ![App].calls = r.calls]
           \/ Flood(o, c)
    BY <1>4 DEF PublishResume
  <2>2. ~ Approves(r.calls)
    BY ReplySays
  <2>3. c \in Calls \cup {None}
    BY <1>4 DEF PublishResume, ListInv, Others
  <2> HIDE DEF o, c, A, r
  <2>4. Backs([m EXCEPT !.alive = A], m)
    BY <1>0, Backing
  <2>5. CASE Flood(o, c)
    BY <2>1, <2>3, <2>5, FloodSays
  <2>6. CASE ~ Flood(o, c)
    <3>1. Backs(m', m)
      BY <1>0, <2>1, <2>4, <2>6
    <3> QED
      BY <1>0, <2>1, <2>2, <2>6, <3>1, ThenSays
  <2> QED
    BY <2>5, <2>6
<1>5. ASSUME NEW h \in Txs, FluffTx(h) PROVE Evident
  <2>1. m' = Unstemmed(m, h) /\ UNCHANGED <<hand, answers>>
    BY <1>5 DEF FluffTx
  <2>2. Backs(m', m)
    BY <1>0, <2>1, Backing
  <2> QED
    BY <2>1, <2>2, Silence
<1>6. ASSUME NEW h \in Txs, RemoveTransaction(h) PROVE FALSE
  BY <1>6 DEF RemoveTransaction, Calling, EvidenceStays
<1>7. ASSUME NEW o \in Objs, RegisterTx(o) PROVE Evident
  <2> DEFINE b == Born(m, o)
  <2>1. m' = Register(b, o, TRUE) /\ UNCHANGED <<hand, answers>>
    BY <1>7 DEF RegisterTx
  <2>2. Backs(b, m)
    BY <1>0, Backing
  <2> HIDE DEF b
  <2>3. Backs(m', b)
    BY <2>1, <2>2, BacksKind, Backing
  <2>4. Backs(m', m)
    BY <2>2, <2>3, BacksChain
  <2> QED
    BY <2>1, <2>4, Silence
<1>8. ASSUME Free PROVE Evident
  <2>1. UNCHANGED answers /\ (FreeNow(App) \/ UNCHANGED <<m, hand>>)
    BY <1>8 DEF Free
  <2> QED
    BY <1>0, <2>1, FreeSays, Silence
<1> QED
  BY <1>1, <1>2, <1>3, <1>4, <1>5, <1>6, <1>7, <1>8, Zenon DEF AppStep

LEMMA HasTxSays ==
  ASSUME ListInv, OneSend, NEW p \in Peers, NEW h \in Txs, NEW keep \in BOOLEAN, HasTx(p, h, keep)
  PROVE  Evident
<1> DEFINE o == ObjectOf(h)
           a == TakeAndVouch(m, h, p)
           b == Register(a, o, keep)
           s == OwnershipFollowsObject(b, h)
           v == IF syncing THEN s ELSE Vouch(s, h, p)
<1>1. m' = Unrequest(v, h, p) /\ Then(p, Taken(m, h)) /\ UNCHANGED answers
  BY DEF HasTx
<1>2. Backs(a, m)
  BY KindlyM, Backing
<1>3. Listed(m, h) => h \in a.vouched
  <2> DEFINE k == Take(m, h)
  <2>1. Kindly(k)
    BY KindlyM, Backing, BacksKind
  <2>2. Listed(m, h) => a = Vouch(k, h, p)
    BY DEF TakeAndVouch
  <2> HIDE DEF k, a
  <2> QED
    BY <2>1, <2>2 DEF Vouch, Kindly
<1> HIDE DEF a
<1>4. Backs(b, a)
  BY <1>2, BacksKind, Backing
<1> HIDE DEF b
<1>5. Backs(s, b)
  BY <1>4, BacksKind, Backing
<1> HIDE DEF s
<1>6. Backs(v, s)
  BY <1>5, BacksKind, Backing
<1> HIDE DEF v
<1>7. Backs(m', v)
  BY <1>1, <1>6, BacksKind, Backing
<1>8. Backs(m', a)
  BY <1>4, <1>5, <1>6, <1>7, BacksChain
<1>9. Backs(m', m) /\ (Listed(m, h) => h \in m'.vouched)
  <2>1. Backs(m', m)
    BY <1>2, <1>8, BacksChain
  <2>2. a.vouched \subseteq m'.vouched
    BY <1>8 DEF Backs
  <2> QED
    BY <1>3, <2>1, <2>2
<1> QED
  BY <1>1, <1>9, TakenSays

LEMMA RequestedTxSays ==
  ASSUME ListInv, OneSend, NoneStems(m), NEW p \in Peers, NEW h \in Txs, NEW keep \in BOOLEAN,
         RequestedTx(p, h, keep)
  PROVE  Evident
<1> DEFINE o == (CHOOSE e \in EntriesOf(m, h) : TRUE).obj
           a == Take(m, h)
           s == Vouch(a, h, p)
           b == Register(s, o, keep)
           E == EntriesOf(m, h)
<1>1. ~ Stemming(m, h)
  BY DEF Stemming, NoneStems, EntriesOf
<1>2. /\ UNCHANGED answers
      /\ \/ m' = OwnershipFollowsObject(b, h) /\ Then(p, Taken(m, h))
         \/ m' = DropEntries(m, E, "EINVAL") /\ Then(p, <<>>)
  BY <1>1 DEF RequestedTx
<1>3. CASE m' = DropEntries(m, E, "EINVAL") /\ Then(p, <<>>)
  <2>1. IsFiniteSet(E) /\ E \subseteq PubEntry /\ p \in Threads
    BY KindlyM DEF Threads
  <2> HIDE DEF E
  <2>2. Backs(m', m)
    BY <1>3, <2>1, KindlyM, DropBacks DEF Verdicts
  <2> QED
    BY <1>2, <1>3, <2>1, <2>2, NothingTaken
<1>4. CASE m' = OwnershipFollowsObject(b, h) /\ Then(p, Taken(m, h))
  <2>1. Backs(a, m)
    BY KindlyM, Backing
  <2> HIDE DEF a
  <2>2. Backs(s, a)
    BY <2>1, BacksKind, Backing
  <2>3. h \in s.vouched
    BY <2>1 DEF Vouch, Backs, Kindly
  <2> HIDE DEF s
  <2>4. Backs(b, s)
    BY <2>2, BacksKind, Backing
  <2> HIDE DEF b
  <2>5. Backs(m', b)
    BY <1>4, <2>4, BacksKind, Backing
  <2>6. Backs(m', s)
    BY <2>4, <2>5, BacksChain
  <2>7. Backs(m', m)
    BY <2>1, <2>2, <2>6, BacksChain
  <2>8. h \in m'.vouched
    BY <2>3, <2>6 DEF Backs
  <2> QED
    BY <1>2, <1>4, <2>7, <2>8, TakenSays
<1> QED
  BY <1>2, <1>3, <1>4

LEMMA RelayedTxSays ==
  ASSUME ListInv, OneSend, NEW p \in Peers, NEW o \in Objs, NEW keep \in BOOLEAN, RelayedTx(p, o, keep)
  PROVE  Evident
<1> DEFINE h == HashOf[o]
           b == Born(m, o)
           s == TakeAndVouch(b, h, p)
           kept == IF ~syncing \/ h \in Ours THEN Register(s, o, keep) ELSE s
           ours == (~syncing \/ h \in Ours) /\ Registered(s, o, keep)
           A == Freed(kept.alive, {o})
           t == IF kept.record[h] = o THEN kept ELSE [kept EXCEPT !.alive = Freed(@, {o})]
           add == AddTxToPublishList(t, t.record[h], None, FALSE)
           u == IF h \in Sends /\ Valid(t, h) THEN add.s ELSE t
           v == IF syncing THEN u ELSE Vouch(u, h, p)
<1>1. (m' = t \/ m' = Unrequest(v, h, p)) /\ Then(p, Taken(m, h)) /\ UNCHANGED answers
  <2>1. m' = IF ~ours THEN t ELSE Unrequest(v, h, p)
    BY Zenon DEF RelayedTx
  <2>2. Then(p, Taken(m, h)) /\ UNCHANGED answers
    BY DEF RelayedTx
  <2> HIDE DEF ours, t, v
  <2> QED
    BY <2>1, <2>2
<1>2. h \in Txs
  BY PublishAssumption
<1>3. Backs(b, m) /\ (Listed(m, h) <=> Listed(b, h))
  <2>1. Backs(b, m)
    BY KindlyM, Backing
  <2>2. b.listed = m.listed
    BY KindlyM DEF Kindly, Born
  <2> HIDE DEF b
  <2> QED
    BY <2>1, <2>2 DEF Listed, EntriesOf
<1> HIDE DEF b
<1>4. Backs(s, b)
  BY <1>3, BacksKind, Backing
<1>5. Listed(b, h) => h \in s.vouched
  <2> DEFINE k == Take(b, h)
  <2>1. Kindly(k)
    BY <1>3, Backing, BacksKind
  <2>2. Listed(b, h) => s = Vouch(k, h, p)
    BY DEF TakeAndVouch
  <2> HIDE DEF k, s
  <2> QED
    BY <2>1, <2>2 DEF Vouch, Kindly
<1> HIDE DEF s
<1>6. Backs(kept, s)
  BY <1>4, BacksKind, Backing
<1>7. Backs(t, kept)
  <2>1. [kept EXCEPT !.alive = Freed(@, {o})] = [kept EXCEPT !.alive = A]
    BY Zenon
  <2>2. t = kept \/ t = [kept EXCEPT !.alive = A]
    BY <2>1, Zenon
  <2> HIDE DEF kept, A, t
  <2> QED
    BY <1>6, <2>2, BacksKind, Backing
<1> HIDE DEF kept, A, t
<1>8. Backs(add.s, t) /\ Backs(t, t)
  BY <1>7, BacksKind, AddBacks, Backing
<1> HIDE DEF add
<1>9. Backs(u, t)
  BY <1>8
<1> HIDE DEF u
<1>10. Backs(v, u)
  BY <1>9, BacksKind, Backing
<1> HIDE DEF v
<1>11. Backs(Unrequest(v, h, p), v)
  BY <1>10, BacksKind, Backing
<1>12. Backs(Unrequest(v, h, p), t)
  BY <1>9, <1>10, <1>11, BacksChain
<1>13. Backs(m', t)
  BY <1>1, <1>8, <1>12
<1>14. Backs(m', s)
  BY <1>6, <1>7, <1>13, BacksChain
<1>15. Backs(m', m) /\ (Listed(m, h) => h \in m'.vouched)
  <2>1. Backs(m', m)
    BY <1>3, <1>4, <1>14, BacksChain
  <2>2. s.vouched \subseteq m'.vouched
    BY <1>14 DEF Backs
  <2> QED
    BY <1>3, <1>5, <2>1, <2>2
<1> HIDE DEF h
<1> QED
  BY <1>1, <1>2, <1>15, TakenSays

LEMMA RejectedTxSays ==
  ASSUME ListInv, NEW p \in Peers, NEW h \in Txs, NEW code, RejectedTx(p, h, code)
  PROVE  Evident
<1> DEFINE r == Unrequest(m, h, p)
           R == [r.relays EXCEPT ![h] = @ \ {p}]
           s == [r EXCEPT !.relays = R]
           t == IF code = "invalid" /\ s.relays[h] = {} THEN AnswerEntry(s, h, "EINVAL") ELSE s
           counted == /\ code = "invalid" /\ (Held(m, h) \/ Listed(m, h))
                      /\ Cardinality(m.rejects[h]) < MaxRejects
           J == [t.rejects EXCEPT ![h] = @ \cup {p}]
<1>1. m' = t \/ m' = [t EXCEPT !.rejects = J]
  <2>1. m' = IF counted THEN [t EXCEPT !.rejects = J] ELSE t
    BY Zenon DEF RejectedTx
  <2> HIDE DEF counted, t
  <2> QED
    BY <2>1
<1>2. Then(p, <<>>) /\ UNCHANGED answers /\ p \in Threads
  BY DEF RejectedTx, Threads
<1>3. Backs(r, m) /\ r.listed = m.listed
  <2>1. Backs(r, m)
    BY KindlyM, Backing
  <2>2. r.listed = m.listed
    BY KindlyM DEF Kindly, Unrequest
  <2> QED
    BY <2>1, <2>2
<1> HIDE DEF r, R
<1>4. Backs(s, r) /\ s.listed = r.listed
  <2>1. Backs(s, r)
    BY <1>3, BacksKind, Backing
  <2>2. s.listed = r.listed
    BY <1>3 DEF Backs, Kindly
  <2> QED
    BY <2>1, <2>2
<1> HIDE DEF s
<1>5. EntriesOf(s, h) = EntriesOf(m, h)
  BY <1>3, <1>4 DEF EntriesOf
<1>6. IsFiniteSet(EntriesOf(s, h)) /\ EntriesOf(s, h) \subseteq PubEntry
  BY <1>5, KindlyM
<1>7. Backs(AnswerEntry(s, h, "EINVAL"), s) /\ Backs(s, s)
  BY <1>4, <1>6, BacksKind, AnswerBacks, Backing DEF Verdicts
<1>8. Backs(t, s)
  BY <1>7
<1> HIDE DEF t, J
<1>9. Backs([t EXCEPT !.rejects = J], t) /\ Backs(t, t)
  BY <1>8, BacksKind, Backing
<1>10. Backs(m', t)
  BY <1>1, <1>9
<1>11. Backs(m', m)
  BY <1>3, <1>4, <1>8, <1>10, BacksChain
<1> QED
  BY <1>2, <1>11, NothingTaken

LEMMA MessagesSay ==
  ASSUME ListInv, OneSend, EvidenceStays, NoneStems(m), NEW p \in Peers, MessageStep(p)
  PROVE  Evident
<1>0. Kindly(m) /\ Backs(m, m) /\ p \in Threads
  BY KindlyM, Backing DEF Threads
<1>1. ASSUME NEW h \in Txs, InvNew(p, h) PROVE Evident
  BY <1>0, <1>1, Silence DEF InvNew
<1>2. ASSUME NEW h \in Txs, DataNotfound(p, h) PROVE Evident
  <2> DEFINE r == Unrequest(m, h, p)
             R == [r.relays EXCEPT ![h] = @ \ {p}]
  <2>1. m' = [r EXCEPT !.relays = R] /\ UNCHANGED <<hand, answers>>
    BY <1>2 DEF DataNotfound
  <2>2. Backs(r, m)
    BY <1>0, Backing
  <2> HIDE DEF r, R
  <2>3. Backs(m', r)
    BY <2>1, <2>2, BacksKind, Backing
  <2>4. Backs(m', m)
    BY <2>2, <2>3, BacksChain
  <2> QED
    BY <2>1, <2>4, Silence
<1>3. ASSUME NEW h \in Txs, Confirm(p, h) PROVE FALSE
  BY <1>3 DEF Confirm, Running, EvidenceStays
<1>4. ASSUME NEW h \in Txs, Conflict(p, h) PROVE Evident
  <2> DEFINE I == m.invalid \cup {h}
  <2>1. m' = [m EXCEPT !.invalid = I] /\ UNCHANGED <<hand, answers>>
    BY <1>4 DEF Conflict
  <2> HIDE DEF I
  <2>2. Backs(m', m)
    BY <1>0, <2>1, Backing
  <2> QED
    BY <2>1, <2>2, Silence
<1>5. ASSUME Reorg(p) PROVE Evident
  <2>1. m' = [m EXCEPT !.mined = {}] /\ UNCHANGED <<hand, answers>>
    BY <1>5 DEF Reorg
  <2>2. Backs(m', m)
    BY <1>0, <2>1, Backing
  <2> QED
    BY <2>1, <2>2, Silence
<1>6. ASSUME NEW endsSync \in BOOLEAN, Pong(p, endsSync) PROVE Evident
  <2> DEFINE R == [h \in Txs |-> IF h \in ToAsk(m, p) THEN m.requests[h] \cup {p} ELSE m.requests[h]]
  <2>1. m' = [m EXCEPT !.requests = R] /\ UNCHANGED <<hand, answers>>
    BY <1>6 DEF Pong
  <2> HIDE DEF R
  <2>2. Backs(m', m)
    BY <1>0, <2>1, Backing
  <2> QED
    BY <2>1, <2>2, Silence
<1>7. ASSUME NEW success \in BOOLEAN, NEW atTip \in BOOLEAN, UnrelayedDone(p, success, atTip) PROVE Evident
  <2> DEFINE H == Unrelayed(m)
  <2>1. (m' = m \/ m' = RemoveAndPurge(m, H)) /\ Then(p, <<>>) /\ UNCHANGED answers
    BY <1>7 DEF UnrelayedDone
  <2> HIDE DEF H
  <2>2. Backs(RemoveAndPurge(m, H), m)
    BY PurgeBacks DEF ListInv
  <2>3. Backs(m', m)
    BY <1>0, <2>1, <2>2
  <2> QED
    BY <1>0, <2>1, <2>3, NothingTaken
<1>8. ASSUME CaughtUp(p) PROVE Evident
  BY <1>0, <1>8, Silence DEF CaughtUp
<1> QED
  BY <1>1, <1>2, <1>3, <1>4, <1>5, <1>6, <1>7, <1>8, HasTxSays, RequestedTxSays, RelayedTxSays,
     RejectedTxSays, Zenon DEF MessageStep

LEMMA LinksSay ==
  ASSUME ListInv, NEW p \in Peers, LinkStep(p)
  PROVE  Evident
<1>0. Kindly(m) /\ Backs(m, m) /\ p \in Threads
  BY KindlyM, Backing DEF Threads
<1>1. ASSUME NEW error, NEW next, Disconnected(p, error, next) PROVE Evident
  <2> DEFINE R == [h \in Txs |-> m.relays[h] \ {p}]
             s == [m EXCEPT !.relays = R]
             E == {e \in s.listed : e.call # None}
  <2>1. /\ m' = Cancelled(s, "ENOTCONN") \/ m' = Cancelled(s, "ETIMEDOUT") \/ m' = s
        /\ Then(p, <<>>) /\ UNCHANGED answers
    BY <1>1 DEF Disconnected
  <2>2. Backs(s, m) /\ s.listed = m.listed
    <3> HIDE DEF R
    <3>1. Backs(s, m)
      BY <1>0, Backing
    <3>2. s.listed = m.listed
      BY <1>0 DEF Kindly
    <3> QED
      BY <3>1, <3>2
  <2> HIDE DEF s
  <2>3. E \subseteq m.listed /\ IsFiniteSet(m.listed) /\ m.listed \subseteq PubEntry
    BY <2>2, ListFinite DEF ListInv, Good, Tables
  <2>4. IsFiniteSet(E) /\ E \subseteq PubEntry
    BY <2>3, FS_Subset
  <2>5. \A x \in {"ENOTCONN", "ETIMEDOUT"} : Cancelled(s, x) = DropEntries(s, E, x)
    BY DEF Cancelled
  <2> HIDE DEF E
  <2>6. \A x \in {"ENOTCONN", "ETIMEDOUT"} : Backs(DropEntries(s, E, x), s)
    BY <2>2, <2>4, BacksKind, DropBacks DEF Verdicts
  <2>7. Backs(m', m)
    BY <2>1, <2>2, <2>5, <2>6, BacksChain
  <2> QED
    BY <1>0, <2>1, <2>7, NothingTaken
<1>2. ASSUME LastThreadOut(p) PROVE Evident
  BY <1>0, <1>2, FreeSays DEF LastThreadOut
<1>3. ASSUME UNCHANGED <<m, hand, answers>> PROVE Evident
  BY <1>0, <1>3, Silence
<1>4. ASSUME NEW x, Dial(p, x) \/ Unusable(p) \/ Join(p, x) PROVE Evident
  BY <1>3, <1>4 DEF Dial, Unusable, Join
<1>5. ASSUME NEW q, NEW x, Lead(p, q, x) PROVE Evident
  BY <1>3, <1>5 DEF Lead
<1> QED
  BY <1>1, <1>2, <1>4, <1>5, Zenon DEF LinkStep

(* What is delivered was in a hand, and what a hand takes was queued.      *)
LEMMA DeliveriesSay ==
  ASSUME ListInv, NEW t \in Threads, Deliver(t) \/ FlushAnswers(t)
  PROVE  Evident
<1>0. Kindly(m) /\ Backs(m, m) /\ hand \in HandType /\ answers \in [Calls -> Seq(Verdicts)]
  BY KindlyM, Backing DEF ListInv, Others, HandType
<1>1. CASE Deliver(t)
  <2> DEFINE q == hand[t].calls
             a == Head(q)
  <2>1. q # <<>> /\ q \in Seq(Answer)
    BY <1>0, <1>1 DEF Deliver, HandType
  <2>2. /\ answers' = [answers EXCEPT ![a.call] = Append(@, a.error)]
        /\ hand' = [hand EXCEPT ![t].calls = Tail(@)] /\ m' = m
    BY <1>1 DEF Deliver
  <2>3. /\ hand'[t].calls = Tail(q) /\ \A u \in Threads \ {t} : hand'[u].calls = hand[u].calls
    BY <1>0, <2>2 DEF HandType
  <2> HIDE DEF q
  <2>4. a \in Answer /\ (a.error = "OK" => Approves(q))
    <3>1. a = q[1] /\ 1 \in DOMAIN q /\ a \in Answer
      BY <2>1
    <3> HIDE DEF a
    <3> QED
      BY <3>1 DEF Approves
  <2>5. Approves(Tail(q)) => Approves(q)
    <3>1. Tail(q) \in Seq(Answer) /\ \A i \in DOMAIN Tail(q) : i + 1 \in DOMAIN q /\ Tail(q)[i] = q[i + 1]
      BY <2>1
    <3> QED
      BY <3>1 DEF Approves
  <2> HIDE DEF a
  <2>6. ASSUME NEW c \in Calls, NEW i \in DOMAIN answers'[c], answers'[c][i] = "OK"
        PROVE  Approves(q) \/ \E j \in DOMAIN answers[c] : answers[c][j] = "OK"
    <3>1. CASE c # a.call
      <4>1. answers'[c] = answers[c]
        BY <1>0, <2>2, <3>1
      <4> QED
        BY <2>6, <4>1
    <3>2. CASE c = a.call
      <4> DEFINE s == answers[c]
      <4>1. answers'[c] = Append(s, a.error) /\ s \in Seq(Verdicts) /\ a.error \in Verdicts
        BY <1>0, <2>2, <2>4, <3>2 DEF Answer
      <4> HIDE DEF s
      <4>2. (i \in DOMAIN s /\ answers'[c][i] = s[i]) \/ answers'[c][i] = a.error
        BY <2>6, <4>1
      <4> QED
        BY <2>4, <2>6, <4>2 DEF s
    <3> QED
      BY <3>1, <3>2
  <2>7. Approves(q) => Said
    BY DEF Said, q
  <2>8. Said' => Said
    <3>1. (Approves(m.queue))' => Said
      BY <2>2 DEF Said
    <3>2. ASSUME NEW u \in Threads, Approves(hand'[u].calls) PROVE Said
      <4>1. CASE u = t
        BY <2>3, <2>5, <2>7, <3>2, <4>1
      <4>2. CASE u # t
        <5>1. Approves(hand[u].calls)
          BY <2>3, <3>2, <4>2
        <5> QED
          BY <5>1 DEF Said
      <4> QED
        BY <4>1, <4>2
    <3>3. ASSUME NEW c \in Calls, NEW i \in DOMAIN answers'[c], answers'[c][i] = "OK" PROVE Said
      <4>1. Approves(q) \/ \E j \in DOMAIN answers[c] : answers[c][j] = "OK"
        BY <2>6, <3>3
      <4> QED
        BY <2>7, <4>1 DEF Said
    <3> QED
      BY <3>1, <3>2, <3>3, Zenon DEF Said
  <2> QED
    BY <1>0, <2>2, <2>8 DEF Evident
<1>2. CASE FlushAnswers(t)
  <2> DEFINE r == [calls |-> m.queue, flush |-> FALSE]
  <2>1. hand' = [hand EXCEPT ![t] = r] /\ m' = [m EXCEPT !.queue = <<>>] /\ UNCHANGED answers
    BY <1>2 DEF FlushAnswers
  <2>2. r.calls = m.queue
    OBVIOUS
  <2> HIDE DEF r
  <2>3. Backs(m', m)
    <3>1. Kindly(m') /\ m'.listed = m.listed /\ m'.queue = <<>> /\ m'.vouched = m.vouched
      BY <1>0, <2>1 DEF Kindly
    <3>2. m'.queue \in Seq(Answer) /\ ~ Approves(m'.queue)
      BY <3>1 DEF Approves
    <3> QED
      BY <3>1, <3>2 DEF Backs, NoneStems
  <2>4. Approves(r.calls) => Approves(m.queue)
    BY <2>2
  <2> QED
    BY <2>1, <2>3, <2>4, ThenSays
<1> QED
  BY <1>1, <1>2

(* What was, or is about to be, answered as taken stays vouched for.       *)
LEMMA VouchedStep ==
  ASSUME ListInv, OneSend, EvidenceStays, Vouched, [Next]_vars
  PROVE  Vouched'
<1>1. NoneStems(m) /\ (Said => Txs \subseteq m.vouched)
  BY DEF Vouched
<1>2. ASSUME UNCHANGED vars PROVE Evident
  <2>1. Backs(m, m)
    BY KindlyM, Backing
  <2> QED
    BY <1>2, <2>1, Silence DEF vars
<1>3. Evident
  BY <1>1, <1>2, AppSays, MessagesSay, LinksSay, DeliveriesSay, Zenon DEF Next
<1>4. m.vouched \subseteq m'.vouched /\ NoneStems(m')
  BY <1>1, <1>3 DEF Evident, Backs
<1> QED
  BY <1>1, <1>3, <1>4 DEF Vouched, Evident

----------------------------------------------------------------------------
(* Theorems *)

(* Every variable keeps its type, whatever threads and peers interleave.   *)
THEOREM TypeCorrect == Spec => []TypeOK
<1>1. ListInv => TypeOK
  BY DEF ListInv, Good, Tables, Others, TypeOK
<1> QED
  BY <1>1, ListInvariant, PTL

(* BRPeerManagerPublishTx and its stem variant: a callback that was passed *)
(* is at every moment in exactly one place -- listed, in pendingAnswers,   *)
(* taken by a thread, in the publish that gave the lock up, or called --   *)
(* so no interleaving of handlers, departures, removals and of             *)
(* BRPeerManagerFree loses it or calls it twice.                           *)
THEOREM CallbacksAreAnsweredOnce == Spec => []AnsweredOnce
  BY ListInvariant, PTL

(* Each live transaction object is released by exactly one of the publish  *)
(* list, the wallet and the publish in progress, and a released one by     *)
(* none, in a wallet where no send spends a receive that itself builds on  *)
(* another receive.                                                        *)
THEOREM EveryObjectHasOneOwner ==
  ASSUME SendsBuildOnLoneReceives
  PROVE  Spec => []OneOwner
<1>1. ListInv /\ AnsweredOnce /\ Owned(m, InWindow) => OneOwner
  BY OwnersAreOne DEF ListInv
<1> QED
  BY <1>1, OwnedInvariant, PTL

(* No entry of publishedTx points at an object that was released, under    *)
(* the same condition.                                                     *)
THEOREM EntriesPointAtLiveObjects ==
  ASSUME SendsBuildOnLoneReceives
  PROVE  Spec => []NoStaleEntry
<1>1. ListInv /\ AnsweredOnce /\ Owned(m, InWindow) => NoStaleEntry
  BY DEF ListInv, Good, Filed, Owned, NoStaleEntry
<1> QED
  BY <1>1, OwnedInvariant, PTL

(* A record the wallet lets go of, whether a block confirmed a stranger's  *)
(* transaction, the user removed one or the sweep at the tip did, along    *)
(* with everything that was built on it, is named by no entry afterwards.  *)
THEOREM DiscardedRecordsAreUnlisted == Spec => NothingDiscardedStaysListed
<1>1. ListInv /\ [Next]_vars
      => [\A h \in Txs : Held(m, h) /\ ~ Held(m', h) => ~ Listed(m', h)]_vars
  BY LettingGo DEF ListInv
<1> QED
  BY <1>1, ListInvariant, PTL DEF Spec, NothingDiscardedStaysListed

(* A send of the wallet leaves it in no step but the user's removal of a   *)
(* transaction, in a wallet where no send spends a receive that itself     *)
(* builds on another receive.                                              *)
THEOREM SendsOutliveTheSweep ==
  ASSUME SendsBuildOnLoneReceives
  PROVE  Spec => OnlyTheUserRemovesASend
<1>1. ListInv /\ [Next]_vars
      => [\A h \in Sends : Held(m, h) /\ ~ Held(m', h) => \E g \in Txs : RemoveTransaction(g)]_vars
  <2> SUFFICES ASSUME ListInv, [Next]_vars, NEW h \in Sends, Held(m, h), ~ Held(m', h)
               PROVE  \E g \in Txs : RemoveTransaction(g)
    OBVIOUS
  <2>1. h \in Ours /\ h \in Txs
    BY PublishAssumption
  <2> DEFINE H == Unrelayed(m)
  <2>2. H \in SUBSET Unrelayed(m)
    OBVIOUS
  <2> HIDE DEF H
  <2>3. Gone(m, H) \cap Sends = {}
    BY <2>2, SweepSparesSends
  <2>4. h \notin Gone(m, Unrelayed(m))
    BY <2>3 DEF H
  <2> QED
    BY <2>1, <2>4, LettingGo DEF ListInv
<1> QED
  BY <1>1, ListInvariant, PTL DEF Spec, OnlyTheUserRemovesASend

(* While a transaction stems, no step tells a peer other than its stem     *)
(* peer of it nor asks such a peer for it: neither the announcements of    *)
(* publishes, syncs, new connections and new download peers, nor the       *)
(* request for unrelayed transactions.                                     *)
THEOREM StemsArePrivate == Spec => StemStaysPrivate
<1>1. ListInv /\ [Next]_vars
      => [\A p \in Peers, h \in Txs :
            \/ net'[p].known[h] = "told" /\ net[p].known[h] # "told"
            \/ p \in m'.requests[h] \ m.requests[h]
            => ~ HidesFrom(m', h, p) /\ (HidesFrom(m, h, p) => Listed(m', h))]_vars
  <2> SUFFICES ASSUME ListInv, [Next]_vars, NEW p \in Peers, NEW h \in Txs,
                      \/ net'[p].known[h] = "told" /\ net[p].known[h] # "told"
                      \/ p \in m'.requests[h] \ m.requests[h]
               PROVE  ~ HidesFrom(m', h, p) /\ (HidesFrom(m, h, p) => Listed(m', h))
    OBVIOUS
  <2>1. CASE net'[p].known[h] = "told" /\ net[p].known[h] # "told"
    BY <2>1, StepsTell DEF Discreet
  <2>2. CASE p \in m'.requests[h] \ m.requests[h]
    BY <2>2, StepsAsk DEF HidesFrom, EntriesOf
  <2> QED
    BY <2>1, <2>2
<1> QED
  BY <1>1, ListInvariant, PTL DEF Spec, StemStaysPrivate

(* A send whose publish was answered as taken is not reported refused by   *)
(* BRPeerManagerTxRefusedByNetwork afterwards, whatever peers reject it,   *)
(* leave or forget: where the wallet has one transaction and nothing ends  *)
(* the evidence.                                                           *)
THEOREM WhatWasTakenIsNotRefused ==
  ASSUME OneSend, EvidenceStays
  PROVE  Spec => []TakenIsNeverRefused
<1>1. Init => Vouched
  <2> SUFFICES ASSUME Init PROVE Vouched
    OBVIOUS
  <2>1. m.listed = {} /\ m.queue = <<>>
    BY DEF Init
  <2>2. \A t \in Threads : hand[t].calls = <<>>
    BY DEF Init
  <2>3. \A c \in Calls : answers[c] = <<>>
    BY DEF Init
  <2> QED
    BY <2>1, <2>2, <2>3 DEF Vouched, NoneStems, Said, Approves
<1>2. ListInv /\ Vouched /\ [Next]_vars => Vouched'
  BY VouchedStep
<1>3. ListInv /\ Vouched => TakenIsNeverRefused
  <2> SUFFICES ASSUME ListInv, Vouched, NEW c \in Calls, NEW h \in Txs, "OK" \in ToSet(answers[c])
               PROVE  h \in m.vouched
    BY DEF TakenIsNeverRefused, TxRefusedByNetwork
  <2>1. \E i \in DOMAIN answers[c] : answers[c][i] = "OK"
    BY DEF ToSet
  <2> QED
    BY <2>1 DEF Vouched, Said
<1> QED
  BY <1>1, <1>2, <1>3, ListInvariant, PTL DEF Spec

=============================================================================
