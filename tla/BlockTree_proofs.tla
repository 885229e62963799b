--------------------------- MODULE BlockTree_proofs ---------------------------
(***************************************************************************)
(* What holds of the headers of BRPeerManager.c for every tree of headers, *)
(* every size of the sets and every number of threads.                     *)
(***************************************************************************)
EXTENDS BlockTree, FiniteSetTheorems, SequenceTheorems, WellFoundedInduction, TLAPS

----------------------------------------------------------------------------
(* Numbers, and functions that iterate a step. *)

LEMMA Least ==
  ASSUME NEW T, T \subseteq Nat, T # {}
  PROVE  \E x \in T : \A y \in T : x <= y
<1> DEFINE R == OpToRel(<, Nat)
<1>1. IsWellFoundedOn(R, Nat)
  BY NatLessThanWellFounded
<1>2. \A a, b \in Nat : a < b => <<a, b>> \in R
  BY DEF OpToRel
<1> HIDE DEF R
<1>3. PICK x \in T : \A y \in T : ~ (<<y, x>> \in R)
  BY <1>1, WFMin
<1>4. \A y \in T : ~ (y < x)
  BY <1>2, <1>3
<1> QED
  BY <1>4

(* f has the values that M steps from a pass through.                      *)
Iteration(f, S, a, step, M) ==
    f \in [0..M -> S] /\ f[0] = a /\ \A n \in 1..M : f[n] = step[f[n - 1]]

LEMMA Iterates ==
  ASSUME NEW S, NEW a \in S, NEW step \in [S -> S], NEW M \in Nat
  PROVE  \E f : Iteration(f, S, a, step, M)
<1> DEFINE Upto(k, f) == f \in [0..k -> S] /\ f[0] = a /\ \A n \in 1..k : f[n] = step[f[n - 1]]
           T == {k \in Nat : ~ \E f : Upto(k, f)}
<1>1. SUFFICES ASSUME T # {} PROVE FALSE
  BY DEF T, Upto, Iteration
<1>2. PICK k \in T : \A j \in T : k <= j
  BY <1>1, Least
<1>3. Upto(0, [n \in 0..0 |-> a])
  OBVIOUS
<1>4. k # 0
  <2> HIDE DEF Upto
  <2>1. 0 \notin T
    BY <1>3
  <2> QED
    BY <1>2, <2>1
<1>5. PICK g : Upto(k - 1, g)
  <2>1. k - 1 \in Nat /\ ~ (k <= k - 1)
    BY <1>2, <1>4
  <2>2. k - 1 \notin T
    BY <1>2, <2>1
  <2> QED
    BY <2>1, <2>2
<1> DEFINE f == [n \in 0..k |-> IF n = k THEN step[g[k - 1]] ELSE g[n]]
<1>6. f \in [0..k -> S] /\ f[0] = a
  BY <1>2, <1>4, <1>5
<1>7. ASSUME NEW n \in 1..k PROVE f[n] = step[f[n - 1]]
  <2>1. CASE n = k
    BY <1>2, <1>4, <2>1
  <2>2. CASE n # k
    <3>1. n \in 1..(k - 1) /\ n - 1 \in 0..(k - 1) /\ n \in 0..k /\ n - 1 \in 0..k /\ n - 1 # k
      BY <1>2, <2>2
    <3>2. f[n] = g[n] /\ f[n - 1] = g[n - 1]
      BY <2>2, <3>1
    <3> QED
      BY <1>5, <3>1, <3>2
  <2> QED
    BY <2>1, <2>2
<1>8. Upto(k, f)
  BY <1>6, <1>7
<1> QED
  BY <1>2, <1>8

(* The heights of the headers have a highest one.                          *)
LEMMA MaxHeightIsMax ==
  MaxHeight \in Nat /\ \A h \in Hashes : HeightOf[h] \in 0..MaxHeight
<1> DEFINE Bounds(H, n) == \A h \in H : HeightOf[h] <= n
           T == {k \in Nat : \E H \in SUBSET Hashes : Cardinality(H) = k /\ ~ \E n \in Nat : Bounds(H, n)}
<1>1. T = {}
  <2>1. SUFFICES ASSUME T # {} PROVE FALSE
    OBVIOUS
  <2>2. PICK k \in T : \A j \in T : k <= j
    BY <2>1, Least
  <2>3. PICK H \in SUBSET Hashes : Cardinality(H) = k /\ ~ \E n \in Nat : Bounds(H, n)
    BY <2>2
  <2>4. IsFiniteSet(H)
    BY HeadersLink, FS_Subset
  <2>5. H # {}
    BY <2>3
  <2>6. PICK h \in H : TRUE
    BY <2>5
  <2>7. Cardinality(H \ {h}) = k - 1 /\ k \in Nat /\ k - 1 \in Nat
    BY <2>2, <2>3, <2>4, <2>5, <2>6, FS_RemoveElement, FS_EmptySet, FS_CardinalityType
  <2>8. k - 1 \notin T
    BY <2>2, <2>7
  <2>9. PICK n \in Nat : Bounds(H \ {h}, n)
    BY <2>7, <2>8
  <2>10. HeightOf[h] \in Nat /\ \A i \in H : HeightOf[i] \in Nat
    BY HeadersLink
  <2>11. Bounds(H, n + HeightOf[h])
    <3> SUFFICES ASSUME NEW i \in H PROVE HeightOf[i] <= n + HeightOf[h]
      OBVIOUS
    <3>1. i = h \/ HeightOf[i] <= n
      BY <2>9
    <3> QED
      BY <3>1, <2>10
  <2> QED
    BY <2>3, <2>10, <2>11
<1>2. IsFiniteSet(Hashes) /\ Cardinality(Hashes) \in Nat
  BY HeadersLink, FS_CardinalityType
<1>3. PICK b0 \in Nat : Bounds(Hashes, b0)
  BY <1>1, <1>2
<1> DEFINE B == {n \in Nat : Bounds(Hashes, n)}
<1>4. PICK b \in B : \A n \in B : b <= n
  BY <1>3, Least
<1>5. \A h \in Hashes : HeightOf[h] \in Nat
  BY HeadersLink
<1>6. \E h \in Hashes : HeightOf[h] = b
  <2>1. SUFFICES ASSUME \A h \in Hashes : HeightOf[h] # b PROVE FALSE
    OBVIOUS
  <2>2. Birth \in Hashes
    BY HeadersLink
  <2>3. b # 0
    BY <1>4, <1>5, <2>1, <2>2
  <2>4. b - 1 \in Nat /\ Bounds(Hashes, b - 1)
    BY <1>4, <1>5, <2>1, <2>3
  <2> QED
    BY <1>4, <2>4
<1>7. b \in {HeightOf[h] : h \in Hashes} /\ \A h \in Hashes : HeightOf[h] <= b
  BY <1>4, <1>6
<1> DEFINE Top(n) == n \in {HeightOf[h] : h \in Hashes} /\ \A h \in Hashes : HeightOf[h] <= n
<1>8. Top(MaxHeight)
  BY <1>7 DEF MaxHeight
<1> QED
  BY <1>5, <1>8

----------------------------------------------------------------------------
(* Walks down the chain. *)

Object == [hash : Hashes, copy : Nat]
Slots  == [Hashes -> Object \cup {None}]

(* What a walk goes to from x.                                             *)
Parent(s, x) == IF x = None \/ PrevOf(x) = None THEN None ELSE s.blocks[PrevOf(x)]

LEMMA ObjectFields ==
  /\ None \notin Object
  /\ \A o \in Object : o.hash \in Hashes /\ o.copy \in Nat /\ Height(o) \in 0..MaxHeight
  /\ \A o \in Object : PrevOf(o) # None =>
        PrevOf(o) = Prev[o.hash] /\ o.copy # 0 /\ PrevOf(o) \in Hashes
        /\ Height(o) = HeightOf[PrevOf(o)] + 1
<1>1. \A o \in Object : o.hash \in Hashes /\ o.copy \in Nat
  BY DEF Object
<1>2. None \notin Object
  BY HeadersLink DEF Object
<1>3. \A h \in Hashes : Prev[h] # None => Prev[h] \in Hashes /\ HeightOf[h] = HeightOf[Prev[h]] + 1
  BY HeadersLink
<1> QED
  BY <1>1, <1>2, <1>3, MaxHeightIsMax DEF Height, PrevOf

LEMMA BlocksMembers ==
  ASSUME NEW s, s.blocks \in Slots
  PROVE  /\ \A h \in Hashes : s.blocks[h] # None => s.blocks[h] \in InBlocks(s)
         /\ \A o \in InBlocks(s) : o \in Object /\ \E h \in Hashes : s.blocks[h] = o
         /\ \A o \in InBlocks(s) \cup {None} : Parent(s, o) \in InBlocks(s) \cup {None}
<1>1. /\ \A h \in Hashes : s.blocks[h] # None => s.blocks[h] \in InBlocks(s)
      /\ \A o \in InBlocks(s) : o \in Object /\ \E h \in Hashes : s.blocks[h] = o
  BY DEF InBlocks, Slots
<1> QED
  BY <1>1, ObjectFields DEF Parent

(* A walk from a resident header passes resident headers, parent by        *)
(* parent, until there is none.                                            *)
LEMMA WalkSteps ==
  ASSUME NEW s, s.blocks \in Slots, NEW o \in InBlocks(s)
  PROVE  /\ Walk(s, o) \in [0..MaxHeight -> InBlocks(s) \cup {None}]
         /\ Walk(s, o)[0] = o
         /\ \A n \in 1..MaxHeight : Walk(s, o)[n] = Parent(s, Walk(s, o)[n - 1])
<1> DEFINE S == InBlocks(s) \cup {None}
           step == [x \in S |-> Parent(s, x)]
           Steps(g) == g = [n \in 0..MaxHeight |->
                              IF n = 0 THEN o
                              ELSE IF g[n - 1] = None \/ PrevOf(g[n - 1]) = None THEN None
                              ELSE s.blocks[PrevOf(g[n - 1])]]
<1>1. step \in [S -> S] /\ MaxHeight \in Nat /\ o \in S
  BY BlocksMembers, MaxHeightIsMax
<1>2. \A x \in S : step[x] = Parent(s, x)
  OBVIOUS
<1> HIDE DEF step, S
<1>3. PICK f \in [0..MaxHeight -> S] : f[0] = o /\ \A n \in 1..MaxHeight : f[n] = step[f[n - 1]]
  <2>1. \E f : Iteration(f, S, o, step, MaxHeight)
    BY <1>1, Iterates
  <2> QED
    BY <2>1 DEF Iteration
<1>4. \A n \in 1..MaxHeight : n - 1 \in 0..MaxHeight
  BY <1>1
<1>5. \A n \in 1..MaxHeight : f[n] = Parent(s, f[n - 1])
  BY <1>2, <1>3, <1>4
<1>6. Steps(f)
  <2> DEFINE g == [n \in 0..MaxHeight |->
                      IF n = 0 THEN o
                      ELSE IF f[n - 1] = None \/ PrevOf(f[n - 1]) = None THEN None
                      ELSE s.blocks[PrevOf(f[n - 1])]]
  <2>1. \A n \in 0..MaxHeight : f[n] = g[n]
    <3> SUFFICES ASSUME NEW n \in 0..MaxHeight PROVE f[n] = g[n]
      OBVIOUS
    <3>1. CASE n = 0
      BY <1>3, <3>1
    <3>2. CASE n # 0
      <4>1. n \in 1..MaxHeight
        BY <1>1, <3>2
      <4> QED
        BY <1>5, <3>2, <4>1 DEF Parent
    <3> QED
      BY <3>1, <3>2
  <2> QED
    BY <1>3, <2>1
<1> DEFINE w == Walk(s, o)
<1>7. w = CHOOSE g : Steps(g)
  BY DEF Walk
<1>8. Steps(w)
  <2> HIDE DEF Steps, w
  <2> QED
    BY <1>6, <1>7
<1>9. /\ w[0] = o
      /\ \A n \in 1..MaxHeight : w[n] = Parent(s, w[n - 1])
      /\ w = [n \in 0..MaxHeight |-> w[n]]
  <2> HIDE DEF w
  <2>1. 0 \in 0..MaxHeight /\ \A n \in 1..MaxHeight : n \in 0..MaxHeight /\ n # 0
    BY <1>1
  <2> QED
    BY <1>8, <2>1 DEF Parent
<1> HIDE DEF w
<1>10. \A n \in 0..MaxHeight : w[n] = f[n]
  <2> DEFINE T == {n \in 0..MaxHeight : w[n] # f[n]}
  <2>1. SUFFICES ASSUME T # {} PROVE FALSE
    OBVIOUS
  <2>2. T \subseteq Nat
    BY <1>1
  <2>3. PICK n \in T : \A j \in T : n <= j
    BY <2>1, <2>2, Least
  <2>4. n \in 1..MaxHeight /\ n - 1 \in 0..MaxHeight /\ ~ (n <= n - 1)
    BY <1>1, <1>3, <1>9, <2>3
  <2>5. w[n - 1] = f[n - 1]
    BY <2>3, <2>4
  <2> QED
    BY <1>5, <1>9, <2>3, <2>4, <2>5
<1>11. w \in [0..MaxHeight -> S]
  BY <1>3, <1>9, <1>10
<1> QED
  BY <1>9, <1>11 DEF w, S

(* Every resident header is filed under its hash, and a stub is one of a   *)
(* checkpoint.                                                             *)
BlocksKeyed(s) ==
    /\ s.blocks \in Slots
    /\ \A h \in Hashes : s.blocks[h] # None =>
          s.blocks[h].hash = h /\ (s.blocks[h].copy = 0 => h \in Checkpoints)

Path(s, o) == {Walk(s, o)[n] : n \in 0..MaxHeight} \ {None}

LEMMA KeyedMembers ==
  ASSUME NEW s, BlocksKeyed(s), NEW o \in InBlocks(s)
  PROVE  /\ o \in Object /\ o # None /\ s.blocks[o.hash] = o /\ (o.copy = 0 => o.hash \in Checkpoints)
         /\ Parent(s, o) # None => Parent(s, o) \in InBlocks(s) /\ Height(o) = Height(Parent(s, o)) + 1
<1>1. s.blocks \in Slots
  BY DEF BlocksKeyed
<1>2. o \in Object /\ o # None /\ s.blocks[o.hash] = o /\ (o.copy = 0 => o.hash \in Checkpoints)
  BY <1>1, BlocksMembers, ObjectFields DEF BlocksKeyed
<1>3. ASSUME Parent(s, o) # None
      PROVE  Parent(s, o) \in InBlocks(s) /\ Height(o) = Height(Parent(s, o)) + 1
  <2>1. PrevOf(o) # None /\ Parent(s, o) = s.blocks[PrevOf(o)]
    BY <1>3 DEF Parent
  <2>2. PrevOf(o) \in Hashes /\ Height(o) = HeightOf[PrevOf(o)] + 1
    BY <1>2, <2>1, ObjectFields
  <2>3. s.blocks[PrevOf(o)].hash = PrevOf(o)
    BY <1>3, <2>1, <2>2 DEF BlocksKeyed
  <2> QED
    BY <1>1, <1>3, <2>1, <2>2, <2>3, BlocksMembers DEF Height
<1> QED
  BY <1>2, <1>3

(* Each step of a walk is one lower.                                       *)
LEMMA WalkHeights ==
  ASSUME NEW s, BlocksKeyed(s), NEW o \in InBlocks(s)
  PROVE  \A n \in 0..MaxHeight : Walk(s, o)[n] # None => Height(Walk(s, o)[n]) = Height(o) - n
<1> DEFINE w == Walk(s, o)
           T == {n \in 0..MaxHeight : w[n] # None /\ Height(w[n]) # Height(o) - n}
<1>1. SUFFICES ASSUME T # {} PROVE FALSE
  OBVIOUS
<1>2. MaxHeight \in Nat /\ s.blocks \in Slots /\ T \subseteq Nat
  BY MaxHeightIsMax DEF BlocksKeyed
<1>3. /\ w \in [0..MaxHeight -> InBlocks(s) \cup {None}] /\ w[0] = o
      /\ \A n \in 1..MaxHeight : w[n] = Parent(s, w[n - 1])
  BY <1>2, WalkSteps
<1> HIDE DEF w
<1>4. PICK n \in T : \A j \in T : n <= j
  BY <1>1, <1>2, Least
<1>5. o \in Object /\ Height(o) \in Nat
  BY KeyedMembers, ObjectFields
<1>6. n # 0
  BY <1>3, <1>4, <1>5
<1>7. n \in 1..MaxHeight /\ n - 1 \in 0..MaxHeight /\ ~ (n <= n - 1) /\ n \in Nat
  BY <1>2, <1>4, <1>6
<1>8. w[n] = Parent(s, w[n - 1]) /\ w[n] # None
  BY <1>3, <1>4, <1>7
<1>9. w[n - 1] \in InBlocks(s)
  BY <1>3, <1>7, <1>8 DEF Parent
<1>10. Height(w[n - 1]) = Height(o) - (n - 1)
  BY <1>4, <1>7, <1>9, KeyedMembers
<1>11. Height(w[n - 1]) = Height(w[n]) + 1 /\ w[n] \in InBlocks(s)
  BY <1>8, <1>9, KeyedMembers
<1>12. w[n] \in Object /\ Height(w[n]) \in Nat
  BY <1>11, KeyedMembers, ObjectFields
<1> QED
  BY <1>4, <1>5, <1>7, <1>10, <1>11, <1>12

(* A walk covers resident headers, goes on as long as there is a parent,   *)
(* and reaches none that is higher.                                        *)
LEMMA PathCovers ==
  ASSUME NEW s, BlocksKeyed(s), NEW o \in InBlocks(s)
  PROVE  /\ Path(s, o) \subseteq InBlocks(s) /\ o \in Path(s, o)
         /\ \A x \in Path(s, o) : Height(x) \in 0..Height(o)
         /\ \A x \in Path(s, o) : Parent(s, x) # None => Parent(s, x) \in Path(s, o)
<1> DEFINE w == Walk(s, o)
<1>1. MaxHeight \in Nat /\ s.blocks \in Slots
  BY MaxHeightIsMax DEF BlocksKeyed
<1>2. /\ w \in [0..MaxHeight -> InBlocks(s) \cup {None}] /\ w[0] = o
      /\ \A n \in 1..MaxHeight : w[n] = Parent(s, w[n - 1])
  BY <1>1, WalkSteps
<1>3. \A n \in 0..MaxHeight : w[n] # None => Height(w[n]) = Height(o) - n
  BY WalkHeights
<1> HIDE DEF w
<1>4. Path(s, o) = {w[n] : n \in 0..MaxHeight} \ {None}
  BY DEF Path, w
<1>5. o \in Object /\ o # None /\ Height(o) \in 0..MaxHeight
  BY KeyedMembers, ObjectFields
<1>6. Path(s, o) \subseteq InBlocks(s) /\ o \in Path(s, o)
  BY <1>1, <1>2, <1>4, <1>5
<1>7. ASSUME NEW x \in Path(s, o)
      PROVE  Height(x) \in 0..Height(o) /\ (Parent(s, x) # None => Parent(s, x) \in Path(s, o))
  <2>1. PICK n \in 0..MaxHeight : x = w[n] /\ x # None
    BY <1>4, <1>7
  <2>2. x \in InBlocks(s) /\ x \in Object /\ Height(x) \in Nat /\ Height(x) = Height(o) - n
    BY <1>3, <1>6, <1>7, <2>1, KeyedMembers, ObjectFields
  <2>3. ASSUME Parent(s, x) # None PROVE Parent(s, x) \in Path(s, o)
    <3>1. Height(x) = Height(Parent(s, x)) + 1 /\ Parent(s, x) \in InBlocks(s)
      BY <2>2, <2>3, KeyedMembers
    <3>2. Height(Parent(s, x)) \in Nat
      BY <3>1, KeyedMembers, ObjectFields
    <3>3. n + 1 \in 1..MaxHeight /\ n + 1 \in 0..MaxHeight /\ n + 1 - 1 = n
      BY <1>1, <1>5, <2>1, <2>2, <3>1, <3>2
    <3>4. w[n + 1] = Parent(s, w[n])
      BY <1>2, <3>3
    <3> QED
      BY <1>4, <2>1, <2>3, <3>3, <3>4
  <2> QED
    BY <1>5, <2>1, <2>2, <2>3
<1> QED
  BY <1>6, <1>7

(* Where a walk has no parent to go to is its lowest header.               *)
LEMMA PathEnds ==
  ASSUME NEW s, BlocksKeyed(s), NEW o \in InBlocks(s),
         NEW x \in Path(s, o), Parent(s, x) = None
  PROVE  \A z \in Path(s, o) : Height(x) <= Height(z)
<1> DEFINE w == Walk(s, o)
<1>1. MaxHeight \in Nat /\ s.blocks \in Slots
  BY MaxHeightIsMax DEF BlocksKeyed
<1>2. \A n \in 1..MaxHeight : w[n] = Parent(s, w[n - 1])
  BY <1>1, WalkSteps
<1>3. \A n \in 0..MaxHeight : w[n] # None => Height(w[n]) = Height(o) - n
  BY WalkHeights
<1> HIDE DEF w
<1>4. Path(s, o) = {w[n] : n \in 0..MaxHeight} \ {None}
  BY DEF Path, w
<1>5. PICK k \in 0..MaxHeight : x = w[k] /\ x # None
  BY <1>4
<1>6. \A j \in 0..MaxHeight : j > k => w[j] = None
  <2> DEFINE T == {j \in 0..MaxHeight : j > k /\ w[j] # None}
  <2>1. SUFFICES ASSUME T # {} PROVE FALSE
    OBVIOUS
  <2>2. T \subseteq Nat
    BY <1>1
  <2>3. PICK j \in T : \A i \in T : j <= i
    BY <2>1, <2>2, Least
  <2>4. j \in 1..MaxHeight /\ j - 1 \in 0..MaxHeight /\ ~ (j <= j - 1) /\ (j - 1 = k \/ j - 1 > k)
    BY <1>1, <1>5, <2>3
  <2>5. w[j] = Parent(s, w[j - 1]) /\ w[j] # None
    BY <1>2, <2>3, <2>4
  <2>6. w[j - 1] # None
    BY <2>5 DEF Parent
  <2>7. j - 1 = k
    BY <2>3, <2>4, <2>6
  <2> QED
    BY <1>5, <2>5, <2>7
<1> SUFFICES ASSUME NEW z \in Path(s, o) PROVE Height(x) <= Height(z)
  OBVIOUS
<1>7. PICK j \in 0..MaxHeight : z = w[j] /\ z # None
  BY <1>4
<1>8. j <= k
  BY <1>1, <1>5, <1>6, <1>7
<1>9. Height(o) \in Nat /\ Height(x) = Height(o) - k /\ Height(z) = Height(o) - j
  BY <1>3, <1>5, <1>7, KeyedMembers, ObjectFields
<1> QED
  BY <1>1, <1>5, <1>7, <1>8, <1>9

(* n is the height of the lowest header on the walk from o.                *)
IsLowest(s, o, n) ==
    /\ \E x \in Path(s, o) : Height(x) = n
    /\ \A x \in Path(s, o) : n <= Height(x)

LEMMA LowestExists ==
  ASSUME NEW s, BlocksKeyed(s), NEW o \in InBlocks(s)
  PROVE  \E n \in 0..MaxHeight : IsLowest(s, o, n)
<1> DEFINE T == {Height(x) : x \in Path(s, o)}
<1>1. \A x \in Path(s, o) : Height(x) \in 0..MaxHeight
  BY PathCovers, KeyedMembers, ObjectFields
<1>2. T \subseteq Nat /\ T # {}
  BY <1>1, PathCovers, MaxHeightIsMax
<1>3. PICK n \in T : \A k \in T : n <= k
  BY <1>2, Least
<1> QED
  BY <1>1, <1>3 DEF IsLowest

LEMMA LowestIsOne ==
  ASSUME NEW s, BlocksKeyed(s), NEW o \in InBlocks(s), NEW n, NEW k, IsLowest(s, o, n), IsLowest(s, o, k)
  PROVE  n = k /\ n \in 0..MaxHeight
<1>1. \A x \in Path(s, o) : Height(x) \in 0..MaxHeight
  BY PathCovers, KeyedMembers, ObjectFields
<1> QED
  BY <1>1, MaxHeightIsMax DEF IsLowest

LEMMA BlockFloorIsLowest ==
  ASSUME NEW s, BlocksKeyed(s), s.lastBlock \in InBlocks(s)
  PROVE  IsLowest(s, s.lastBlock, BlockFloor(s)) /\ BlockFloor(s) \in 0..MaxHeight
<1>1. Chain(s) = Path(s, s.lastBlock)
  BY DEF Chain, Path
<1> DEFINE C == Chain(s)
           Low(n) == n \in {Height(x) : x \in C} /\ \A x \in C : n <= Height(x)
<1>2. PICK n \in 0..MaxHeight : IsLowest(s, s.lastBlock, n)
  BY LowestExists
<1>3. Low(n)
  BY <1>1, <1>2 DEF IsLowest
<1>4. BlockFloor(s) = CHOOSE k : Low(k)
  BY DEF BlockFloor
<1> HIDE DEF C
<1>5. Low(BlockFloor(s))
  BY <1>3, <1>4
<1>6. IsLowest(s, s.lastBlock, BlockFloor(s))
  BY <1>1, <1>5 DEF IsLowest, C
<1> QED
  BY <1>2, <1>6, LowestIsOne

(* The same headers are resident in t as in s, some as another object: a   *)
(* header never becomes a stub.                                            *)
Renewed(s, t) ==
    \A h \in Hashes :
        /\ s.blocks[h] = None <=> t.blocks[h] = None
        /\ s.blocks[h] # None /\ s.blocks[h].copy # 0 => t.blocks[h].copy # 0

(* What was on the walk in s is on the walk in t.                          *)
LEMMA PathRenewed ==
  ASSUME NEW s, BlocksKeyed(s), NEW t, BlocksKeyed(t), Renewed(s, t), NEW o \in InBlocks(s)
  PROVE  /\ t.blocks[o.hash] \in InBlocks(t)
         /\ \A x \in Path(s, o) : t.blocks[x.hash] \in Path(t, t.blocks[o.hash])
<1> DEFINE p == t.blocks[o.hash]
           w == Walk(s, o)
           v == Walk(t, p)
           T == {n \in 0..MaxHeight : w[n] # None /\ v[n] # t.blocks[w[n].hash]}
<1>1. MaxHeight \in Nat /\ s.blocks \in Slots /\ t.blocks \in Slots
  BY MaxHeightIsMax DEF BlocksKeyed
<1>2. \A x \in InBlocks(s) : x.hash \in Hashes /\ t.blocks[x.hash] # None /\ t.blocks[x.hash] \in InBlocks(t)
                             /\ t.blocks[x.hash].hash = x.hash
  <2> SUFFICES ASSUME NEW x \in InBlocks(s)
               PROVE  x.hash \in Hashes /\ t.blocks[x.hash] # None /\ t.blocks[x.hash] \in InBlocks(t)
                      /\ t.blocks[x.hash].hash = x.hash
    OBVIOUS
  <2>1. x \in Object /\ x # None /\ s.blocks[x.hash] = x
    BY KeyedMembers
  <2>2. x.hash \in Hashes /\ t.blocks[x.hash] # None
    BY <2>1, ObjectFields DEF Renewed
  <2> QED
    BY <1>1, <2>2, BlocksMembers DEF BlocksKeyed
<1>3. p \in InBlocks(t)
  BY <1>2
<1>4. /\ w \in [0..MaxHeight -> InBlocks(s) \cup {None}] /\ w[0] = o
      /\ \A n \in 1..MaxHeight : w[n] = Parent(s, w[n - 1])
  BY <1>1, WalkSteps
<1>5. v[0] = p /\ \A n \in 1..MaxHeight : v[n] = Parent(t, v[n - 1])
  BY <1>1, <1>3, WalkSteps
<1> HIDE DEF w, v
<1>6. T = {}
  <2>1. SUFFICES ASSUME T # {} PROVE FALSE
    OBVIOUS
  <2>2. T \subseteq Nat
    BY <1>1
  <2>3. PICK n \in T : \A j \in T : n <= j
    BY <2>1, <2>2, Least
  <2>4. n # 0
    BY <1>4, <1>5, <2>3
  <2>5. n \in 1..MaxHeight /\ n - 1 \in 0..MaxHeight /\ ~ (n <= n - 1)
    BY <1>1, <2>3, <2>4
  <2>6. w[n] = Parent(s, w[n - 1]) /\ w[n] # None
    BY <1>4, <2>3, <2>5
  <2>7. w[n - 1] # None /\ PrevOf(w[n - 1]) # None /\ w[n] = s.blocks[PrevOf(w[n - 1])]
    BY <2>6 DEF Parent
  <2> DEFINE x == w[n - 1]
             y == t.blocks[x.hash]
  <2>8. x \in InBlocks(s) /\ v[n - 1] = y
    BY <1>4, <2>3, <2>5, <2>7
  <2> HIDE DEF x
  <2>9. x \in Object /\ PrevOf(x) = Prev[x.hash] /\ x.copy # 0 /\ PrevOf(x) \in Hashes /\ s.blocks[x.hash] = x
    BY <2>7, <2>8, KeyedMembers, ObjectFields DEF x
  <2>10. y # None /\ y.hash = x.hash /\ y.copy # 0
    BY <1>2, <2>8, <2>9, ObjectFields DEF Renewed
  <2>11. PrevOf(y) = PrevOf(x) /\ PrevOf(y) # None
    BY <2>7, <2>9, <2>10 DEF PrevOf, x
  <2>12. v[n] = t.blocks[PrevOf(x)]
    BY <1>5, <2>5, <2>8, <2>10, <2>11 DEF Parent
  <2>13. w[n].hash = PrevOf(x)
    BY <2>6, <2>7, <2>9 DEF BlocksKeyed, x
  <2> QED
    BY <2>3, <2>12, <2>13
<1>7. ASSUME NEW x \in Path(s, o) PROVE t.blocks[x.hash] \in Path(t, p)
  <2>1. PICK n \in 0..MaxHeight : x = w[n] /\ x # None
    BY DEF Path, w
  <2>2. v[n] = t.blocks[x.hash] /\ x \in InBlocks(s)
    BY <1>4, <1>6, <2>1
  <2> QED
    BY <1>2, <2>2 DEF Path, v
<1> QED
  BY <1>3, <1>7

(* The memoised floor f of the walk from o: the lowest height, but for a   *)
(* stub there that has become a header since.                              *)
FloorNear(s, o, f) ==
    \E n \in 0..MaxHeight :
        /\ IsLowest(s, o, n)
        /\ f = n \/ (f > n /\ \E c \in Checkpoints : HeightOf[c] = f)

LEMMA FloorNearRenewed ==
  ASSUME NEW s, BlocksKeyed(s), NEW t, BlocksKeyed(t), Renewed(s, t), NEW o \in InBlocks(s),
         NEW f \in Nat, FloorNear(s, o, f)
  PROVE  FloorNear(t, t.blocks[o.hash], f)
<1> DEFINE p == t.blocks[o.hash]
<1>1. p \in InBlocks(t) /\ \A x \in Path(s, o) : t.blocks[x.hash] \in Path(t, p)
  BY PathRenewed
<1> HIDE DEF p
<1>2. PICK n \in 0..MaxHeight :
        /\ IsLowest(s, o, n)
        /\ f = n \/ (f > n /\ \E c \in Checkpoints : HeightOf[c] = f)
  BY DEF FloorNear
<1>3. PICK k \in 0..MaxHeight : IsLowest(t, p, k)
  BY <1>1, LowestExists
<1>4. PICK x \in Path(s, o) : Height(x) = n
  BY <1>2 DEF IsLowest
<1> DEFINE y == t.blocks[x.hash]
<1>5. x \in InBlocks(s) /\ x \in Object /\ x # None /\ s.blocks[x.hash] = x
      /\ (x.copy = 0 => x.hash \in Checkpoints) /\ x.hash \in Hashes
  BY <1>4, PathCovers, KeyedMembers, ObjectFields
<1>6. y \in Path(t, p) /\ y \in InBlocks(t) /\ y \in Object /\ y # None
  BY <1>1, <1>4, PathCovers, KeyedMembers
<1>7. y.hash = x.hash /\ Height(y) = n
  BY <1>4, <1>5, <1>6 DEF BlocksKeyed, Height
<1> HIDE DEF y
<1>8. MaxHeight \in Nat /\ n \in Nat /\ k \in Nat
  BY MaxHeightIsMax
<1>9. k <= n
  BY <1>3, <1>6, <1>7 DEF IsLowest
<1>10. CASE k = n
  BY <1>2, <1>3, <1>10 DEF FloorNear, p
<1>11. CASE k # n
  <2>1. Parent(t, y) # None
    <3>1. SUFFICES ASSUME Parent(t, y) = None PROVE FALSE
      OBVIOUS
    <3>2. \A z \in Path(t, p) : n <= Height(z)
      BY <1>1, <1>6, <1>7, <3>1, PathEnds
    <3> QED
      BY <1>3, <1>8, <1>9, <1>11, <3>2 DEF IsLowest
  <2>2. Parent(s, x) = None
    <3>1. SUFFICES ASSUME Parent(s, x) # None PROVE FALSE
      OBVIOUS
    <3>2. Parent(s, x) \in Path(s, o) /\ Height(x) = Height(Parent(s, x)) + 1
          /\ Height(Parent(s, x)) \in Nat
      BY <1>4, <1>5, <3>1, PathCovers, KeyedMembers, ObjectFields
    <3> QED
      BY <1>2, <1>4, <1>8, <3>2 DEF IsLowest
  <2>3. y.copy # 0 /\ PrevOf(y) = Prev[x.hash] /\ PrevOf(y) # None /\ PrevOf(y) \in Hashes
        /\ t.blocks[PrevOf(y)] # None
    BY <1>6, <1>7, <2>1, ObjectFields DEF Parent
  <2>4. s.blocks[PrevOf(y)] # None
    BY <2>3 DEF Renewed
  <2>5. x.copy = 0
    BY <1>5, <2>2, <2>3, <2>4 DEF Parent, PrevOf
  <2>6. x.hash \in Checkpoints /\ HeightOf[x.hash] = n
    BY <1>4, <1>5, <2>5 DEF Height
  <2>7. f > k /\ \E c \in Checkpoints : HeightOf[c] = f
    BY <1>2, <1>8, <1>9, <1>11, <2>6
  <2> QED
    BY <1>3, <2>7 DEF FloorNear, p
<1> QED
  BY <1>10, <1>11

----------------------------------------------------------------------------
(* The tables and how each operation changes their fields. *)

Memo   == [tip : Object \cup {None}, count : Nat, floor : Nat]
Tables == [blocks : Slots, orphans : Slots, checkpoints : [0..MaxHeight -> Object \cup {None}],
           lastBlock : Object, lastOrphan : Object \cup {None},
           startSyncFrom : Object \cup {None}, live : SUBSET Object, dated : SUBSET Object,
           memo : Memo]

(* t differs from s in the objects that exist, at most.                    *)
SameTables(s, t) ==
    /\ t \in Tables
    /\ t.blocks = s.blocks /\ t.orphans = s.orphans /\ t.checkpoints = s.checkpoints
    /\ t.lastBlock = s.lastBlock /\ t.startSyncFrom = s.startSyncFrom /\ t.memo = s.memo

LEMMA FreedFields ==
  ASSUME NEW s \in Tables, NEW o \in Object
  PROVE  /\ SameTables(s, Freed(s, o)) /\ Freed(s, o).lastOrphan = s.lastOrphan
         /\ Freed(s, o).live = s.live \ {o} /\ Freed(s, o).dated = s.dated \ {o}
  BY DEF Tables, SameTables, Freed

LEMMA OrphanLeftFields ==
  ASSUME NEW s \in Tables, NEW o \in Object
  PROVE  /\ SameTables(s, OrphanLeft(s, o))
         /\ OrphanLeft(s, o).lastOrphan = IF s.lastOrphan = o THEN None ELSE s.lastOrphan
         /\ OrphanLeft(s, o).live = s.live /\ OrphanLeft(s, o).dated = s.dated
  BY DEF Tables, SameTables, OrphanLeft

LEMMA FollowFields ==
  ASSUME NEW s \in Tables, NEW old \in Object, NEW o \in Object
  PROVE  LET t == Follow(s, old, o)
         IN /\ t \in Tables
            /\ t.blocks = s.blocks /\ t.checkpoints = s.checkpoints
            /\ t.orphans = [s.orphans EXCEPT ![Prev[old.hash]] = IF @ = old THEN None ELSE @]
            /\ t.lastOrphan = IF s.lastOrphan = old THEN None ELSE s.lastOrphan
            /\ t.lastBlock = IF s.lastBlock = old THEN o ELSE s.lastBlock
            /\ t.startSyncFrom = IF s.startSyncFrom = old THEN o ELSE s.startSyncFrom
            /\ t.live = s.live /\ t.dated = s.dated
            /\ t.memo = IF old \in {s.lastBlock, s.memo.tip} THEN NoMemo ELSE s.memo
<1>1. NoMemo \in Memo
  BY DEF NoMemo, Memo
<1> DEFINE slots == [s.orphans EXCEPT ![Prev[old.hash]] = IF @ = old THEN None ELSE @]
           last == IF s.lastOrphan = old THEN None ELSE s.lastOrphan
           tip == IF s.lastBlock = old THEN o ELSE s.lastBlock
           from == IF s.startSyncFrom = old THEN o ELSE s.startSyncFrom
           memo == IF old \in {s.lastBlock, s.memo.tip} THEN NoMemo ELSE s.memo
           t == [s EXCEPT !.orphans = slots, !.lastOrphan = last, !.lastBlock = tip,
                          !.startSyncFrom = from, !.memo = memo]
<1>2. slots \in Slots /\ last \in Object \cup {None} /\ tip \in Object
      /\ from \in Object \cup {None} /\ memo \in Memo
  BY <1>1 DEF Tables, Slots
<1>3. Follow(s, old, o) = t
  BY DEF Follow, Tables
<1>4. /\ t \in Tables
      /\ t.blocks = s.blocks /\ t.checkpoints = s.checkpoints
      /\ t.orphans = slots /\ t.lastOrphan = last /\ t.lastBlock = tip /\ t.startSyncFrom = from
      /\ t.live = s.live /\ t.dated = s.dated /\ t.memo = memo
  <2> HIDE DEF slots, last, tip, from, memo
  <2> QED
    BY <1>2 DEF Tables
<1> QED
  BY <1>3, <1>4

(* o is put into its place in the resident set.                            *)
Placed(s, o) == [s EXCEPT !.blocks[o.hash] = o]

LEMMA PlacedFields ==
  ASSUME NEW s \in Tables, NEW o \in Object
  PROVE  LET t == Placed(s, o)
         IN /\ t \in Tables /\ t.blocks = [s.blocks EXCEPT ![o.hash] = o]
            /\ t.orphans = s.orphans /\ t.checkpoints = s.checkpoints
            /\ t.lastBlock = s.lastBlock /\ t.lastOrphan = s.lastOrphan
            /\ t.startSyncFrom = s.startSyncFrom /\ t.memo = s.memo
            /\ t.live = s.live /\ t.dated = s.dated
<1>1. [s.blocks EXCEPT ![o.hash] = o] \in Slots
  BY ObjectFields DEF Tables, Slots
<1> QED
  BY <1>1 DEF Tables, Placed

(* Its checkpoint, if the object it replaces was one, is o now.            *)
Kept(s, o) == [s EXCEPT !.checkpoints[Height(o)] = o]

LEMMA KeptFields ==
  ASSUME NEW s \in Tables, NEW o \in Object
  PROVE  LET t == Kept(s, o)
         IN /\ t \in Tables /\ t.checkpoints = [s.checkpoints EXCEPT ![Height(o)] = o]
            /\ t.blocks = s.blocks /\ t.orphans = s.orphans
            /\ t.lastBlock = s.lastBlock /\ t.lastOrphan = s.lastOrphan
            /\ t.startSyncFrom = s.startSyncFrom /\ t.memo = s.memo
            /\ t.live = s.live /\ t.dated = s.dated
<1>1. [s.checkpoints EXCEPT ![Height(o)] = o] \in [0..MaxHeight -> Object \cup {None}]
  BY ObjectFields DEF Tables
<1> QED
  BY <1>1 DEF Tables, Kept

----------------------------------------------------------------------------
(* The inductive invariant. *)

(* Only a checkpoint's stub has no previous header; what waits, or is to be *)
(* handled again, has one.                                                  *)
Waits(o) == o \in Object /\ o.copy # 0 /\ Prev[o.hash] \in Hashes

(* The application starts from headers that a checkpoint buries, or from    *)
(* its successor.                                                           *)
StartsBuried == \A h \in Starts \ {None} : \E c \in Checkpoints : HeightOf[h] <= HeightOf[c] + 1

(* The header to start from is resident as that object, or is pruned and    *)
(* cannot come back: its parent is not resident.                            *)
StartHeld(s) ==
    s.startSyncFrom # None =>
        \/ s.blocks[s.startSyncFrom.hash] = s.startSyncFrom
        \/ /\ s.blocks[s.startSyncFrom.hash] = None
           /\ Prev[s.startSyncFrom.hash] \in Hashes => s.blocks[Prev[s.startSyncFrom.hash]] = None

(* Each set is keyed as its name says, and the tip is resident.             *)
Keyed(s) ==
    /\ BlocksKeyed(s) /\ s.blocks[s.lastBlock.hash] = s.lastBlock
    /\ \A h \in Hashes : s.orphans[h] # None => Waits(s.orphans[h]) /\ Prev[s.orphans[h].hash] = h
    /\ \A n \in 0..MaxHeight : s.checkpoints[n] # None => Height(s.checkpoints[n]) = n
    /\ s.startSyncFrom # None =>
          /\ s.startSyncFrom.copy # 0 /\ s.startSyncFrom.hash \in Starts
          /\ s.checkpoints[Height(s.startSyncFrom)] = s.startSyncFrom
          /\ Height(s.lastBlock) >= Height(s.startSyncFrom)
    /\ StartsBuried => StartHeld(s)

(* A memo whose key counts as many headers as are resident was noted for    *)
(* these very headers; it never counts more.                                *)
MemoGood(s) ==
    s.memo.tip # None =>
        /\ s.memo.count <= Cardinality(InBlocks(s))
        /\ s.memo.count = Cardinality(InBlocks(s)) =>
              /\ s.blocks[s.memo.tip.hash] # None
              /\ FloorNear(s, s.blocks[s.memo.tip.hash], s.memo.floor)

(* Who owns what, C being the headers the threads carry: no two owners, and *)
(* nothing lost but what a rescan displaced.                                *)
Owned(s, C) ==
    /\ InBlocks(s) \cap InOrphans(s) = {} /\ C \cap (InBlocks(s) \cup InOrphans(s)) = {}
    /\ InCheckpoints(s) \cap (InOrphans(s) \cup C) = {}
    /\ InBlocks(s) \cup InOrphans(s) \cup InCheckpoints(s) \cup C \subseteq s.live
    /\ \A o \in s.live \ (InBlocks(s) \cup InOrphans(s) \cup InCheckpoints(s) \cup C) :
          s.startSyncFrom # None /\ o.hash = s.startSyncFrom.hash /\ ~ StartsBuried
    /\ InBlocks(s) \cup InCheckpoints(s) \subseteq s.dated /\ s.dated \subseteq s.live
    /\ s.lastOrphan \in InOrphans(s) \cup {None}

Good(s, C) == Keyed(s) /\ MemoGood(s) /\ Owned(s, C) /\ \A o \in C : Waits(o)

----------------------------------------------------------------------------
(* What is in the sets of a good state. *)

LEMMA Members ==
  ASSUME NEW s \in Tables, Keyed(s)
  PROVE  /\ \A o : o \in InBlocks(s) <=> o \in Object /\ s.blocks[o.hash] = o
         /\ \A o : o \in InOrphans(s) <=>
                 o \in Object /\ Prev[o.hash] \in Hashes /\ s.orphans[Prev[o.hash]] = o
         /\ \A o : o \in InCheckpoints(s) <=> o \in Object /\ s.checkpoints[Height(o)] = o
<1>1. s.blocks \in Slots /\ s.orphans \in Slots /\ s.checkpoints \in [0..MaxHeight -> Object \cup {None}]
  BY DEF Tables
<1>2. ASSUME NEW o PROVE o \in InBlocks(s) <=> o \in Object /\ s.blocks[o.hash] = o
  BY <1>1, ObjectFields DEF InBlocks, Slots, Keyed, BlocksKeyed
<1>3. ASSUME NEW o
      PROVE  o \in InOrphans(s) <=>
                 o \in Object /\ Prev[o.hash] \in Hashes /\ s.orphans[Prev[o.hash]] = o
  BY <1>1, ObjectFields DEF InOrphans, Slots, Keyed, Waits
<1>4. ASSUME NEW o PROVE o \in InCheckpoints(s) <=> o \in Object /\ s.checkpoints[Height(o)] = o
  <2>1. ASSUME o \in InCheckpoints(s) PROVE o \in Object /\ s.checkpoints[Height(o)] = o
    <3>1. PICK n \in 0..MaxHeight : s.checkpoints[n] = o /\ o # None
      BY <2>1 DEF InCheckpoints
    <3>2. o \in Object /\ Height(o) = n
      BY <1>1, <3>1 DEF Keyed
    <3> QED
      BY <3>1, <3>2
  <2>2. ASSUME o \in Object, s.checkpoints[Height(o)] = o PROVE o \in InCheckpoints(s)
    BY <2>2, ObjectFields DEF InCheckpoints
  <2> QED
    BY <2>1, <2>2
<1> QED
  BY <1>2, <1>3, <1>4

(* How many headers are resident.                                          *)
LEMMA Counted ==
  ASSUME NEW s, s.blocks \in Slots
  PROVE  IsFiniteSet(InBlocks(s)) /\ Cardinality(InBlocks(s)) \in Nat
<1> DEFINE B == {s.blocks[h] : h \in Hashes}
           f == [h \in Hashes |-> s.blocks[h]]
<1>1. IsFiniteSet(B)
  <2>1. f \in Surjection(Hashes, B)
    BY DEF Surjection
  <2> HIDE DEF f, B
  <2> QED
    BY <2>1, HeadersLink, FS_Surjection
<1>2. IsFiniteSet(B \ {None})
  BY <1>1, FS_Difference
<1> QED
  BY <1>2, FS_CardinalityType DEF InBlocks

(* A header that takes its place adds one if its place was free; otherwise *)
(* as many headers are resident as were, the same ones.                    *)
LEMMA PlacedCount ==
  ASSUME NEW s, BlocksKeyed(s), NEW o \in Object, o.copy # 0,
         NEW t, t.blocks = [s.blocks EXCEPT ![o.hash] = o]
  PROVE  /\ BlocksKeyed(t)
         /\ InBlocks(t) = (InBlocks(s) \ {s.blocks[o.hash]}) \cup {o}
         /\ s.blocks[o.hash] = None => Cardinality(InBlocks(t)) = Cardinality(InBlocks(s)) + 1
         /\ s.blocks[o.hash] # None => /\ Cardinality(InBlocks(t)) = Cardinality(InBlocks(s))
                                       /\ Renewed(s, t)
<1> DEFINE old == s.blocks[o.hash]
<1>1. o.hash \in Hashes /\ o # None /\ s.blocks \in Slots
  BY ObjectFields DEF BlocksKeyed
<1>2. BlocksKeyed(t)
  BY <1>1 DEF BlocksKeyed, Slots
<1>3. InBlocks(t) = (InBlocks(s) \ {old}) \cup {o}
  BY <1>1 DEF BlocksKeyed, InBlocks, Slots
<1>4. IsFiniteSet(InBlocks(s)) /\ Cardinality(InBlocks(s)) \in Nat
  BY <1>1, Counted
<1>5. None \notin InBlocks(s)
  BY DEF InBlocks
<1>6. o \in InBlocks(s) => old = o
  BY KeyedMembers
<1>7. ASSUME old = None PROVE Cardinality(InBlocks(t)) = Cardinality(InBlocks(s)) + 1
  <2>1. InBlocks(t) = InBlocks(s) \cup {o} /\ o \notin InBlocks(s)
    BY <1>1, <1>3, <1>5, <1>6, <1>7
  <2> QED
    BY <1>4, <2>1, FS_AddElement
<1>8. ASSUME old # None PROVE Cardinality(InBlocks(t)) = Cardinality(InBlocks(s)) /\ Renewed(s, t)
  <2>1. old \in InBlocks(s)
    BY <1>1, <1>8, BlocksMembers
  <2>2. IsFiniteSet(InBlocks(s) \ {old}) /\ Cardinality(InBlocks(s) \ {old}) = Cardinality(InBlocks(s)) - 1
    BY <1>4, <2>1, FS_RemoveElement
  <2>3. o \notin InBlocks(s) \ {old}
    BY <1>6
  <2> DEFINE R == InBlocks(s) \ {old}
  <2>4. Cardinality(InBlocks(t)) = Cardinality(InBlocks(s))
    <3> HIDE DEF R
    <3>1. Cardinality(R \cup {o}) = Cardinality(R) + 1
      BY <2>2, <2>3, FS_AddElement DEF R
    <3> QED
      BY <1>3, <1>4, <2>2, <3>1 DEF R
  <2>5. Renewed(s, t)
    BY <1>1, <1>8 DEF Renewed, Slots
  <2> QED
    BY <2>4, <2>5
<1> QED
  BY <1>2, <1>3, <1>7, <1>8

LEMMA PlacedMemo ==
  ASSUME NEW s \in Tables, BlocksKeyed(s), MemoGood(s), NEW o \in Object, o.copy # 0,
         NEW t, t.blocks = [s.blocks EXCEPT ![o.hash] = o], t.memo \in {s.memo, NoMemo}
  PROVE  MemoGood(t)
<1>1. SUFFICES ASSUME s.memo.tip # None, t.memo = s.memo PROVE MemoGood(t)
  BY DEF MemoGood, NoMemo
<1>2. s.memo.tip.hash \in Hashes /\ s.memo.count \in Nat /\ s.memo.floor \in Nat
  BY <1>1, ObjectFields DEF Tables, Memo
<1>3. /\ BlocksKeyed(t)
      /\ s.blocks[o.hash] = None => Cardinality(InBlocks(t)) = Cardinality(InBlocks(s)) + 1
      /\ s.blocks[o.hash] # None => Cardinality(InBlocks(t)) = Cardinality(InBlocks(s)) /\ Renewed(s, t)
  BY PlacedCount
<1>4. Cardinality(InBlocks(s)) \in Nat /\ s.blocks \in Slots
  BY Counted DEF BlocksKeyed
<1>5. CASE s.blocks[o.hash] = None
  BY <1>1, <1>2, <1>3, <1>4, <1>5 DEF MemoGood
<1>6. CASE s.blocks[o.hash] # None
  <2>1. SUFFICES ASSUME s.memo.count = Cardinality(InBlocks(s))
                 PROVE  /\ t.blocks[s.memo.tip.hash] # None
                        /\ FloorNear(t, t.blocks[s.memo.tip.hash], s.memo.floor)
    BY <1>1, <1>3, <1>6 DEF MemoGood
  <2> DEFINE p == s.blocks[s.memo.tip.hash]
  <2>2. p # None /\ FloorNear(s, p, s.memo.floor)
    BY <1>1, <2>1 DEF MemoGood
  <2>3. p \in InBlocks(s) /\ p.hash = s.memo.tip.hash
    BY <1>2, <1>4, <2>2, BlocksMembers DEF BlocksKeyed
  <2>4. t.blocks[s.memo.tip.hash] # None
    BY <1>2, <1>3, <1>6, <2>2 DEF Renewed
  <2> HIDE DEF p
  <2>5. FloorNear(t, t.blocks[p.hash], s.memo.floor)
    BY <1>2, <1>3, <1>6, <2>2, <2>3, FloorNearRenewed
  <2> QED
    BY <2>3, <2>4, <2>5
<1> QED
  BY <1>5, <1>6

----------------------------------------------------------------------------
(* A header takes its place in the resident set.  An older object of it is  *)
(* gone, and what pointed to that points to the newer one.                  *)

Installed(s, t, o) ==
    LET old == s.blocks[o.hash]
    IN /\ t \in Tables /\ t.blocks = [s.blocks EXCEPT ![o.hash] = o]
       /\ t.orphans = s.orphans /\ t.lastOrphan = s.lastOrphan
       /\ t.checkpoints = IF old # None /\ IsCheckpoint(s, old)
                          THEN [s.checkpoints EXCEPT ![Height(o)] = o] ELSE s.checkpoints
       /\ t.startSyncFrom = IF s.startSyncFrom = old /\ old # None THEN o ELSE s.startSyncFrom
       /\ t.live = s.live \ {old} /\ t.dated = s.dated \ {old}
       /\ t.memo \in {s.memo, NoMemo}
       /\ t.lastBlock = o \/ (t.lastBlock = s.lastBlock /\ s.lastBlock.hash # o.hash)
       /\ Height(t.lastBlock) >= Height(s.lastBlock)
       /\ s.blocks[Prev[o.hash]] # None
       /\ \/ old # None \/ Height(o) > Height(s.lastBlock)
          \/ \A c \in Checkpoints : Height(o) > HeightOf[c]

(* The header in hand, and the object it replaces.                         *)
LEMMA InHand ==
  ASSUME NEW s \in Tables, NEW D, Good(s, D), NEW o \in D
  PROVE  LET old == s.blocks[o.hash]
         IN /\ Waits(o) /\ o \in Object /\ o.copy # 0 /\ o # None /\ o \in s.live
            /\ o \notin InBlocks(s) /\ o \notin InOrphans(s) /\ o \notin InCheckpoints(s)
            /\ old # o
            /\ old # None => /\ old \in InBlocks(s) /\ old \in Object /\ old.hash = o.hash
                             /\ Height(old) = Height(o) /\ old \in s.dated /\ old \in s.live
                             /\ old \notin InOrphans(s) /\ old \notin D
                             /\ old \in InCheckpoints(s) <=> IsCheckpoint(s, old)
<1>1. Waits(o) /\ o \in Object /\ o.copy # 0 /\ o # None /\ o.hash \in Hashes
  BY ObjectFields DEF Good, Waits
<1>2. o \in s.live /\ o \notin InBlocks(s) /\ o \notin InOrphans(s) /\ o \notin InCheckpoints(s)
  BY DEF Good, Owned
<1>3. Keyed(s) /\ BlocksKeyed(s) /\ s.blocks \in Slots
  BY DEF Good, Keyed, BlocksKeyed
<1> DEFINE old == s.blocks[o.hash]
<1>4. old # o
  BY <1>1, <1>2, <1>3, Members
<1>5. ASSUME old # None
      PROVE  /\ old \in InBlocks(s) /\ old \in Object /\ old.hash = o.hash
             /\ Height(old) = Height(o) /\ old \in s.dated /\ old \in s.live
             /\ old \notin InOrphans(s) /\ old \notin D
             /\ old \in InCheckpoints(s) <=> IsCheckpoint(s, old)
  <2>1. old \in InBlocks(s) /\ old \in Object /\ old.hash = o.hash
    BY <1>1, <1>3, <1>5, BlocksMembers DEF BlocksKeyed
  <2> HIDE DEF old
  <2>2. Height(old) = Height(o)
    BY <2>1 DEF Height
  <2>3. old \in s.dated /\ old \in s.live /\ old \notin InOrphans(s) /\ old \notin D
    BY <2>1 DEF Good, Owned
  <2>4. old \in InCheckpoints(s) <=> s.checkpoints[Height(old)] = old
    BY <1>3, <2>1, Members
  <2>5. old \in InCheckpoints(s) <=> IsCheckpoint(s, old)
    BY <2>3, <2>4 DEF IsCheckpoint
  <2> QED
    BY <2>1, <2>2, <2>3, <2>5
<1> QED
  BY <1>1, <1>2, <1>4, <1>5

LEMMA InstalledKeyed ==
  ASSUME NEW s \in Tables, NEW D, Good(s, D), NEW o \in D, NEW t, Installed(s, t, o)
  PROVE  Keyed(t)
<1> DEFINE old == s.blocks[o.hash]
<1>1. /\ o \in Object /\ o.copy # 0 /\ o # None /\ old # o
      /\ old # None => /\ old \in InBlocks(s) /\ old \in Object /\ old.hash = o.hash
                       /\ Height(old) = Height(o)
                       /\ old \in InCheckpoints(s) <=> IsCheckpoint(s, old)
  BY InHand
<1>2. Keyed(s) /\ BlocksKeyed(s) /\ s.blocks \in Slots
  BY DEF Good, Keyed, BlocksKeyed
<1>3. /\ t \in Tables /\ t.blocks = [s.blocks EXCEPT ![o.hash] = o] /\ t.orphans = s.orphans
      /\ t.checkpoints = IF old # None /\ IsCheckpoint(s, old)
                         THEN [s.checkpoints EXCEPT ![Height(o)] = o] ELSE s.checkpoints
      /\ t.startSyncFrom = IF s.startSyncFrom = old /\ old # None THEN o ELSE s.startSyncFrom
      /\ t.lastBlock = o \/ (t.lastBlock = s.lastBlock /\ s.lastBlock.hash # o.hash)
      /\ Height(t.lastBlock) >= Height(s.lastBlock)
  BY DEF Installed
<1> HIDE DEF old
<1>4. BlocksKeyed(t)
  BY <1>1, <1>2, <1>3, PlacedCount
<1>5. o.hash \in Hashes /\ Height(o) \in 0..MaxHeight /\ s.lastBlock \in Object /\ s.lastBlock.hash \in Hashes
      /\ t.lastBlock \in Object /\ Height(t.lastBlock) \in 0..MaxHeight /\ Height(s.lastBlock) \in 0..MaxHeight
  BY <1>1, <1>3, ObjectFields DEF Tables
<1>6. t.blocks[t.lastBlock.hash] = t.lastBlock
  BY <1>2, <1>3, <1>5 DEF Keyed, Slots
<1>7. \A h \in Hashes : t.orphans[h] # None => Waits(t.orphans[h]) /\ Prev[t.orphans[h].hash] = h
  BY <1>2, <1>3 DEF Keyed
<1>8. s.checkpoints \in [0..MaxHeight -> Object \cup {None}] /\ MaxHeight \in Nat
  BY MaxHeightIsMax DEF Tables
<1>9. \A n \in 0..MaxHeight : t.checkpoints[n] # None => Height(t.checkpoints[n]) = n
  BY <1>2, <1>3, <1>5, <1>8 DEF Keyed
<1>10. ASSUME t.startSyncFrom # None
       PROVE  /\ t.startSyncFrom.copy # 0 /\ t.startSyncFrom.hash \in Starts
              /\ t.checkpoints[Height(t.startSyncFrom)] = t.startSyncFrom
              /\ Height(t.lastBlock) >= Height(t.startSyncFrom)
  <2>1. /\ s.startSyncFrom # None /\ s.startSyncFrom \in Object
        /\ s.startSyncFrom.copy # 0 /\ s.startSyncFrom.hash \in Starts
        /\ s.checkpoints[Height(s.startSyncFrom)] = s.startSyncFrom
        /\ Height(s.lastBlock) >= Height(s.startSyncFrom)
    BY <1>2, <1>3, <1>10 DEF Keyed, Tables
  <2>2. Height(s.startSyncFrom) \in 0..MaxHeight
    BY <2>1, ObjectFields
  <2>3. s.startSyncFrom \in InCheckpoints(s)
    BY <1>2, <2>1, Members
  <2>4. CASE s.startSyncFrom = old
    <3>1. old # None /\ t.startSyncFrom = o /\ IsCheckpoint(s, old)
      BY <1>1, <1>3, <2>1, <2>3, <2>4
    <3>2. t.checkpoints[Height(o)] = o
      BY <1>3, <1>5, <1>8, <3>1
    <3> QED
      BY <1>1, <1>3, <1>5, <1>8, <2>1, <2>2, <2>4, <3>1, <3>2
  <2>5. CASE s.startSyncFrom # old
    <3>1. t.startSyncFrom = s.startSyncFrom
      BY <1>3, <2>5
    <3>2. t.checkpoints[Height(s.startSyncFrom)] = s.startSyncFrom
      <4>1. CASE old # None /\ IsCheckpoint(s, old)
        <5>1. s.checkpoints[Height(o)] = old
          BY <1>1, <1>2, <4>1, Members
        <5> QED
          BY <1>3, <1>5, <1>8, <2>1, <2>2, <2>5, <4>1, <5>1
      <4>2. CASE ~ (old # None /\ IsCheckpoint(s, old))
        BY <1>3, <2>1, <4>2
      <4> QED
        BY <4>1, <4>2
    <3> QED
      BY <1>3, <1>5, <1>8, <2>1, <2>2, <3>1, <3>2
  <2> QED
    BY <2>4, <2>5
<1>11. ASSUME StartsBuried, t.startSyncFrom # None
       PROVE  \/ t.blocks[t.startSyncFrom.hash] = t.startSyncFrom
              \/ /\ t.blocks[t.startSyncFrom.hash] = None
                 /\ Prev[t.startSyncFrom.hash] \in Hashes => t.blocks[Prev[t.startSyncFrom.hash]] = None
  <2> DEFINE x == s.startSyncFrom
  <2>1. x # None /\ x \in Object /\ x.hash \in Starts /\ Height(s.lastBlock) >= Height(x)
    BY <1>2, <1>3, <1>11 DEF Keyed, Tables
  <2>2. x.hash \in Hashes /\ Height(x) \in Nat
    BY <2>1, MaxHeightIsMax, ObjectFields
  <2>3. /\ s.blocks[Prev[o.hash]] # None
        /\ \/ old # None \/ Height(o) > Height(s.lastBlock)
           \/ \A c \in Checkpoints : Height(o) > HeightOf[c]
    BY DEF Installed, old
  <2>4. \/ s.blocks[x.hash] = x
        \/ /\ s.blocks[x.hash] = None
           /\ Prev[x.hash] \in Hashes => s.blocks[Prev[x.hash]] = None
    BY <1>2, <1>11, <2>1 DEF Keyed, StartHeld
  <2>5. Prev[o.hash] \in Hashes
    BY DEF Good, Waits
  <2>6. CASE x = old
    BY <1>1, <1>2, <1>3, <1>5, <2>1, <2>6 DEF Slots
  <2>7. CASE x # old /\ o.hash = x.hash
    <3>1. s.blocks[x.hash] = None
      BY <2>4, <2>7 DEF old
    <3> QED
      BY <2>3, <2>4, <2>5, <2>7, <2>1, <3>1
  <2>8. CASE x # old /\ o.hash # x.hash
    <3>1. t.startSyncFrom = x /\ t.blocks[x.hash] = s.blocks[x.hash]
      BY <1>2, <1>3, <2>2, <2>8 DEF Slots
    <3>2. ASSUME s.blocks[x.hash] = None, Prev[x.hash] \in Hashes PROVE t.blocks[Prev[x.hash]] = None
      <4>1. s.blocks[Prev[x.hash]] = None
        BY <2>1, <2>4, <3>2
      <4>2. Prev[x.hash] # o.hash
        <5>1. SUFFICES ASSUME Prev[x.hash] = o.hash PROVE FALSE
          OBVIOUS
        <5>2. old = None
          BY <4>1, <5>1 DEF old
        <5>3. Height(x) = Height(o) + 1
          BY <2>2, <3>2, <5>1, HeadersLink DEF Height
        <5>4. PICK c \in Checkpoints : HeightOf[x.hash] <= HeightOf[c] + 1
          BY <1>11, <2>1, <2>2, HeadersLink DEF StartsBuried
        <5>5. HeightOf[c] \in Nat /\ HeightOf[x.hash] = Height(x)
          BY HeadersLink DEF Height
        <5> QED
          BY <1>5, <2>1, <2>2, <2>3, <5>2, <5>3, <5>4, <5>5
      <4> QED
        BY <1>2, <1>3, <3>2, <4>1, <4>2 DEF Slots
    <3> QED
      BY <2>4, <3>1, <3>2
  <2> QED
    BY <2>6, <2>7, <2>8
<1> QED
  BY <1>4, <1>6, <1>7, <1>9, <1>10, <1>11 DEF Keyed, StartHeld

LEMMA InstalledKeeps ==
  ASSUME NEW s \in Tables, NEW D, Good(s, D), NEW o \in D, o \in s.dated,
         NEW t, Installed(s, t, o)
  PROVE  t \in Tables /\ Good(t, D \ {o})
<1> DEFINE old == s.blocks[o.hash]
<1>1. /\ o \in Object /\ o.copy # 0 /\ o # None /\ old # o /\ o \in s.live
      /\ o \notin InBlocks(s) /\ o \notin InOrphans(s) /\ o \notin InCheckpoints(s)
      /\ old # None => /\ old \in InBlocks(s) /\ old \in Object /\ old.hash = o.hash
                       /\ Height(old) = Height(o) /\ old \in s.dated /\ old \in s.live
                       /\ old \notin InOrphans(s) /\ old \notin D
                       /\ old \in InCheckpoints(s) <=> IsCheckpoint(s, old)
  BY InHand
<1>2. Keyed(s) /\ BlocksKeyed(s) /\ MemoGood(s) /\ Owned(s, D) /\ \A d \in D : Waits(d)
  BY DEF Good, Keyed
<1>3. /\ t \in Tables /\ t.blocks = [s.blocks EXCEPT ![o.hash] = o]
      /\ t.orphans = s.orphans /\ t.lastOrphan = s.lastOrphan
      /\ t.checkpoints = IF old # None /\ IsCheckpoint(s, old)
                         THEN [s.checkpoints EXCEPT ![Height(o)] = o] ELSE s.checkpoints
      /\ t.startSyncFrom = IF s.startSyncFrom = old /\ old # None THEN o ELSE s.startSyncFrom
      /\ t.live = s.live \ {old} /\ t.dated = s.dated \ {old}
      /\ t.memo \in {s.memo, NoMemo}
  BY DEF Installed
<1>4. Keyed(t)
  BY InstalledKeyed
<1>5. InBlocks(t) = (InBlocks(s) \ {old}) \cup {o}
  BY <1>1, <1>2, <1>3, PlacedCount
<1>6. MemoGood(t)
  BY <1>1, <1>2, <1>3, PlacedMemo
<1> HIDE DEF old
<1>7. InOrphans(t) = InOrphans(s)
  BY <1>3 DEF InOrphans
<1>8. InCheckpoints(t) = IF old # None /\ IsCheckpoint(s, old) THEN (InCheckpoints(s) \ {old}) \cup {o}
                         ELSE InCheckpoints(s)
  <2>1. CASE ~ (old # None /\ IsCheckpoint(s, old))
    BY <1>3, <2>1 DEF InCheckpoints
  <2>2. CASE old # None /\ IsCheckpoint(s, old)
    <3>1. t.checkpoints = [s.checkpoints EXCEPT ![Height(o)] = o] /\ s.checkpoints[Height(o)] = old
      BY <1>1, <1>2, <1>3, <2>2, Members
    <3>2. Height(o) \in 0..MaxHeight /\ s.checkpoints \in [0..MaxHeight -> Object \cup {None}]
      BY <1>1, ObjectFields DEF Tables
    <3>3. ASSUME NEW x PROVE x \in InCheckpoints(t) <=> x \in (InCheckpoints(s) \ {old}) \cup {o}
      <4>1. x \in InCheckpoints(t) <=> x \in Object /\ t.checkpoints[Height(x)] = x
        <5>1. t \in Tables
          BY <1>3
        <5> QED
          BY <1>4, <5>1, Members
      <4>2. x \in InCheckpoints(s) <=> x \in Object /\ s.checkpoints[Height(x)] = x
        BY <1>2, Members
      <4>3. x \in Object => Height(x) \in 0..MaxHeight
        BY ObjectFields
      <4>4. CASE x \in Object /\ Height(x) = Height(o)
        BY <1>1, <2>2, <3>1, <3>2, <4>1, <4>2, <4>4
      <4>5. CASE x \in Object /\ Height(x) # Height(o)
        BY <1>1, <2>2, <3>1, <3>2, <4>1, <4>2, <4>3, <4>5
      <4>6. CASE x \notin Object
        BY <1>1, <4>1, <4>2, <4>6
      <4> QED
        BY <4>4, <4>5, <4>6
    <3> QED
      BY <2>2, <3>3
  <2> QED
    BY <2>1, <2>2
<1>9. None \notin InBlocks(s) /\ None \notin InOrphans(s) /\ None \notin InCheckpoints(s) /\ None \notin D
  BY <1>2, ObjectFields DEF InBlocks, InOrphans, InCheckpoints, Waits
<1>10. t.startSyncFrom # None <=> s.startSyncFrom # None
  BY <1>1, <1>3
<1>11. t.startSyncFrom # None => t.startSyncFrom.hash = s.startSyncFrom.hash
  BY <1>1, <1>3
<1>12. Owned(t, D \ {o})
  <2>1. CASE old = None
    <3>1. /\ InBlocks(t) = InBlocks(s) \cup {o} /\ InCheckpoints(t) = InCheckpoints(s)
          /\ t.live = s.live /\ t.dated = s.dated
      <4>1. None \notin s.live /\ None \notin s.dated
        BY ObjectFields DEF Tables
      <4> QED
        BY <1>3, <1>5, <1>8, <1>9, <2>1, <4>1
    <3> QED
      BY <1>1, <1>2, <1>3, <1>7, <1>10, <1>11, <2>1, <3>1 DEF Owned
  <2>2. CASE old # None /\ IsCheckpoint(s, old)
    BY <1>1, <1>2, <1>3, <1>5, <1>7, <1>8, <1>9, <1>10, <1>11, <2>2 DEF Owned
  <2>3. CASE old # None /\ ~ IsCheckpoint(s, old)
    BY <1>1, <1>2, <1>3, <1>5, <1>7, <1>8, <1>9, <1>10, <1>11, <2>3 DEF Owned
  <2> QED
    BY <2>1, <2>2, <2>3
<1> QED
  BY <1>2, <1>3, <1>4, <1>6, <1>12 DEF Good

(* o becomes the tip.                                                      *)
Tipped(s, o) == [s EXCEPT !.lastBlock = o]

LEMMA TippedFields ==
  ASSUME NEW s \in Tables, NEW o \in Object
  PROVE  LET t == Tipped(s, o)
         IN /\ t \in Tables /\ t.lastBlock = o
            /\ t.blocks = s.blocks /\ t.orphans = s.orphans /\ t.checkpoints = s.checkpoints
            /\ t.lastOrphan = s.lastOrphan /\ t.startSyncFrom = s.startSyncFrom
            /\ t.live = s.live /\ t.dated = s.dated /\ t.memo = s.memo
  BY DEF Tables, Tipped

(* The pointers follow the newer object, and the older is freed.           *)
LEMMA FollowFreed ==
  ASSUME NEW s \in Tables, NEW old \in Object, NEW o \in Object, NEW q \in Tables,
         Prev[old.hash] \in Hashes, q.orphans[Prev[old.hash]] # old, q.lastOrphan # old
  PROVE  LET t == Freed(Follow(q, old, o), old)
         IN /\ t \in Tables /\ t.blocks = q.blocks /\ t.checkpoints = q.checkpoints
            /\ t.orphans = q.orphans /\ t.lastOrphan = q.lastOrphan
            /\ t.lastBlock = IF q.lastBlock = old THEN o ELSE q.lastBlock
            /\ t.startSyncFrom = IF q.startSyncFrom = old THEN o ELSE q.startSyncFrom
            /\ t.live = q.live \ {old} /\ t.dated = q.dated \ {old}
            /\ t.memo \in {q.memo, NoMemo}
<1> DEFINE f == Follow(q, old, o)
<1>1. /\ f \in Tables
      /\ f.blocks = q.blocks /\ f.checkpoints = q.checkpoints
      /\ f.orphans = [q.orphans EXCEPT ![Prev[old.hash]] = IF @ = old THEN None ELSE @]
      /\ f.lastOrphan = IF q.lastOrphan = old THEN None ELSE q.lastOrphan
      /\ f.lastBlock = IF q.lastBlock = old THEN o ELSE q.lastBlock
      /\ f.startSyncFrom = IF q.startSyncFrom = old THEN o ELSE q.startSyncFrom
      /\ f.live = q.live /\ f.dated = q.dated
      /\ f.memo = IF old \in {q.lastBlock, q.memo.tip} THEN NoMemo ELSE q.memo
  BY FollowFields
<1> HIDE DEF f
<1>2. /\ SameTables(f, Freed(f, old)) /\ Freed(f, old).lastOrphan = f.lastOrphan
      /\ Freed(f, old).live = f.live \ {old} /\ Freed(f, old).dated = f.dated \ {old}
  BY <1>1, FreedFields
<1>3. f.orphans = q.orphans
  BY <1>1 DEF Tables, Slots
<1>4. f.memo \in {q.memo, NoMemo}
  BY <1>1
<1> DEFINE t == Freed(f, old)
<1> HIDE DEF t
<1>5. /\ t \in Tables
      /\ t.blocks = f.blocks /\ t.orphans = f.orphans /\ t.checkpoints = f.checkpoints
      /\ t.lastBlock = f.lastBlock /\ t.startSyncFrom = f.startSyncFrom /\ t.memo = f.memo
      /\ t.lastOrphan = f.lastOrphan /\ t.live = f.live \ {old} /\ t.dated = f.dated \ {old}
  BY <1>2 DEF SameTables, t
<1>6. /\ t \in Tables /\ t.blocks = q.blocks /\ t.checkpoints = q.checkpoints
      /\ t.orphans = q.orphans /\ t.lastOrphan = q.lastOrphan
      /\ t.lastBlock = IF q.lastBlock = old THEN o ELSE q.lastBlock
      /\ t.startSyncFrom = IF q.startSyncFrom = old THEN o ELSE q.startSyncFrom
      /\ t.live = q.live \ {old} /\ t.dated = q.dated \ {old}
      /\ t.memo \in {q.memo, NoMemo}
  BY <1>1, <1>3, <1>4, <1>5
<1> QED
  BY <1>6 DEF t, f

(* What surrounds the header in hand in a good state.                      *)
LEMMA InHandLinks ==
  ASSUME NEW s \in Tables, NEW D, Good(s, D), NEW o \in D
  PROVE  LET old == s.blocks[o.hash]
         IN /\ Prev[o.hash] \in Hashes /\ Height(o) = HeightOf[Prev[o.hash]] + 1
            /\ s.lastOrphan # o /\ \A h \in Hashes : s.orphans[h] # o
            /\ old # None => /\ Prev[old.hash] \in Hashes /\ s.lastOrphan # old
                             /\ \A h \in Hashes : s.orphans[h] # old
<1> DEFINE old == s.blocks[o.hash]
<1>1. /\ Waits(o) /\ o # None /\ o \in Object /\ o \notin InOrphans(s)
      /\ old # None => old \in Object /\ old.hash = o.hash /\ old \notin InOrphans(s)
  BY InHand
<1> HIDE DEF old
<1>2. s.lastOrphan \in InOrphans(s) \cup {None}
  BY DEF Good, Owned
<1>3. \A h \in Hashes : s.orphans[h] # None => s.orphans[h] \in InOrphans(s)
  BY DEF InOrphans
<1>4. Prev[o.hash] \in Hashes /\ o.hash \in Hashes
  BY <1>1, ObjectFields DEF Waits
<1>5. Height(o) = HeightOf[Prev[o.hash]] + 1
  BY <1>4, HeadersLink DEF Height
<1> QED
  BY <1>1, <1>2, <1>3, <1>4, <1>5 DEF old

(* The tip's successor takes its place in the resident set.                *)
Extended(s, o) == [InstallSavedBlock(s, o) EXCEPT !.lastBlock = o]

LEMMA ExtendedInstalls ==
  ASSUME NEW s \in Tables, NEW D, Good(s, D), NEW o \in D, Prev[o.hash] = s.lastBlock.hash
  PROVE  Installed(s, Extended(s, o), o) /\ Extended(s, o).lastBlock = o
<1> DEFINE old == s.blocks[o.hash]
           p == Placed(s, o)
           k == Kept(p, o)
           f == Freed(Follow(p, old, o), old)
           t == Extended(s, o)
<1>1. /\ o \in Object /\ o # None /\ old # o
      /\ old # None => /\ old \in Object /\ old.hash = o.hash /\ Height(old) = Height(o)
                       /\ old \in s.dated
  BY InHand
<1>2. /\ Prev[o.hash] \in Hashes /\ Height(o) = HeightOf[Prev[o.hash]] + 1
      /\ old # None => /\ Prev[old.hash] \in Hashes /\ s.lastOrphan # old
                       /\ \A h \in Hashes : s.orphans[h] # old
  BY InHandLinks
<1>3. /\ p \in Tables /\ p.blocks = [s.blocks EXCEPT ![o.hash] = o]
      /\ p.orphans = s.orphans /\ p.checkpoints = s.checkpoints
      /\ p.lastBlock = s.lastBlock /\ p.lastOrphan = s.lastOrphan
      /\ p.startSyncFrom = s.startSyncFrom /\ p.memo = s.memo
      /\ p.live = s.live /\ p.dated = s.dated
  BY <1>1, PlacedFields
<1>4. t = Tipped(IF old \in {None, o} THEN p
                 ELSE IF IsCheckpoint(s, old) THEN Freed(k, old) ELSE f, o)
  BY DEF Extended, InstallSavedBlock, Placed, Kept, Tipped
<1> HIDE DEF old, p, t
<1>5. Height(o) = Height(s.lastBlock) + 1 /\ Height(o) \in Nat /\ Height(s.lastBlock) \in Nat
  BY <1>1, <1>2, MaxHeightIsMax, ObjectFields DEF Height, Tables
<1>6. old # None => old # s.startSyncFrom
  <2>1. SUFFICES ASSUME old # None, old = s.startSyncFrom PROVE FALSE
    OBVIOUS
  <2>2. Height(s.lastBlock) >= Height(s.startSyncFrom)
    BY <2>1 DEF Good, Keyed
  <2> QED
    BY <1>1, <1>5, <2>1, <2>2
<1> SUFFICES /\ t \in Tables /\ t.lastBlock = o /\ t.blocks = p.blocks
             /\ t.orphans = s.orphans /\ t.lastOrphan = s.lastOrphan
             /\ t.checkpoints = IF old # None /\ IsCheckpoint(s, old)
                                THEN [s.checkpoints EXCEPT ![Height(o)] = o] ELSE s.checkpoints
             /\ t.startSyncFrom = s.startSyncFrom
             /\ t.live = s.live \ {old} /\ t.dated = s.dated \ {old}
             /\ t.memo \in {s.memo, NoMemo}
  <2>1. s.startSyncFrom = IF s.startSyncFrom = old /\ old # None THEN o ELSE s.startSyncFrom
    BY <1>6
  <2>2. s.blocks[Prev[o.hash]] # None
    BY ObjectFields DEF Good, Keyed, Tables
  <2> QED
    BY <1>3, <1>5, <2>1, <2>2 DEF Installed, old, t
<1>7. CASE old = None
  <2>1. t = Tipped(p, o)
    BY <1>4, <1>7
  <2>2. None \notin s.live /\ None \notin s.dated
    BY ObjectFields DEF Tables
  <2> QED
    BY <1>1, <1>3, <1>7, <2>1, <2>2, TippedFields
<1>8. CASE old # None /\ IsCheckpoint(s, old)
  <2>1. /\ k \in Tables /\ k.checkpoints = [p.checkpoints EXCEPT ![Height(o)] = o]
        /\ k.blocks = p.blocks /\ k.orphans = p.orphans
        /\ k.lastBlock = p.lastBlock /\ k.lastOrphan = p.lastOrphan
        /\ k.startSyncFrom = p.startSyncFrom /\ k.memo = p.memo
        /\ k.live = p.live /\ k.dated = p.dated
    BY <1>1, <1>3, KeptFields
  <2> HIDE DEF k
  <2> DEFINE g == Freed(k, old)
  <2>2. /\ SameTables(k, g) /\ g.lastOrphan = k.lastOrphan
        /\ g.live = k.live \ {old} /\ g.dated = k.dated \ {old}
    BY <1>1, <1>8, <2>1, FreedFields
  <2>3. t = Tipped(g, o)
    BY <1>1, <1>4, <1>8
  <2> HIDE DEF g
  <2>4. /\ t \in Tables /\ t.lastBlock = o
        /\ t.blocks = g.blocks /\ t.orphans = g.orphans /\ t.checkpoints = g.checkpoints
        /\ t.lastOrphan = g.lastOrphan /\ t.startSyncFrom = g.startSyncFrom
        /\ t.live = g.live /\ t.dated = g.dated /\ t.memo = g.memo
    BY <1>1, <2>2, <2>3, TippedFields DEF SameTables
  <2> QED
    BY <1>3, <1>8, <2>1, <2>2, <2>4 DEF SameTables
<1>9. CASE old # None /\ ~ IsCheckpoint(s, old)
  <2>1. /\ f \in Tables /\ f.blocks = p.blocks /\ f.checkpoints = p.checkpoints
        /\ f.orphans = p.orphans /\ f.lastOrphan = p.lastOrphan
        /\ f.startSyncFrom = IF p.startSyncFrom = old THEN o ELSE p.startSyncFrom
        /\ f.live = p.live \ {old} /\ f.dated = p.dated \ {old}
        /\ f.memo \in {p.memo, NoMemo}
    <3>1. old \in Object /\ Prev[old.hash] \in Hashes /\ p.orphans[Prev[old.hash]] # old /\ p.lastOrphan # old
      BY <1>1, <1>2, <1>3, <1>9
    <3> QED
      BY <1>1, <1>3, <3>1, FollowFreed
  <2>2. t = Tipped(f, o)
    BY <1>1, <1>4, <1>9
  <2> HIDE DEF f
  <2>3. /\ t \in Tables /\ t.lastBlock = o
        /\ t.blocks = f.blocks /\ t.orphans = f.orphans /\ t.checkpoints = f.checkpoints
        /\ t.lastOrphan = f.lastOrphan /\ t.startSyncFrom = f.startSyncFrom
        /\ t.live = f.live /\ t.dated = f.dated /\ t.memo = f.memo
    BY <1>1, <2>1, <2>2, TippedFields
  <2>4. f.startSyncFrom = s.startSyncFrom
    BY <1>3, <1>6, <1>9, <2>1
  <2> QED
    BY <1>3, <1>9, <2>1, <2>3, <2>4
<1> QED
  BY <1>7, <1>8, <1>9

(* A header that is resident already is replaced by its newer object.      *)
LEMMA RefreshedInstalls ==
  ASSUME NEW s \in Tables, NEW D, Good(s, D), NEW o \in D, s.blocks[o.hash] # None,
         s.blocks[Prev[o.hash]] # None
  PROVE  /\ Installed(s, Refreshed(s, o), o)
         /\ Height(Refreshed(s, o).lastBlock) = Height(s.lastBlock)
<1> DEFINE old == s.blocks[o.hash]
           tip == IF s.lastBlock.hash = o.hash THEN Tipped(s, o) ELSE s
           p == Placed(tip, o)
           q == IF IsCheckpoint(s, old) THEN Kept(p, o) ELSE p
           t == Refreshed(s, o)
<1>1. /\ o \in Object /\ o # None /\ old # o /\ old # None
      /\ old \in Object /\ old.hash = o.hash /\ Height(old) = Height(o)
  BY InHand
<1>2. /\ Prev[old.hash] \in Hashes /\ s.lastOrphan # old /\ \A h \in Hashes : s.orphans[h] # old
  BY <1>1, InHandLinks
<1>3. t = Freed(Follow(q, old, o), old)
  BY <1>1 DEF Refreshed, Placed, Kept, Tipped
<1>4. /\ tip \in Tables /\ tip.lastBlock = IF s.lastBlock.hash = o.hash THEN o ELSE s.lastBlock
      /\ tip.blocks = s.blocks /\ tip.orphans = s.orphans /\ tip.checkpoints = s.checkpoints
      /\ tip.lastOrphan = s.lastOrphan /\ tip.startSyncFrom = s.startSyncFrom
      /\ tip.live = s.live /\ tip.dated = s.dated /\ tip.memo = s.memo
  BY <1>1, TippedFields
<1> HIDE DEF old, tip, t
<1>5. /\ p \in Tables /\ p.blocks = [tip.blocks EXCEPT ![o.hash] = o]
      /\ p.orphans = tip.orphans /\ p.checkpoints = tip.checkpoints
      /\ p.lastBlock = tip.lastBlock /\ p.lastOrphan = tip.lastOrphan
      /\ p.startSyncFrom = tip.startSyncFrom /\ p.memo = tip.memo
      /\ p.live = tip.live /\ p.dated = tip.dated
  BY <1>1, <1>4, PlacedFields
<1> HIDE DEF p
<1>6. /\ q \in Tables
      /\ q.checkpoints = IF IsCheckpoint(s, old) THEN [p.checkpoints EXCEPT ![Height(o)] = o]
                         ELSE p.checkpoints
      /\ q.blocks = p.blocks /\ q.orphans = p.orphans
      /\ q.lastBlock = p.lastBlock /\ q.lastOrphan = p.lastOrphan
      /\ q.startSyncFrom = p.startSyncFrom /\ q.memo = p.memo
      /\ q.live = p.live /\ q.dated = p.dated
  BY <1>1, <1>5, KeptFields
<1> HIDE DEF q
<1>7. q.orphans[Prev[old.hash]] # old /\ q.lastOrphan # old
  BY <1>2, <1>4, <1>5, <1>6
<1>8. /\ t \in Tables /\ t.blocks = q.blocks /\ t.checkpoints = q.checkpoints
      /\ t.orphans = q.orphans /\ t.lastOrphan = q.lastOrphan
      /\ t.lastBlock = IF q.lastBlock = old THEN o ELSE q.lastBlock
      /\ t.startSyncFrom = IF q.startSyncFrom = old THEN o ELSE q.startSyncFrom
      /\ t.live = q.live \ {old} /\ t.dated = q.dated \ {old}
      /\ t.memo \in {q.memo, NoMemo}
  BY <1>1, <1>2, <1>3, <1>6, <1>7, FollowFreed
<1>9. t.lastBlock = IF s.lastBlock.hash = o.hash THEN o ELSE s.lastBlock
  BY <1>1, <1>4, <1>5, <1>6, <1>8
<1>10. Height(t.lastBlock) = Height(s.lastBlock) /\ Height(t.lastBlock) >= Height(s.lastBlock)
  <2>1. Height(s.lastBlock) \in Nat
    BY MaxHeightIsMax, ObjectFields DEF Tables
  <2> QED
    BY <1>9, <2>1 DEF Height
<1>11. /\ t.blocks = [s.blocks EXCEPT ![o.hash] = o]
       /\ t.orphans = s.orphans /\ t.lastOrphan = s.lastOrphan
       /\ t.checkpoints = IF old # None /\ IsCheckpoint(s, old)
                          THEN [s.checkpoints EXCEPT ![Height(o)] = o] ELSE s.checkpoints
       /\ t.startSyncFrom = IF s.startSyncFrom = old /\ old # None THEN o ELSE s.startSyncFrom
       /\ t.live = s.live \ {old} /\ t.dated = s.dated \ {old}
       /\ t.memo \in {s.memo, NoMemo}
  BY <1>1, <1>4, <1>5, <1>6, <1>8
<1> QED
  BY <1>1, <1>8, <1>9, <1>10, <1>11 DEF Installed, old, t

(* A header of another branch, which becomes the tip's if it is higher.    *)
Forked(s, o) == IF IsBetter(s, o) THEN Tipped(Placed(s, o), o) ELSE Placed(s, o)

LEMMA ForkedInstalls ==
  ASSUME NEW s \in Tables, NEW D, Good(s, D), NEW o \in D, s.blocks[o.hash] = None,
         s.blocks[Prev[o.hash]] # None, \A c \in Checkpoints : Height(o) > HeightOf[c]
  PROVE  /\ Installed(s, Forked(s, o), o)
         /\ Height(Forked(s, o).lastBlock) >= Height(o)
<1> DEFINE p == Placed(s, o)
           t == Forked(s, o)
<1>1. o \in Object /\ o # None
  BY InHand
<1>2. /\ p \in Tables /\ p.blocks = [s.blocks EXCEPT ![o.hash] = o]
      /\ p.orphans = s.orphans /\ p.checkpoints = s.checkpoints
      /\ p.lastBlock = s.lastBlock /\ p.lastOrphan = s.lastOrphan
      /\ p.startSyncFrom = s.startSyncFrom /\ p.memo = s.memo
      /\ p.live = s.live /\ p.dated = s.dated
  BY <1>1, PlacedFields
<1>3. t = IF IsBetter(s, o) THEN Tipped(p, o) ELSE p
  BY DEF Forked
<1> HIDE DEF p, t
<1>4. /\ t \in Tables /\ t.lastBlock = IF IsBetter(s, o) THEN o ELSE s.lastBlock
      /\ t.blocks = p.blocks /\ t.orphans = p.orphans /\ t.checkpoints = p.checkpoints
      /\ t.lastOrphan = p.lastOrphan /\ t.startSyncFrom = p.startSyncFrom
      /\ t.live = p.live /\ t.dated = p.dated /\ t.memo = p.memo
  BY <1>1, <1>2, <1>3, TippedFields
<1>5. Height(s.lastBlock) \in Nat /\ Height(o) \in Nat
  BY <1>1, MaxHeightIsMax, ObjectFields DEF Tables
<1>6. Height(t.lastBlock) >= Height(s.lastBlock) /\ Height(t.lastBlock) >= Height(o)
  BY <1>4, <1>5 DEF IsBetter
<1>7. s.lastBlock.hash # o.hash
  <2>1. s.blocks[s.lastBlock.hash] = s.lastBlock /\ s.lastBlock # None
    BY ObjectFields DEF Good, Keyed, Tables
  <2> QED
    BY <2>1
<1>8. t.live = s.live \ {s.blocks[o.hash]} /\ t.dated = s.dated \ {s.blocks[o.hash]}
  <2>1. None \notin s.live /\ None \notin s.dated
    BY ObjectFields DEF Tables
  <2> QED
    BY <1>2, <1>4, <2>1
<1> QED
  BY <1>2, <1>4, <1>6, <1>7, <1>8 DEF Installed, t

(* No resident header is higher than the tip, if none was, the header that *)
(* took its place is not, or is a checkpoint's.                            *)
LEMMA InstalledBest ==
  ASSUME NEW s \in Tables, NEW D, Good(s, D), NEW o \in D, NEW t, Installed(s, t, o),
         o.hash \in Checkpoints \/ Height(t.lastBlock) >= Height(o), Above(t)
  PROVE  Above(s)
<1>1. o \in Object /\ o.copy # 0 /\ BlocksKeyed(s)
  BY InHand DEF Good, Keyed
<1>2. t.blocks = [s.blocks EXCEPT ![o.hash] = o] /\ Height(t.lastBlock) >= Height(s.lastBlock)
      /\ t \in Tables
  BY DEF Installed
<1>3. InBlocks(t) \subseteq InBlocks(s) \cup {o}
  BY <1>1, <1>2, PlacedCount
<1>4. PICK x \in InBlocks(t) : x.hash \notin Checkpoints /\ Height(x) > Height(t.lastBlock)
  BY DEF Above
<1>5. x \in Object
  BY <1>2, <1>4, BlocksMembers DEF Tables
<1>6. Height(x) \in Nat /\ Height(o) \in Nat /\ Height(t.lastBlock) \in Nat /\ Height(s.lastBlock) \in Nat
  BY <1>1, <1>2, <1>5, MaxHeightIsMax, ObjectFields DEF Tables
<1>7. x \in InBlocks(s)
  BY <1>3, <1>4, <1>6
<1> QED
  BY <1>2, <1>4, <1>6, <1>7 DEF Above

----------------------------------------------------------------------------
(* A header waits for its parent; others give way to it. *)

LEMMA SameMemo ==
  ASSUME NEW s, NEW t, t.blocks = s.blocks, t.memo = s.memo, MemoGood(s)
  PROVE  MemoGood(t)
<1>1. InBlocks(t) = InBlocks(s)
  BY DEF InBlocks
<1>2. \A x : Walk(t, x) = Walk(s, x)
  BY DEF Walk
<1>3. \A x, f : FloorNear(s, x, f) => FloorNear(t, x, f)
  BY <1>2 DEF FloorNear, IsLowest, Path
<1> QED
  BY <1>1, <1>3 DEF MemoGood

(* What keeps the sets keyed when only orphans come and go.                *)
LEMMA SameKeyed ==
  ASSUME NEW s, NEW t, Keyed(s), t.blocks = s.blocks, t.lastBlock = s.lastBlock,
         t.checkpoints = s.checkpoints, t.startSyncFrom = s.startSyncFrom,
         \A h \in Hashes : t.orphans[h] # None => Waits(t.orphans[h]) /\ Prev[t.orphans[h].hash] = h
  PROVE  Keyed(t)
<1>1. BlocksKeyed(t)
  BY DEF Keyed, BlocksKeyed
<1> QED
  BY <1>1 DEF Keyed, StartHeld

LEMMA EvictedKeeps ==
  ASSUME NEW s \in Tables, NEW D, Good(s, D), NEW t \in Evicted(s, s.lastOrphan)
  PROVE  t \in Tables /\ Good(t, D) /\ t.blocks = s.blocks /\ t.lastBlock = s.lastBlock
<1> DEFINE all == InOrphans(s)
           Left(E) == [s EXCEPT !.orphans = [h \in Hashes |-> IF s.orphans[h] \in E THEN None ELSE s.orphans[h]],
                                !.live = @ \ {o \in E : ~IsCheckpoint(s, o)}, !.dated = @ \ E]
<1>1. Keyed(s) /\ MemoGood(s) /\ Owned(s, D) /\ \A o \in D : Waits(o)
  BY DEF Good
<1>2. t = s \/ \E E \in SUBSET (all \ {s.lastOrphan}) : t = Left(E)
  BY DEF Evicted
<1>3. CASE t = s
  BY <1>3
<1>4. ASSUME NEW E \in SUBSET (all \ {s.lastOrphan}), t = Left(E)
      PROVE  t \in Tables /\ Good(t, D) /\ t.blocks = s.blocks /\ t.lastBlock = s.lastBlock
  <2>1. \A o \in E : o \in Object /\ Prev[o.hash] \in Hashes /\ s.orphans[Prev[o.hash]] = o /\ ~ IsCheckpoint(s, o)
    <3> SUFFICES ASSUME NEW o \in E
                 PROVE  o \in Object /\ Prev[o.hash] \in Hashes /\ s.orphans[Prev[o.hash]] = o /\ ~ IsCheckpoint(s, o)
      OBVIOUS
    <3>1. o \in InOrphans(s) /\ o \notin InCheckpoints(s)
      BY <1>1 DEF Owned
    <3>2. o \in Object /\ Prev[o.hash] \in Hashes /\ s.orphans[Prev[o.hash]] = o
      BY <1>1, <3>1, Members
    <3>3. ~ IsCheckpoint(s, o)
      BY <1>1, <3>1, <3>2, Members DEF IsCheckpoint
    <3> QED
      BY <3>2, <3>3
  <2>2. {o \in E : ~IsCheckpoint(s, o)} = E
    BY <2>1
  <2> DEFINE left == [h \in Hashes |-> IF s.orphans[h] \in E THEN None ELSE s.orphans[h]]
  <2>3. left \in Slots
    BY DEF Tables, Slots
  <2>4. t = [s EXCEPT !.orphans = left, !.live = s.live \ E, !.dated = s.dated \ E]
    BY <1>4, <2>2
  <2> HIDE DEF left
  <2>5. /\ t \in Tables /\ t.blocks = s.blocks /\ t.checkpoints = s.checkpoints
        /\ t.lastBlock = s.lastBlock /\ t.lastOrphan = s.lastOrphan
        /\ t.startSyncFrom = s.startSyncFrom /\ t.memo = s.memo
        /\ t.orphans = left /\ t.live = s.live \ E /\ t.dated = s.dated \ E
    BY <2>3, <2>4 DEF Tables
  <2>6. MemoGood(t)
    BY <1>1, <2>5, SameMemo
  <2>7. \A h \in Hashes : t.orphans[h] = s.orphans[h] \/ t.orphans[h] = None
    BY <2>5 DEF left
  <2>8. Keyed(t)
    <3>1. \A h \in Hashes : t.orphans[h] # None => Waits(t.orphans[h]) /\ Prev[t.orphans[h].hash] = h
      BY <1>1, <2>7 DEF Keyed
    <3> QED
      BY <1>1, <2>5, <3>1, SameKeyed
  <2>9. InOrphans(t) = InOrphans(s) \ E
    <3>1. None \notin E
      BY DEF InOrphans
    <3> QED
      BY <2>5, <3>1 DEF InOrphans, left
  <2>10. InBlocks(t) = InBlocks(s) /\ InCheckpoints(t) = InCheckpoints(s)
    BY <2>5 DEF InBlocks, InCheckpoints
  <2>11. E \subseteq InOrphans(s) /\ s.lastOrphan \notin E
    OBVIOUS
  <2>12. Owned(t, D)
    BY <1>1, <2>5, <2>9, <2>10, <2>11 DEF Owned
  <2> QED
    BY <1>1, <2>5, <2>6, <2>8, <2>12 DEF Good
<1> QED
  BY <1>2, <1>3, <1>4

LEMMA StoredKeeps ==
  ASSUME NEW s \in Tables, NEW D, Good(s, D), NEW o \in D, NEW t \in StoreOrphan(s, o)
  PROVE  t \in Tables /\ Good(t, D \ {o}) /\ t.blocks = s.blocks /\ t.lastBlock = s.lastBlock
<1> DEFINE x == s.orphans[Prev[o.hash]]
           placed == [s EXCEPT !.orphans[Prev[o.hash]] = o]
           settled == IF x \in {None, o} THEN placed ELSE Reclaimed(placed, x)
           z == [settled EXCEPT !.lastOrphan = o]
<1>1. /\ Waits(o) /\ o \in Object /\ o # None /\ o \in s.live
      /\ o \notin InBlocks(s) /\ o \notin InOrphans(s) /\ o \notin InCheckpoints(s)
  BY InHand
<1>2. Prev[o.hash] \in Hashes /\ x # o
  BY <1>1, InHandLinks
<1>3. Keyed(s) /\ MemoGood(s) /\ Owned(s, D) /\ \A d \in D : Waits(d)
  BY DEF Good
<1>4. t \in Evicted(z, o)
  BY DEF StoreOrphan
<1>5. /\ placed \in Tables /\ placed.orphans = [s.orphans EXCEPT ![Prev[o.hash]] = o]
      /\ placed.blocks = s.blocks /\ placed.checkpoints = s.checkpoints
      /\ placed.lastBlock = s.lastBlock /\ placed.startSyncFrom = s.startSyncFrom
      /\ placed.memo = s.memo /\ placed.lastOrphan = s.lastOrphan
      /\ placed.live = s.live /\ placed.dated = s.dated
  <2>1. [s.orphans EXCEPT ![Prev[o.hash]] = o] \in Slots
    BY <1>1 DEF Tables, Slots
  <2> QED
    BY <2>1 DEF Tables
<1>6. x # None => x \in Object /\ x \in InOrphans(s) /\ x \notin InCheckpoints(s) /\ ~ IsCheckpoint(placed, x)
  <2>1. SUFFICES ASSUME x # None
                 PROVE  x \in Object /\ x \in InOrphans(s) /\ x \notin InCheckpoints(s) /\ ~ IsCheckpoint(placed, x)
    OBVIOUS
  <2>2. x \in InOrphans(s)
    BY <1>2, <2>1 DEF InOrphans
  <2> HIDE DEF x, placed
  <2>3. x \in Object /\ x \notin InCheckpoints(s)
    BY <1>3, <2>2, Members DEF Owned
  <2>4. ~ IsCheckpoint(placed, x)
    BY <1>3, <1>5, <2>3, Members DEF IsCheckpoint
  <2> QED
    BY <2>2, <2>3, <2>4
<1> HIDE DEF x, placed
<1>7. /\ settled \in Tables /\ settled.orphans = placed.orphans
      /\ settled.blocks = s.blocks /\ settled.checkpoints = s.checkpoints
      /\ settled.lastBlock = s.lastBlock /\ settled.startSyncFrom = s.startSyncFrom
      /\ settled.memo = s.memo
      /\ settled.live = s.live \ {x} /\ settled.dated = s.dated \ {x}
  <2>1. CASE x = None
    <3>1. None \notin s.live /\ None \notin s.dated
      BY ObjectFields DEF Tables
    <3> QED
      BY <1>5, <2>1, <3>1
  <2>2. CASE x # None
    <3> DEFINE l == OrphanLeft(placed, x)
    <3>1. SameTables(placed, l) /\ l.live = placed.live /\ l.dated = placed.dated
      BY <1>5, <1>6, <2>2, OrphanLeftFields
    <3>2. settled = Freed(l, x)
      BY <1>2, <1>6, <2>2 DEF Reclaimed
    <3> HIDE DEF l, settled
    <3>3. l \in Tables
      BY <3>1 DEF SameTables
    <3>4. SameTables(l, settled) /\ settled.live = l.live \ {x} /\ settled.dated = l.dated \ {x}
      BY <1>6, <2>2, <3>2, <3>3, FreedFields
    <3> QED
      BY <1>5, <3>1, <3>4 DEF SameTables
  <2> QED
    BY <2>1, <2>2
<1> HIDE DEF settled
<1>8. /\ z \in Tables /\ z.orphans = [s.orphans EXCEPT ![Prev[o.hash]] = o]
      /\ z.blocks = s.blocks /\ z.checkpoints = s.checkpoints
      /\ z.lastBlock = s.lastBlock /\ z.startSyncFrom = s.startSyncFrom
      /\ z.memo = s.memo /\ z.lastOrphan = o
      /\ z.live = s.live \ {x} /\ z.dated = s.dated \ {x}
  BY <1>1, <1>5, <1>7 DEF Tables
<1> HIDE DEF z
<1>9. MemoGood(z)
  BY <1>3, <1>8, SameMemo
<1>10. Keyed(z)
  <2>1. \A h \in Hashes : z.orphans[h] # None => Waits(z.orphans[h]) /\ Prev[z.orphans[h].hash] = h
    BY <1>1, <1>2, <1>3, <1>8 DEF Keyed, Tables, Slots
  <2> QED
    BY <1>3, <1>8, <2>1, SameKeyed
<1>11. InOrphans(z) = (InOrphans(s) \ {x}) \cup {o}
  <2>1. ASSUME NEW y PROVE y \in InOrphans(z) <=> y \in (InOrphans(s) \ {x}) \cup {o}
    <3>1. y \in InOrphans(z) <=> y \in Object /\ Prev[y.hash] \in Hashes /\ z.orphans[Prev[y.hash]] = y
      BY <1>8, <1>10, Members
    <3>2. y \in InOrphans(s) <=> y \in Object /\ Prev[y.hash] \in Hashes /\ s.orphans[Prev[y.hash]] = y
      BY <1>3, Members
    <3>3. s.orphans \in Slots
      BY DEF Tables
    <3>4. CASE y \in Object /\ Prev[y.hash] = Prev[o.hash]
      BY <1>1, <1>2, <1>8, <3>1, <3>2, <3>3, <3>4 DEF x, Slots
    <3>5. CASE y \in Object /\ Prev[y.hash] # Prev[o.hash]
      <4>1. y # o
        BY <3>5
      <4>2. y # x \/ y \notin InOrphans(s)
        BY <1>2, <1>6, <3>2, <3>3, <3>5, ObjectFields DEF x, Slots, Good, Keyed
      <4> QED
        BY <1>2, <1>8, <3>1, <3>2, <3>3, <3>5, <4>1, <4>2 DEF Slots
    <3>6. CASE y \notin Object
      BY <1>1, <3>1, <3>2, <3>6
    <3> QED
      BY <3>4, <3>5, <3>6
  <2> QED
    BY <2>1
<1>12. InBlocks(z) = InBlocks(s) /\ InCheckpoints(z) = InCheckpoints(s)
  BY <1>8 DEF InBlocks, InCheckpoints
<1>13. None \notin InBlocks(s) /\ None \notin InOrphans(s) /\ None \notin InCheckpoints(s) /\ None \notin D
  BY <1>3, ObjectFields DEF InBlocks, InOrphans, InCheckpoints, Waits
<1>14. None \notin s.live /\ None \notin s.dated
  BY ObjectFields DEF Tables
<1>15. Owned(z, D \ {o})
  <2>1. CASE x = None
    <3>1. InOrphans(z) = InOrphans(s) \cup {o} /\ z.live = s.live /\ z.dated = s.dated
      BY <1>8, <1>11, <1>13, <1>14, <2>1
    <3> QED
      BY <1>1, <1>3, <1>8, <1>12, <3>1 DEF Owned
  <2>2. CASE x # None
    BY <1>1, <1>3, <1>6, <1>8, <1>11, <1>12, <2>2 DEF Owned
  <2> QED
    BY <2>1, <2>2
<1>16. Good(z, D \ {o})
  BY <1>3, <1>9, <1>10, <1>15 DEF Good
<1>17. t \in Evicted(z, z.lastOrphan)
  BY <1>4, <1>8 DEF z
<1>18. t \in Tables /\ Good(t, D \ {o}) /\ t.blocks = z.blocks /\ t.lastBlock = z.lastBlock
  BY <1>8, <1>16, <1>17, EvictedKeeps
<1> QED
  BY <1>8, <1>18

----------------------------------------------------------------------------
(* The other operations on a good state. *)

(* A header that was received is an object of its own.                     *)
LEMMA FreshKeeps ==
  ASSUME NEW s \in Tables, NEW D, Good(s, D), NEW o, Waits(o), o \notin s.live
  PROVE  LET t == [s EXCEPT !.live = @ \cup {o}]
         IN t \in Tables /\ Good(t, D \cup {o}) /\ t.blocks = s.blocks /\ t.lastBlock = s.lastBlock
<1> DEFINE t == [s EXCEPT !.live = @ \cup {o}]
<1>1. /\ t \in Tables /\ t.blocks = s.blocks /\ t.orphans = s.orphans /\ t.checkpoints = s.checkpoints
      /\ t.lastBlock = s.lastBlock /\ t.lastOrphan = s.lastOrphan
      /\ t.startSyncFrom = s.startSyncFrom /\ t.memo = s.memo
      /\ t.live = s.live \cup {o} /\ t.dated = s.dated
  BY DEF Tables, Waits
<1> HIDE DEF t
<1>2. Keyed(s) /\ MemoGood(s) /\ Owned(s, D) /\ \A d \in D : Waits(d)
  BY DEF Good
<1>3. Keyed(t) /\ MemoGood(t)
  <2>1. \A h \in Hashes : t.orphans[h] # None => Waits(t.orphans[h]) /\ Prev[t.orphans[h].hash] = h
    BY <1>1, <1>2 DEF Keyed
  <2> QED
    BY <1>1, <1>2, <2>1, SameKeyed, SameMemo
<1>4. InBlocks(t) = InBlocks(s) /\ InCheckpoints(t) = InCheckpoints(s) /\ InOrphans(t) = InOrphans(s)
  BY <1>1 DEF InBlocks, InCheckpoints, InOrphans
<1>5. Owned(t, D \cup {o})
  BY <1>1, <1>2, <1>4 DEF Owned
<1>6. t \in Tables /\ Good(t, D \cup {o}) /\ t.blocks = s.blocks /\ t.lastBlock = s.lastBlock
  BY <1>1, <1>2, <1>3, <1>5 DEF Good
<1> QED
  BY <1>6 DEF t

(* ... is given the height that follows from its parent's ...              *)
LEMMA DatedKeeps ==
  ASSUME NEW s \in Tables, NEW D, Good(s, D), NEW o \in D
  PROVE  LET t == [s EXCEPT !.dated = @ \cup {o}]
         IN /\ t \in Tables /\ Good(t, D) /\ o \in t.dated
            /\ t.blocks = s.blocks /\ t.lastBlock = s.lastBlock
<1> DEFINE t == [s EXCEPT !.dated = @ \cup {o}]
<1>1. o \in Object /\ o \in s.live
  BY InHand
<1>2. /\ t \in Tables /\ t.blocks = s.blocks /\ t.orphans = s.orphans /\ t.checkpoints = s.checkpoints
      /\ t.lastBlock = s.lastBlock /\ t.lastOrphan = s.lastOrphan
      /\ t.startSyncFrom = s.startSyncFrom /\ t.memo = s.memo
      /\ t.live = s.live /\ t.dated = s.dated \cup {o}
  BY <1>1 DEF Tables
<1> HIDE DEF t
<1>3. Keyed(s) /\ MemoGood(s) /\ Owned(s, D) /\ \A d \in D : Waits(d)
  BY DEF Good
<1>4. Keyed(t) /\ MemoGood(t)
  <2>1. \A h \in Hashes : t.orphans[h] # None => Waits(t.orphans[h]) /\ Prev[t.orphans[h].hash] = h
    BY <1>2, <1>3 DEF Keyed
  <2> QED
    BY <1>2, <1>3, <2>1, SameKeyed, SameMemo
<1>5. InBlocks(t) = InBlocks(s) /\ InCheckpoints(t) = InCheckpoints(s) /\ InOrphans(t) = InOrphans(s)
  BY <1>2 DEF InBlocks, InCheckpoints, InOrphans
<1>6. Owned(t, D)
  BY <1>1, <1>2, <1>3, <1>5 DEF Owned
<1>7. /\ t \in Tables /\ Good(t, D) /\ o \in t.dated
      /\ t.blocks = s.blocks /\ t.lastBlock = s.lastBlock
  BY <1>2, <1>3, <1>4, <1>6 DEF Good
<1> QED
  BY <1>7 DEF t

(* ... or is dropped.                                                      *)
LEMMA FreedKeeps ==
  ASSUME NEW s \in Tables, NEW D, Good(s, D), NEW o \in D
  PROVE  LET t == Freed(s, o)
         IN /\ t \in Tables /\ Good(t, D \ {o})
            /\ t.blocks = s.blocks /\ t.lastBlock = s.lastBlock
<1> DEFINE t == Freed(s, o)
<1>1. o \in Object /\ o \notin InBlocks(s) /\ o \notin InOrphans(s) /\ o \notin InCheckpoints(s)
  BY InHand
<1>2. /\ t \in Tables /\ t.blocks = s.blocks /\ t.orphans = s.orphans /\ t.checkpoints = s.checkpoints
      /\ t.lastBlock = s.lastBlock /\ t.lastOrphan = s.lastOrphan
      /\ t.startSyncFrom = s.startSyncFrom /\ t.memo = s.memo
      /\ t.live = s.live \ {o} /\ t.dated = s.dated \ {o}
  BY <1>1, FreedFields DEF SameTables
<1> HIDE DEF t
<1>3. Keyed(s) /\ MemoGood(s) /\ Owned(s, D) /\ \A d \in D : Waits(d)
  BY DEF Good
<1>4. Keyed(t) /\ MemoGood(t)
  <2>1. \A h \in Hashes : t.orphans[h] # None => Waits(t.orphans[h]) /\ Prev[t.orphans[h].hash] = h
    BY <1>2, <1>3 DEF Keyed
  <2> QED
    BY <1>2, <1>3, <2>1, SameKeyed, SameMemo
<1>5. InBlocks(t) = InBlocks(s) /\ InCheckpoints(t) = InCheckpoints(s) /\ InOrphans(t) = InOrphans(s)
  BY <1>2 DEF InBlocks, InCheckpoints, InOrphans
<1>6. Owned(t, D \ {o})
  BY <1>1, <1>2, <1>3, <1>5 DEF Owned
<1>7. /\ t \in Tables /\ Good(t, D \ {o})
      /\ t.blocks = s.blocks /\ t.lastBlock = s.lastBlock
  BY <1>2, <1>3, <1>4, <1>6 DEF Good
<1> QED
  BY <1>7 DEF t

(* What waited for a header that was handled is next.                      *)
LEMMA DoneKeeps ==
  ASSUME NEW s \in Tables, NEW D, Good(s, D), NEW o \in Object, Done(s, o, D)
  PROVE  m' \in Tables /\ Good(m', carried') /\ m'.blocks = s.blocks /\ m'.lastBlock = s.lastBlock
<1> DEFINE next == IF o \in s.dated THEN s.orphans[o.hash] ELSE None
           q == [s EXCEPT !.orphans[o.hash] = None]
           t == OrphanLeft(q, next)
<1>1. CASE next = None
  BY <1>1 DEF Done
<1>2. CASE next # None
  <2>1. m' = t /\ carried' = D \cup {next}
    BY <1>2 DEF Done
  <2>2. Keyed(s) /\ MemoGood(s) /\ Owned(s, D) /\ \A d \in D : Waits(d)
    BY DEF Good
  <2>3. o.hash \in Hashes /\ next = s.orphans[o.hash] /\ s.orphans \in Slots
    BY <1>2, ObjectFields DEF Tables
  <2> HIDE DEF next
  <2>4. next \in InOrphans(s) /\ Waits(next) /\ Prev[next.hash] = o.hash /\ next \in Object
    BY <1>2, <2>2, <2>3 DEF InOrphans, Keyed, Waits
  <2>5. /\ q \in Tables /\ q.orphans = [s.orphans EXCEPT ![o.hash] = None]
        /\ q.blocks = s.blocks /\ q.checkpoints = s.checkpoints
        /\ q.lastBlock = s.lastBlock /\ q.startSyncFrom = s.startSyncFrom
        /\ q.memo = s.memo /\ q.lastOrphan = s.lastOrphan
        /\ q.live = s.live /\ q.dated = s.dated
    <3>1. [s.orphans EXCEPT ![o.hash] = None] \in Slots
      BY <2>3 DEF Slots
    <3> QED
      BY <3>1 DEF Tables
  <2> HIDE DEF q
  <2>6. /\ SameTables(q, t) /\ t.lastOrphan = IF q.lastOrphan = next THEN None ELSE q.lastOrphan
        /\ t.live = q.live /\ t.dated = q.dated
    BY <2>4, <2>5, OrphanLeftFields
  <2> HIDE DEF t
  <2>7. /\ t \in Tables /\ t.orphans = [s.orphans EXCEPT ![o.hash] = None]
        /\ t.blocks = s.blocks /\ t.checkpoints = s.checkpoints
        /\ t.lastBlock = s.lastBlock /\ t.startSyncFrom = s.startSyncFrom
        /\ t.memo = s.memo /\ t.lastOrphan = (IF s.lastOrphan = next THEN None ELSE s.lastOrphan)
        /\ t.live = s.live /\ t.dated = s.dated
    BY <2>5, <2>6 DEF SameTables
  <2>8. Keyed(t) /\ MemoGood(t)
    <3>1. \A h \in Hashes : t.orphans[h] # None => Waits(t.orphans[h]) /\ Prev[t.orphans[h].hash] = h
      BY <2>2, <2>3, <2>7 DEF Keyed, Slots
    <3> QED
      BY <2>2, <2>7, <3>1, SameKeyed, SameMemo
  <2>9. InBlocks(t) = InBlocks(s) /\ InCheckpoints(t) = InCheckpoints(s)
    BY <2>7 DEF InBlocks, InCheckpoints
  <2>10. InOrphans(t) = InOrphans(s) \ {next}
    <3>1. ASSUME NEW y PROVE y \in InOrphans(t) <=> y \in InOrphans(s) \ {next}
      <4>1. y \in InOrphans(t) <=> y \in Object /\ Prev[y.hash] \in Hashes /\ t.orphans[Prev[y.hash]] = y
        BY <2>7, <2>8, Members
      <4>2. y \in InOrphans(s) <=> y \in Object /\ Prev[y.hash] \in Hashes /\ s.orphans[Prev[y.hash]] = y
        BY <2>2, Members
      <4>3. CASE y \in Object /\ Prev[y.hash] = o.hash
        BY <2>3, <2>7, <4>1, <4>2, <4>3, ObjectFields DEF Slots
      <4>4. CASE y \in Object /\ Prev[y.hash] # o.hash
        BY <2>3, <2>4, <2>7, <4>1, <4>2, <4>4 DEF Slots
      <4>5. CASE y \notin Object
        BY <4>1, <4>2, <4>5
      <4> QED
        BY <4>3, <4>4, <4>5
    <3> QED
      BY <3>1
  <2>11. Owned(t, D \cup {next})
    BY <2>2, <2>4, <2>7, <2>9, <2>10 DEF Owned
  <2> QED
    BY <2>1, <2>2, <2>4, <2>7, <2>8, <2>11 DEF Good
<1> QED
  BY <1>1, <1>2

(* The prune removes headers of the tip's chain, and not the tip.          *)
LEMMA PrunedKeeps ==
  ASSUME NEW s \in Tables, NEW D, Good(s, D), NEW t \in ClearMemory(s)
  PROVE  /\ t \in Tables /\ Good(t, D) /\ t.lastBlock = s.lastBlock
         /\ InBlocks(t) \subseteq InBlocks(s)
<1>1. Keyed(s) /\ BlocksKeyed(s) /\ MemoGood(s) /\ Owned(s, D) /\ \A d \in D : Waits(d)
  BY DEF Good, Keyed
<1>2. CASE t = s
  BY <1>2
<1>3. ASSUME NEW floor \in 0..MaxHeight, t = Pruned(s, floor)
      PROVE  /\ t \in Tables /\ Good(t, D) /\ t.lastBlock = s.lastBlock
             /\ InBlocks(t) \subseteq InBlocks(s)
  <2> DEFINE deep == {o \in Chain(s) : /\ Height(s.lastBlock) - Height(o) > PruneDepth
                                       /\ floor > 0 => Height(o) < floor}
             gone == IF Cardinality(InBlocks(s)) >= PruneFrom THEN deep ELSE {}
             free == {o \in gone : ~IsCheckpoint(s, o)}
             left == [h \in Hashes |-> IF s.blocks[h] \in gone THEN None ELSE s.blocks[h]]
  <2>1. s.lastBlock \in InBlocks(s) /\ s.lastBlock.hash \in Hashes /\ s.lastBlock # None
        /\ s.blocks[s.lastBlock.hash] = s.lastBlock
    <3>1. s.lastBlock \in Object /\ s.lastBlock.hash \in Hashes /\ s.lastBlock # None
      BY ObjectFields DEF Tables
    <3> QED
      BY <1>1, <3>1 DEF Keyed, InBlocks
  <2>2. gone \subseteq InBlocks(s)
    <3>1. Chain(s) = Path(s, s.lastBlock)
      BY DEF Chain, Path
    <3> QED
      BY <1>1, <2>1, <3>1, PathCovers
  <2>3. s.lastBlock \notin gone
    <3>1. Height(s.lastBlock) \in Nat /\ PruneDepth \in Nat
      BY HeadersLink, MaxHeightIsMax, ObjectFields DEF Tables
    <3> QED
      BY <3>1
  <2>4. t = [s EXCEPT !.blocks = left, !.live = s.live \ free, !.dated = s.dated \ free, !.memo = NoMemo]
    BY <1>3 DEF Pruned
  <2> HIDE DEF gone, deep
  <2>5. left \in Slots /\ NoMemo \in Memo
    BY DEF Tables, Slots, NoMemo, Memo
  <2>6. \A h \in Hashes : left[h] = IF s.blocks[h] \in gone THEN None ELSE s.blocks[h]
    OBVIOUS
  <2> HIDE DEF left, free
  <2>7. /\ t \in Tables /\ t.blocks = left /\ t.orphans = s.orphans /\ t.checkpoints = s.checkpoints
        /\ t.lastBlock = s.lastBlock /\ t.lastOrphan = s.lastOrphan
        /\ t.startSyncFrom = s.startSyncFrom /\ t.memo = NoMemo
        /\ t.live = s.live \ free /\ t.dated = s.dated \ free
    BY <2>4, <2>5 DEF Tables
  <2>8. BlocksKeyed(t)
    BY <1>1, <2>5, <2>6, <2>7 DEF BlocksKeyed
  <2>9. Keyed(t)
    <3>1. t.blocks[t.lastBlock.hash] = t.lastBlock
      BY <2>1, <2>3, <2>6, <2>7
    <3>2. StartsBuried => StartHeld(t)
      <4> DEFINE x == s.startSyncFrom
      <4>1. SUFFICES ASSUME StartsBuried, x # None
                     PROVE  \/ left[x.hash] = x
                            \/ left[x.hash] = None /\ (Prev[x.hash] \in Hashes => left[Prev[x.hash]] = None)
        BY <2>7 DEF StartHeld
      <4>2. x \in Object /\ x.hash \in Hashes /\ x.copy # 0
        BY <1>1, <4>1, ObjectFields DEF Tables, Keyed
      <4>3. CASE s.blocks[x.hash] # x \/ x \notin gone
        <5>1. \/ s.blocks[x.hash] = x
              \/ s.blocks[x.hash] = None /\ (Prev[x.hash] \in Hashes => s.blocks[Prev[x.hash]] = None)
          BY <1>1, <4>1 DEF Keyed, StartHeld
        <5> QED
          BY <2>6, <4>2, <4>3, <5>1
      <4>4. CASE s.blocks[x.hash] = x /\ x \in gone
        <5>1. left[x.hash] = None
          BY <2>6, <4>2, <4>4
        <5>2. ASSUME Prev[x.hash] \in Hashes, s.blocks[Prev[x.hash]] # None
              PROVE  s.blocks[Prev[x.hash]] \in gone
          <6> DEFINE y == s.blocks[Prev[x.hash]]
          <6>1. Parent(s, x) = y /\ x \in InBlocks(s)
            BY <2>2, <4>1, <4>2, <4>4, <5>2, HeadersLink DEF Parent, PrevOf
          <6>2. y \in InBlocks(s) /\ Height(x) = Height(y) + 1
            BY <1>1, <5>2, <6>1, KeyedMembers
          <6>3. x \in Chain(s) /\ x \in deep /\ gone = deep
            BY <4>4 DEF gone, deep
          <6>4. y \in Chain(s)
            <7>1. Chain(s) = Path(s, s.lastBlock)
              BY DEF Chain, Path
            <7> QED
              BY <1>1, <2>1, <5>2, <6>1, <6>3, <7>1, PathCovers
          <6> HIDE DEF y
          <6>5. Height(x) \in Nat /\ Height(y) \in Nat /\ Height(s.lastBlock) \in Nat
                /\ PruneDepth \in Nat /\ floor \in Nat
            BY <1>1, <2>1, <6>1, <6>2, KeyedMembers, MaxHeightIsMax, ObjectFields, HeadersLink
          <6>6. y \in deep
            BY <6>2, <6>3, <6>4, <6>5 DEF deep
          <6> QED
            BY <6>3, <6>6 DEF y
        <5> QED
          BY <2>6, <5>1, <5>2
      <4> QED
        BY <4>3, <4>4
    <3> QED
      BY <1>1, <2>7, <2>8, <3>1, <3>2 DEF Keyed
  <2>10. MemoGood(t)
    BY <2>7 DEF MemoGood, NoMemo
  <2>11. InOrphans(t) = InOrphans(s) /\ InCheckpoints(t) = InCheckpoints(s)
    BY <2>7 DEF InOrphans, InCheckpoints
  <2>12. InBlocks(t) = InBlocks(s) \ gone
    BY <2>6, <2>7 DEF InBlocks
  <2>13. free \subseteq gone /\ \A o \in gone : o \in free <=> o \notin InCheckpoints(s)
    <3>1. \A o \in gone : o \in InCheckpoints(s) <=> o \in s.dated /\ s.checkpoints[Height(o)] = o
      BY <1>1, <2>2, Members DEF Owned
    <3> QED
      BY <3>1 DEF free, IsCheckpoint
  <2>14. Owned(t, D)
    BY <1>1, <2>2, <2>7, <2>11, <2>12, <2>13 DEF Owned
  <2> QED
    BY <1>1, <2>7, <2>9, <2>10, <2>12, <2>14 DEF Good
<1> QED
  BY <1>2, <1>3 DEF ClearMemory

(* The floor that is memoised is the floor.                                *)
LEMMA FloorAskedKeeps ==
  ASSUME NEW s \in Tables, NEW D, Good(s, D)
  PROVE  LET t == FloorAsked(s)
         IN t \in Tables /\ Good(t, D) /\ t.blocks = s.blocks /\ t.lastBlock = s.lastBlock
<1> DEFINE memo == [tip |-> s.lastBlock, count |-> Cardinality(InBlocks(s)), floor |-> BlockFloor(s)]
           t == [s EXCEPT !.memo = memo]
<1>1. Keyed(s) /\ BlocksKeyed(s) /\ MemoGood(s) /\ Owned(s, D) /\ \A d \in D : Waits(d)
  BY DEF Good, Keyed
<1>2. s.lastBlock \in InBlocks(s) /\ s.lastBlock # None /\ s.blocks[s.lastBlock.hash] = s.lastBlock
      /\ s.lastBlock \in Object
  <2>1. s.lastBlock \in Object /\ s.lastBlock.hash \in Hashes /\ s.lastBlock # None
    BY ObjectFields DEF Tables
  <2> QED
    BY <1>1, <2>1 DEF Keyed, InBlocks
<1>3. IsLowest(s, s.lastBlock, BlockFloor(s)) /\ BlockFloor(s) \in 0..MaxHeight
  BY <1>1, <1>2, BlockFloorIsLowest
<1>4. Cardinality(InBlocks(s)) \in Nat /\ MaxHeight \in Nat
  BY <1>1, Counted, MaxHeightIsMax DEF BlocksKeyed
<1>5. FloorAsked(s) = IF MemoHits(s) THEN s ELSE t
  BY DEF FloorAsked, Key
<1>6. memo \in Memo /\ memo.tip = s.lastBlock /\ memo.count = Cardinality(InBlocks(s))
      /\ memo.floor = BlockFloor(s)
  BY <1>2, <1>3, <1>4 DEF Memo
<1> HIDE DEF memo
<1>7. /\ t \in Tables /\ t.blocks = s.blocks /\ t.orphans = s.orphans /\ t.checkpoints = s.checkpoints
      /\ t.lastBlock = s.lastBlock /\ t.lastOrphan = s.lastOrphan
      /\ t.startSyncFrom = s.startSyncFrom /\ t.memo = memo
      /\ t.live = s.live /\ t.dated = s.dated
  BY <1>6 DEF Tables
<1> HIDE DEF t
<1>8. InBlocks(t) = InBlocks(s) /\ InCheckpoints(t) = InCheckpoints(s) /\ InOrphans(t) = InOrphans(s)
  BY <1>7 DEF InBlocks, InCheckpoints, InOrphans
<1>9. Keyed(t)
  <2>1. \A h \in Hashes : t.orphans[h] # None => Waits(t.orphans[h]) /\ Prev[t.orphans[h].hash] = h
    BY <1>1, <1>7 DEF Keyed
  <2> QED
    BY <1>1, <1>7, <2>1, SameKeyed
<1>10. FloorNear(t, s.lastBlock, BlockFloor(s))
  <2>1. FloorNear(s, s.lastBlock, BlockFloor(s))
    BY <1>3 DEF FloorNear
  <2>2. \A x : Walk(t, x) = Walk(s, x)
    BY <1>7 DEF Walk
  <2> QED
    BY <2>1, <2>2 DEF FloorNear, IsLowest, Path
<1>11. MemoGood(t)
  BY <1>2, <1>4, <1>6, <1>7, <1>8, <1>10 DEF MemoGood
<1>12. Owned(t, D)
  BY <1>1, <1>7, <1>8 DEF Owned
<1>13. t \in Tables /\ Good(t, D) /\ t.blocks = s.blocks /\ t.lastBlock = s.lastBlock
  BY <1>1, <1>7, <1>9, <1>11, <1>12 DEF Good
<1> QED
  BY <1>5, <1>13

(* A rescan moves the tip back to the header to start from, which it puts  *)
(* in its place again, or to the checkpoint of the wallet's birth.         *)
LEMMA RescanKeeps ==
  ASSUME m \in Tables, Good(m, carried), Rescan
  PROVE  m' \in Tables /\ Good(m', carried')
<1>1. Keyed(m) /\ BlocksKeyed(m) /\ MemoGood(m) /\ Owned(m, carried) /\ \A d \in carried : Waits(d)
  BY DEF Good, Keyed
<1>2. carried' = carried
  BY DEF Rescan
<1>3. CASE m.startSyncFrom = None
  <2> DEFINE b == IF m.blocks[Birth] = None THEN m.lastBlock ELSE m.blocks[Birth]
  <2>1. m' = Tipped(m, b)
    BY <1>3 DEF Rescan, Tipped
  <2>2. b \in Object /\ m.blocks[b.hash] = b
    BY <1>1, HeadersLink DEF Tables, Slots, Keyed, BlocksKeyed
  <2> HIDE DEF b
  <2>3. /\ m' \in Tables /\ m'.lastBlock = b
        /\ m'.blocks = m.blocks /\ m'.orphans = m.orphans /\ m'.checkpoints = m.checkpoints
        /\ m'.lastOrphan = m.lastOrphan /\ m'.startSyncFrom = m.startSyncFrom
        /\ m'.live = m.live /\ m'.dated = m.dated /\ m'.memo = m.memo
    BY <2>1, <2>2, TippedFields
  <2>4. InBlocks(m') = InBlocks(m) /\ InCheckpoints(m') = InCheckpoints(m) /\ InOrphans(m') = InOrphans(m)
    BY <2>3 DEF InBlocks, InCheckpoints, InOrphans
  <2>5. Keyed(m')
    BY <1>1, <1>3, <2>2, <2>3 DEF Keyed, BlocksKeyed, StartHeld
  <2>6. MemoGood(m')
    BY <1>1, <2>3, SameMemo
  <2>7. Owned(m', carried)
    BY <1>1, <2>3, <2>4 DEF Owned
  <2> QED
    BY <1>1, <1>2, <2>3, <2>5, <2>6, <2>7 DEF Good
<1>4. CASE m.startSyncFrom # None
  <2> DEFINE b == m.startSyncFrom
             old == m.blocks[b.hash]
             p == Placed(m, b)
  <2>1. /\ b \in Object /\ b # None /\ b.copy # 0 /\ b.hash \in Starts
        /\ m.checkpoints[Height(b)] = b
    BY <1>1, <1>4 DEF Keyed, Tables
  <2>2. /\ p \in Tables /\ p.blocks = [m.blocks EXCEPT ![b.hash] = b]
        /\ p.orphans = m.orphans /\ p.checkpoints = m.checkpoints
        /\ p.lastBlock = m.lastBlock /\ p.lastOrphan = m.lastOrphan
        /\ p.startSyncFrom = m.startSyncFrom /\ p.memo = m.memo
        /\ p.live = m.live /\ p.dated = m.dated
    BY <2>1, PlacedFields
  <2>3. m' = Tipped(p, b)
    BY <1>4 DEF Rescan, Tipped, Placed
  <2> HIDE DEF old, p
  <2>4. /\ m' \in Tables /\ m'.lastBlock = b /\ m'.blocks = [m.blocks EXCEPT ![b.hash] = b]
        /\ m'.orphans = m.orphans /\ m'.checkpoints = m.checkpoints
        /\ m'.lastOrphan = m.lastOrphan /\ m'.startSyncFrom = b
        /\ m'.live = m.live /\ m'.dated = m.dated /\ m'.memo = m.memo
    BY <2>1, <2>2, <2>3, TippedFields
  <2>5. /\ BlocksKeyed(m') /\ InBlocks(m') = (InBlocks(m) \ {old}) \cup {b}
    BY <1>1, <2>1, <2>4, PlacedCount DEF old
  <2>6. MemoGood(m')
    BY <1>1, <2>1, <2>4, PlacedMemo
  <2>7. b.hash \in Hashes /\ Height(b) \in Nat
    BY <2>1, MaxHeightIsMax, ObjectFields
  <2>8. Keyed(m')
    <3>1. m'.blocks[b.hash] = b
      BY <2>4, <2>7 DEF Tables, Slots
    <3> QED
      BY <1>1, <2>1, <2>4, <2>5, <2>7, <3>1 DEF Keyed, StartHeld
  <2>9. InCheckpoints(m') = InCheckpoints(m) /\ InOrphans(m') = InOrphans(m)
    BY <2>4 DEF InCheckpoints, InOrphans
  <2>10. b \in InCheckpoints(m)
    BY <1>1, <2>1, Members
  <2>11. old # None /\ old # b => old.hash = b.hash /\ old \notin InCheckpoints(m) /\ ~ StartsBuried
    <3>1. SUFFICES ASSUME old # None, old # b
                   PROVE  old.hash = b.hash /\ old \notin InCheckpoints(m) /\ ~ StartsBuried
      OBVIOUS
    <3>2. old.hash = b.hash
      BY <1>1, <2>7, <3>1 DEF old, BlocksKeyed
    <3>3. m.checkpoints[Height(old)] # old
      BY <2>1, <3>1, <3>2 DEF Height
    <3>4. ~ StartsBuried
      BY <1>1, <2>1, <3>1 DEF Keyed, StartHeld, old
    <3> QED
      BY <1>1, <3>2, <3>3, <3>4, Members
  <2>12. Owned(m', carried)
    <3>1. None \notin m.live
      BY ObjectFields DEF Tables
    <3> QED
      BY <1>1, <2>1, <2>4, <2>5, <2>9, <2>10, <2>11, <3>1 DEF Owned
  <2> QED
    BY <1>1, <1>2, <2>4, <2>6, <2>8, <2>12 DEF Good
<1> QED
  BY <1>3, <1>4

----------------------------------------------------------------------------
(* A new manager. *)

LEMMA HighestIsOne ==
  ASSUME NEW run \in SUBSET Hashes, run # {}
  PROVE  Highest(run) \in run
<1> DEFINE T == {n \in Nat : \E h \in run : HeightOf[h] + n = MaxHeight}
<1>1. MaxHeight \in Nat /\ \A h \in run : HeightOf[h] \in 0..MaxHeight
  BY MaxHeightIsMax
<1>2. T # {}
  <2>1. PICK h \in run : TRUE
    OBVIOUS
  <2>2. MaxHeight - HeightOf[h] \in Nat /\ HeightOf[h] + (MaxHeight - HeightOf[h]) = MaxHeight
    BY <1>1
  <2> QED
    BY <2>2
<1>3. PICK n \in T : \A k \in T : n <= k
  BY <1>2, Least
<1>4. PICK h \in run : HeightOf[h] + n = MaxHeight
  BY <1>3
<1>5. \A k \in run : HeightOf[k] <= HeightOf[h]
  <2> SUFFICES ASSUME NEW k \in run PROVE HeightOf[k] <= HeightOf[h]
    OBVIOUS
  <2>1. MaxHeight - HeightOf[k] \in Nat /\ HeightOf[k] + (MaxHeight - HeightOf[k]) = MaxHeight
    BY <1>1
  <2>2. n <= MaxHeight - HeightOf[k]
    BY <1>3, <2>1
  <2> QED
    BY <1>1, <1>3, <1>4, <2>1, <2>2
<1> QED
  BY <1>5 DEF Highest

LEMMA OpenedGood ==
  ASSUME NEW run \in Runs, NEW start \in Starts \ run
  PROVE  Opened(run, start) \in Tables /\ Good(Opened(run, start), {})
<1> DEFINE first(h) == [hash |-> h, copy |-> 1]
           begin == IF start = None THEN None ELSE first(start)
           resident == [h \in Hashes |-> IF h \in Checkpoints THEN Stub(h)
                                         ELSE IF h \in run \cup {start} THEN first(h) ELSE None]
           all == {resident[h] : h \in Hashes} \ {None}
           pins(n) == {resident[h] : h \in {k \in Checkpoints \cup ({start} \ {None}) : HeightOf[k] = n}}
           points == [n \in 0..MaxHeight |-> IF pins(n) = {} THEN None ELSE CHOOSE o \in pins(n) : TRUE]
           last == IF start # None THEN begin ELSE IF run # {} THEN first(Highest(run)) ELSE Stub(Birth)
           t == Opened(run, start)
<1>1. t = [blocks |-> resident, orphans |-> [h \in Hashes |-> None], checkpoints |-> points,
           lastBlock |-> last, lastOrphan |-> None, startSyncFrom |-> begin,
           live |-> all, dated |-> all, memo |-> NoMemo]
  BY DEF Opened
<1>2. /\ Birth \in Checkpoints /\ Checkpoints \subseteq Hashes /\ None \notin Hashes
      /\ run \subseteq Hashes \ Checkpoints
      /\ start # None => start \in Hashes /\ start \notin Checkpoints /\ start \in Starts
  BY HeadersLink DEF Runs
<1>3. /\ \A h \in Hashes : first(h) \in Object /\ first(h).hash = h /\ first(h).copy = 1
      /\ \A h \in Hashes : Stub(h) \in Object /\ Stub(h).hash = h /\ Stub(h).copy = 0
  BY DEF Object, Stub
<1>4. /\ \A h \in Checkpoints : resident[h] = Stub(h)
      /\ \A h \in run : resident[h] = first(h)
      /\ start # None => resident[start] = first(start)
      /\ \A h \in Hashes : resident[h] = None \/ (h \in Checkpoints /\ resident[h] = Stub(h))
                           \/ (h \notin Checkpoints /\ resident[h] = first(h))
  BY <1>2
<1>5. None \notin Object
  BY ObjectFields
<1>6. resident \in Slots
  BY <1>3, <1>4 DEF Slots
<1>7. begin \in Object \cup {None} /\ (begin # None => start # None /\ begin = first(start))
  BY <1>2, <1>3
<1>8. last \in Object /\ resident[last.hash] = last
  <2>1. run # {} => Highest(run) \in run
    BY <1>2, HighestIsOne
  <2>2. CASE start # None
    BY <1>2, <1>3, <1>4, <2>2
  <2>3. CASE start = None /\ run # {}
    BY <1>2, <1>3, <1>4, <2>1, <2>3
  <2>4. CASE start = None /\ run = {}
    BY <1>2, <1>3, <1>4, <2>4
  <2> QED
    BY <2>2, <2>3, <2>4
<1> HIDE DEF resident, last
<1>9. \A n \in 0..MaxHeight : points[n] = None \/ points[n] \in pins(n)
  OBVIOUS
<1>10. \A n : \A o \in pins(n) : o \in Object /\ o \in all /\ Height(o) = n
  <2> SUFFICES ASSUME NEW n, NEW h \in Checkpoints \cup ({start} \ {None}), HeightOf[h] = n
               PROVE  resident[h] \in Object /\ resident[h] \in all /\ Height(resident[h]) = n
    OBVIOUS
  <2>1. h \in Hashes /\ resident[h] \in Object /\ resident[h].hash = h
    BY <1>2, <1>3, <1>4
  <2> QED
    BY <1>5, <2>1 DEF Height
<1>11. ASSUME begin # None PROVE points[Height(begin)] = begin
  <2>1. start # None /\ begin = resident[start] /\ start \in Hashes /\ begin.hash = start
        /\ start \in Starts /\ begin \in Object
    BY <1>2, <1>3, <1>4, <1>7, <1>11
  <2> DEFINE n == HeightOf[start]
  <2>2. Height(begin) = n /\ n \in 0..MaxHeight
    BY <2>1, ObjectFields DEF Height
  <2>3. \A c \in Checkpoints : HeightOf[c] # n
    BY <1>2, <2>1, HeadersLink
  <2>4. {k \in Checkpoints \cup ({start} \ {None}) : HeightOf[k] = n} = {start}
    BY <2>1, <2>3
  <2>5. pins(n) = {begin}
    BY <2>1, <2>4
  <2> HIDE DEF pins, n, begin
  <2> QED
    BY <2>2, <2>5
<1>12. points \in [0..MaxHeight -> Object \cup {None}]
  BY <1>9, <1>10
<1> HIDE DEF points, pins
<1>13. all \subseteq Object
  BY <1>6 DEF Slots
<1>14. begin # None => begin.copy # 0 /\ begin.hash \in Starts /\ last = begin
  BY <1>2, <1>3, <1>7 DEF last
<1> HIDE DEF begin
<1>15. NoMemo \in Memo /\ [h \in Hashes |-> None] \in Slots
  BY DEF NoMemo, Memo, Slots
<1>16. all = {resident[h] : h \in Hashes} \ {None}
  OBVIOUS
<1> HIDE DEF all
<1>17. t \in Tables
  BY <1>1, <1>6, <1>7, <1>8, <1>12, <1>13, <1>15 DEF Tables
<1>18. /\ t.blocks = resident /\ t.orphans = [h \in Hashes |-> None] /\ t.checkpoints = points
       /\ t.lastBlock = last /\ t.lastOrphan = None /\ t.startSyncFrom = begin
       /\ t.live = all /\ t.dated = all /\ t.memo = NoMemo
  BY <1>1
<1> HIDE DEF t
<1>19. BlocksKeyed(t)
  <2>1. ASSUME NEW h \in Hashes, resident[h] # None
        PROVE  resident[h].hash = h /\ (resident[h].copy = 0 => h \in Checkpoints)
    <3>1. CASE h \in Checkpoints
      BY <1>3, <1>4, <3>1
    <3>2. CASE h \notin Checkpoints
      <4>1. resident[h] = first(h)
        BY <1>4, <2>1, <3>2
      <4> QED
        BY <1>3, <4>1
    <3> QED
      BY <3>1, <3>2
  <2> QED
    BY <1>6, <1>18, <2>1 DEF BlocksKeyed
<1>20. MemoGood(t)
  BY <1>18 DEF MemoGood, NoMemo
<1>21. Keyed(t)
  <2>1. \A n \in 0..MaxHeight : t.checkpoints[n] # None => Height(t.checkpoints[n]) = n
    BY <1>9, <1>10, <1>18
  <2>2. t.startSyncFrom # None =>
          /\ t.startSyncFrom.copy # 0 /\ t.startSyncFrom.hash \in Starts
          /\ t.checkpoints[Height(t.startSyncFrom)] = t.startSyncFrom
          /\ Height(t.lastBlock) >= Height(t.startSyncFrom)
    <3>1. Height(last) \in Nat
      BY <1>8, MaxHeightIsMax, ObjectFields
    <3> QED
      BY <1>11, <1>14, <1>18, <3>1
  <2>3. StartHeld(t)
    BY <1>8, <1>14, <1>18 DEF StartHeld
  <2> QED
    BY <1>8, <1>18, <1>19, <2>1, <2>2, <2>3 DEF Keyed
<1>22. InBlocks(t) = all /\ InOrphans(t) = {} /\ InCheckpoints(t) \subseteq all
  <2>1. InBlocks(t) = all
    BY <1>16, <1>18 DEF InBlocks
  <2>2. InOrphans(t) = {}
    BY <1>18 DEF InOrphans
  <2>3. InCheckpoints(t) \subseteq all
    BY <1>9, <1>10, <1>18 DEF InCheckpoints
  <2> QED
    BY <2>1, <2>2, <2>3
<1>23. Owned(t, {})
  BY <1>18, <1>22 DEF Owned
<1> QED
  BY <1>17, <1>20, <1>21, <1>23 DEF Good, t

----------------------------------------------------------------------------
(* One relayed header, and the theorems. *)

LEMMA SameAbove ==
  ASSUME NEW s, NEW t, InBlocks(t) \subseteq InBlocks(s), t.lastBlock = s.lastBlock, Above(t)
  PROVE  Above(s)
BY DEF Above

LEMMA HandleKeeps ==
  ASSUME NEW s \in Tables, NEW C, NEW o, o \notin C, Good(s, C \cup {o}), Handle(s, o, C)
  PROVE  m' \in Tables /\ Good(m', carried') /\ (Above(m') => Above(s))
<1> DEFINE D == C \cup {o}
           d == [s EXCEPT !.dated = @ \cup {o}]
           Result == m' \in Tables /\ Good(m', carried') /\ (Above(m') => Above(s))
<1>1. o \in D /\ D \ {o} = C /\ Good(s, D)
  OBVIOUS
<1> HIDE DEF D
<1>2. o \in Object /\ BlocksKeyed(s)
  BY <1>1, InHand DEF Good, Keyed
<1>3. /\ d \in Tables /\ Good(d, D) /\ o \in d.dated
      /\ d.blocks = s.blocks /\ d.lastBlock = s.lastBlock
  BY <1>1, DatedKeeps
<1>4. InBlocks(d) = InBlocks(s)
  BY <1>3 DEF InBlocks
<1> HIDE DEF d
<1>5. Above(d) => Above(s)
  BY <1>3, <1>4, SameAbove
<1>6. ASSUME NEW r \in Tables, Good(r, C), Done(r, o, C), Above(r) => Above(s)
      PROVE  Result
  <2>1. m' \in Tables /\ Good(m', carried') /\ m'.blocks = r.blocks /\ m'.lastBlock = r.lastBlock
    BY <1>2, <1>6, DoneKeeps
  <2>2. InBlocks(m') = InBlocks(r)
    BY <2>1 DEF InBlocks
  <2> QED
    BY <1>6, <2>1, <2>2, SameAbove
<1>7. ASSUME NEW q \in Tables, Good(q, D), q.blocks = s.blocks, q.lastBlock = s.lastBlock,
             NEW r \in StoreOrphan(q, o), Done(r, o, C)
      PROVE  Result
  <2>1. r \in Tables /\ Good(r, C) /\ r.blocks = q.blocks /\ r.lastBlock = q.lastBlock
    BY <1>1, <1>7, StoredKeeps
  <2>2. InBlocks(r) = InBlocks(s)
    BY <1>7, <2>1 DEF InBlocks
  <2>3. Above(r) => Above(s)
    BY <1>7, <2>1, <2>2, SameAbove
  <2> QED
    BY <1>6, <1>7, <2>1, <2>3
<1>8. ASSUME NEW q \in Tables, Good(q, D), q.blocks = s.blocks, q.lastBlock = s.lastBlock,
             Dropped(q, o, C)
      PROVE  Result
  <2>1. m' = Freed(q, o) /\ carried' = C
    BY <1>8 DEF Dropped
  <2>2. m' \in Tables /\ Good(m', C) /\ m'.blocks = q.blocks /\ m'.lastBlock = q.lastBlock
    BY <1>1, <1>8, <2>1, FreedKeeps
  <2>3. InBlocks(m') = InBlocks(s)
    BY <1>8, <2>2 DEF InBlocks
  <2> QED
    BY <1>8, <2>1, <2>2, <2>3, SameAbove
<1>9. ASSUME NEW t, Installed(d, t, o), o.hash \in Checkpoints \/ Height(t.lastBlock) >= Height(o)
      PROVE  t \in Tables /\ Good(t, C) /\ (Above(t) => Above(s))
  <2>1. t \in Tables /\ Good(t, C)
    BY <1>1, <1>3, <1>9, InstalledKeeps
  <2>2. Above(t) => Above(d)
    BY <1>1, <1>3, <1>9, InstalledBest
  <2> QED
    BY <1>5, <2>1, <2>2
<1>10. Height(o) \in Nat /\ Height(s.lastBlock) \in Nat
  BY <1>2, MaxHeightIsMax, ObjectFields DEF Tables
<1>11. CASE \E r \in StoreOrphan(s, o) : Done(r, o, C)
  BY <1>1, <1>7, <1>11
<1>12. CASE Dropped(s, o, C)
  BY <1>1, <1>8, <1>12
<1>13. CASE Prev[o.hash] = s.lastBlock.hash /\ Extends(d, o, C)
  <2> DEFINE t == Extended(d, o)
  <2>1. Installed(d, t, o) /\ t.lastBlock = o
    BY <1>1, <1>3, <1>13, ExtendedInstalls
  <2>2. PICK r \in ClearMemory(t) : Done(r, o, C)
    BY <1>13 DEF Extends, Extended
  <2> HIDE DEF t
  <2>3. t \in Tables /\ Good(t, C) /\ (Above(t) => Above(s))
    BY <1>9, <1>10, <2>1
  <2>4. /\ r \in Tables /\ Good(r, C) /\ r.lastBlock = t.lastBlock
        /\ InBlocks(r) \subseteq InBlocks(t)
    BY <2>2, <2>3, PrunedKeeps
  <2>5. Above(r) => Above(s)
    BY <2>3, <2>4, SameAbove
  <2> QED
    BY <1>6, <2>2, <2>4, <2>5
<1>14. CASE s.blocks[Prev[o.hash]] # None /\ s.blocks[o.hash] # None /\ Done(Refreshed(d, o), o, C)
  <2> DEFINE t == Refreshed(d, o)
             old == d.blocks[o.hash]
  <2>1. Installed(d, t, o) /\ Height(t.lastBlock) = Height(d.lastBlock) /\ old # None
    BY <1>1, <1>3, <1>14, RefreshedInstalls
  <2> HIDE DEF t
  <2>2. t \in Tables /\ Good(t, C)
    BY <1>1, <1>3, <2>1, InstalledKeeps
  <2>3. Above(t) => Above(d)
    <3>1. SUFFICES ASSUME Above(t) PROVE Above(d)
      OBVIOUS
    <3>2. CASE o.hash \in Checkpoints \/ Height(t.lastBlock) >= Height(o)
      BY <1>1, <1>3, <2>1, <3>1, <3>2, InstalledBest
    <3>3. CASE o.hash \notin Checkpoints /\ ~ (Height(t.lastBlock) >= Height(o))
      <4>1. old \in InBlocks(d) /\ old.hash = o.hash /\ Height(old) = Height(o)
        BY <1>1, <1>3, <2>1, InHand
      <4>2. Height(old) > Height(d.lastBlock)
        BY <1>3, <1>10, <2>1, <3>3, <4>1
      <4> QED
        BY <3>3, <4>1, <4>2 DEF Above
    <3> QED
      BY <3>2, <3>3
  <2> QED
    BY <1>5, <1>6, <1>14, <2>2, <2>3 DEF t
<1>15. CASE /\ s.blocks[Prev[o.hash]] # None /\ s.blocks[o.hash] = None
             /\ ~ (\E c \in Checkpoints : Height(o) <= HeightOf[c]) /\ Forks(d, o, C)
  <2> DEFINE t == Forked(d, o)
  <2>0. \A c \in Checkpoints : Height(o) > HeightOf[c]
    BY <1>10, <1>15, HeadersLink
  <2>1. Installed(d, t, o) /\ Height(t.lastBlock) >= Height(o)
    BY <1>1, <1>3, <1>15, <2>0, ForkedInstalls
  <2>2. Done(t, o, C)
    BY <1>15 DEF Forks, Forked, Placed, Tipped
  <2> HIDE DEF t
  <2> QED
    BY <1>6, <1>9, <2>1, <2>2
<1>16. CASE \E r \in StoreOrphan(d, o) : Done(r, o, C)
  BY <1>3, <1>7, <1>16
<1>17. CASE Dropped(d, o, C)
  BY <1>3, <1>8, <1>17
<1> QED
  BY <1>11, <1>12, <1>13, <1>14, <1>15, <1>16, <1>17 DEF Handle, d

(* What every pass of _peerRelayedBlockOnce, prune, lookup and rescan       *)
(* keeps.                                                                   *)
HeadersInv == m \in Tables /\ Good(m, carried) /\ TipIsBest

LEMMA HeadersStep ==
  ASSUME HeadersInv, [Next]_vars
  PROVE  HeadersInv'
<1>1. m \in Tables /\ Good(m, carried) /\ (rewound \/ ~ Above(m))
  BY DEF HeadersInv, TipIsBest
<1> USE <1>1
<1> SUFFICES m' \in Tables /\ Good(m', carried') /\ (rewound' \/ ~ Above(m'))
  BY DEF HeadersInv, TipIsBest
<1>2. ASSUME NEW h \in Hashes, RelayedBlock(h)
      PROVE  m' \in Tables /\ Good(m', carried') /\ (rewound' \/ ~ Above(m'))
  <2>1. PICK i \in 1..Copies :
          LET o == [hash |-> h, copy |-> i]
          IN /\ Prev[h] # None /\ o \notin m.live
             /\ \A j \in 1..(i - 1) : [hash |-> h, copy |-> j] \in m.live
             /\ Handle([m EXCEPT !.live = @ \cup {o}], o, carried)
             /\ Cardinality(carried') <= Carriers
    BY <1>2 DEF RelayedBlock
  <2> DEFINE o == [hash |-> h, copy |-> i]
             s == [m EXCEPT !.live = @ \cup {o}]
  <2>2. Waits(o) /\ o \notin m.live /\ Handle(s, o, carried)
    BY <2>1, HeadersLink DEF Waits, Object
  <2> HIDE DEF o
  <2>3. s \in Tables /\ Good(s, carried \cup {o}) /\ s.blocks = m.blocks /\ s.lastBlock = m.lastBlock
    BY <2>2, FreshKeeps
  <2>4. o \notin carried
    BY <2>2 DEF Good, Owned
  <2>5. InBlocks(s) = InBlocks(m)
    BY <2>3 DEF InBlocks
  <2> HIDE DEF s
  <2>6. m' \in Tables /\ Good(m', carried') /\ (Above(m') => Above(s))
    BY <2>2, <2>3, <2>4, HandleKeeps
  <2>7. Above(s) => Above(m)
    BY <2>3, <2>5, SameAbove
  <2>8. rewound' = (rewound /\ Above(m'))
    BY <1>2 DEF RelayedBlock, Rewound
  <2> QED
    BY <2>6, <2>7, <2>8
<1>3. ASSUME NEW o \in carried, RelayedOrphan(o)
      PROVE  m' \in Tables /\ Good(m', carried') /\ (rewound' \/ ~ Above(m'))
  <2>1. Handle(m, o, carried \ {o}) /\ rewound' = (rewound /\ Above(m'))
    BY <1>3 DEF RelayedOrphan, Rewound
  <2>2. (carried \ {o}) \cup {o} = carried /\ o \notin carried \ {o}
    OBVIOUS
  <2>3. m' \in Tables /\ Good(m', carried') /\ (Above(m') => Above(m))
    BY <2>1, <2>2, HandleKeeps
  <2> QED
    BY <2>1, <2>3
<1>4. CASE AskFloor
  <2>1. m' = FloorAsked(m) /\ carried' = carried /\ rewound' = rewound
    BY <1>4 DEF AskFloor
  <2>2. m' \in Tables /\ Good(m', carried) /\ m'.blocks = m.blocks /\ m'.lastBlock = m.lastBlock
    BY <2>1, FloorAskedKeeps
  <2>3. InBlocks(m') = InBlocks(m)
    BY <2>2 DEF InBlocks
  <2> QED
    BY <2>1, <2>2, <2>3, SameAbove
<1>5. ASSUME NEW height \in 0..MaxHeight, AskChain(height)
      PROVE  m' \in Tables /\ Good(m', carried') /\ (rewound' \/ ~ Above(m'))
  <2>1. m' = m /\ carried' = carried /\ rewound' = rewound
    BY <1>5 DEF AskChain
  <2> QED
    BY <2>1
<1>6. CASE Rescan
  <2>1. m' \in Tables /\ Good(m', carried')
    BY <1>6, RescanKeeps
  <2>2. rewound' = Above(m')
    BY <1>6 DEF Rescan
  <2> QED
    BY <2>1, <2>2
<1>7. CASE UNCHANGED vars
  <2>1. m' = m /\ carried' = carried /\ rewound' = rewound
    BY <1>7 DEF vars
  <2> QED
    BY <2>1
<1> QED
  BY <1>2, <1>3, <1>4, <1>5, <1>6, <1>7 DEF Next

(* The sets are keyed as their names say, no header has two owners, the    *)
(* memo was noted for what it is asked about, and the tip is the highest:  *)
(* what the theorems below rest on.                                        *)
THEOREM HeadersInvariant == Spec => []HeadersInv
<1>1. Init => HeadersInv
  <2> SUFFICES ASSUME Init PROVE HeadersInv
    OBVIOUS
  <2>1. PICK run \in Runs : \E start \in Starts \ run : m = Opened(run, start)
    BY DEF Init
  <2>2. carried = {} /\ rewound = Above(m)
    BY DEF Init
  <2>3. m \in Tables /\ Good(m, {})
    <3>1. PICK start \in Starts \ run : m = Opened(run, start)
      BY <2>1
    <3> QED
      BY <3>1, OpenedGood
  <2> QED
    BY <2>2, <2>3 DEF HeadersInv, TipIsBest
<1>2. HeadersInv /\ [Next]_vars => HeadersInv'
  BY HeadersStep
<1> QED
  BY <1>1, <1>2, PTL DEF Spec

(* No resident header but a checkpoint's is higher than the tip until a    *)
(* rescan moves the tip back, for every tree of headers and every order    *)
(* they arrive in (_peerRelayedBlockOnce, _BRPeerManagerInstallSavedBlock, *)
(* BRPeerManagerRescan).                                                   *)
THEOREM TheTipIsBest == Spec => []TipIsBest
<1>1. HeadersInv => TipIsBest
  BY DEF HeadersInv
<1> QED
  BY <1>1, HeadersInvariant, PTL

(* Whenever the key of the memoised floor matches, the floor is the height *)
(* the walk from the tip ends at, or that of a checkpoint's stub the walk  *)
(* ended at before the stub's header arrived                               *)
(* (_BRPeerManagerBlockFloorCached).                                       *)
THEOREM TheFloorIsCurrent == Spec => []FloorIsCurrent
<1>1. HeadersInv => FloorIsCurrent
  <2> SUFFICES ASSUME HeadersInv, MemoHits(m)
               PROVE  \/ m.memo.floor = BlockFloor(m)
                      \/ m.memo.floor > BlockFloor(m) /\ \E c \in Checkpoints : HeightOf[c] = m.memo.floor
    BY DEF FloorIsCurrent
  <2>1. m \in Tables /\ Keyed(m) /\ BlocksKeyed(m) /\ MemoGood(m)
    BY DEF HeadersInv, Good, Keyed
  <2>2. m.lastBlock # None /\ m.lastBlock \in InBlocks(m) /\ m.blocks[m.lastBlock.hash] = m.lastBlock
    <3>1. m.lastBlock # None /\ m.lastBlock.hash \in Hashes
      BY <2>1, ObjectFields DEF Tables
    <3> QED
      BY <2>1, <3>1 DEF Keyed, InBlocks
  <2>3. m.memo.tip = m.lastBlock /\ m.memo.count = Cardinality(InBlocks(m))
    BY DEF MemoHits, Key
  <2>4. FloorNear(m, m.lastBlock, m.memo.floor)
    BY <2>1, <2>2, <2>3 DEF MemoGood
  <2>5. IsLowest(m, m.lastBlock, BlockFloor(m))
    BY <2>1, <2>2, BlockFloorIsLowest
  <2>6. PICK n \in 0..MaxHeight :
          /\ IsLowest(m, m.lastBlock, n)
          /\ m.memo.floor = n \/ (m.memo.floor > n /\ \E c \in Checkpoints : HeightOf[c] = m.memo.floor)
    BY <2>4 DEF FloorNear
  <2>7. n = BlockFloor(m)
    BY <2>1, <2>2, <2>5, <2>6, LowestIsOne
  <2> QED
    BY <2>6, <2>7
<1> QED
  BY <1>1, HeadersInvariant, PTL

(* What the tables own, without a condition on where the application       *)
(* starts: as OneOwner, but an object a rescan displaced is left behind.   *)
OwnedOrDisplaced ==
    LET all == InBlocks(m) \cup InOrphans(m) \cup InCheckpoints(m) \cup carried
    IN /\ all \subseteq m.live
       /\ \A o \in m.live \ all : m.startSyncFrom # None /\ o.hash = m.startSyncFrom.hash
       /\ InBlocks(m) \cap InOrphans(m) = {} /\ carried \cap (InBlocks(m) \cup InOrphans(m)) = {}
       /\ {m.lastBlock, m.startSyncFrom} \subseteq m.live \cup {None}
       /\ m.lastOrphan \in InOrphans(m) \cup {None}

LEMMA InvariantOwns ==
  HeadersInv => OwnedOrDisplaced /\ (StartsBuried => OneOwner)
<1> SUFFICES ASSUME HeadersInv PROVE OwnedOrDisplaced /\ (StartsBuried => OneOwner)
  OBVIOUS
<1>1. m \in Tables /\ Keyed(m) /\ Owned(m, carried)
  BY DEF HeadersInv, Good
<1>2. m.lastBlock \in InBlocks(m)
  <2>1. m.lastBlock # None /\ m.lastBlock.hash \in Hashes
    BY <1>1, ObjectFields DEF Tables
  <2> QED
    BY <1>1, <2>1 DEF Keyed, InBlocks
<1>3. m.startSyncFrom \in InCheckpoints(m) \cup {None}
  BY <1>1, Members DEF Keyed, Tables
<1>4. {m.lastBlock, m.startSyncFrom} \subseteq m.live \cup {None}
  BY <1>1, <1>2, <1>3 DEF Owned
<1> QED
  BY <1>1, <1>4 DEF Owned, OwnedOrDisplaced, OneOwner

(* Along every path of a relayed header, the prune and the rescan, no      *)
(* header object is in two sets that free it, no pointer outlives its      *)
(* object, and none is lost but an object of the header to start from.     *)
THEOREM NoneIsLostOrShared == Spec => []OwnedOrDisplaced
<1>1. HeadersInv => OwnedOrDisplaced
  BY InvariantOwns
<1> QED
  BY <1>1, HeadersInvariant, PTL

(* And none at all is lost if checkpoints bury the headers to start from.  *)
(* Otherwise BRPeerManagerRescan may put such a header back in the place   *)
(* that a later object of it has taken, and the later one has no owner.    *)
THEOREM EveryObjectHasOneOwner == StartsBuried => (Spec => []OneOwner)
<1> SUFFICES ASSUME StartsBuried PROVE Spec => []OneOwner
  OBVIOUS
<1>1. HeadersInv => OneOwner
  BY InvariantOwns
<1> QED
  BY <1>1, HeadersInvariant, PTL

----------------------------------------------------------------------------
(* Branches of the tree of headers, and the walks that follow them. *)

LEMMA BranchSteps ==
  ASSUME NEW h \in Hashes
  PROVE  /\ Branch(h) \in [0..MaxHeight -> Hashes \cup {None}]
         /\ Branch(h)[0] = h
         /\ \A n \in 1..MaxHeight :
               Branch(h)[n] = IF Branch(h)[n - 1] = None THEN None ELSE Prev[Branch(h)[n - 1]]
<1> DEFINE S == Hashes \cup {None}
           step == [x \in S |-> IF x = None THEN None ELSE Prev[x]]
           Steps(g) == g = [n \in 0..MaxHeight |->
                              IF n = 0 THEN h ELSE IF g[n - 1] = None THEN None ELSE Prev[g[n - 1]]]
<1>1. step \in [S -> S] /\ MaxHeight \in Nat /\ h \in S
  BY HeadersLink, MaxHeightIsMax
<1>2. \A x \in S : step[x] = IF x = None THEN None ELSE Prev[x]
  OBVIOUS
<1> HIDE DEF step, S
<1>3. PICK f \in [0..MaxHeight -> S] : f[0] = h /\ \A n \in 1..MaxHeight : f[n] = step[f[n - 1]]
  <2>1. \E f : Iteration(f, S, h, step, MaxHeight)
    BY <1>1, Iterates
  <2> QED
    BY <2>1 DEF Iteration
<1>4. \A n \in 1..MaxHeight : n - 1 \in 0..MaxHeight
  BY <1>1
<1>5. \A n \in 1..MaxHeight : f[n] = IF f[n - 1] = None THEN None ELSE Prev[f[n - 1]]
  BY <1>2, <1>3, <1>4
<1>6. Steps(f)
  <2> DEFINE g == [n \in 0..MaxHeight |->
                      IF n = 0 THEN h ELSE IF f[n - 1] = None THEN None ELSE Prev[f[n - 1]]]
  <2>1. \A n \in 0..MaxHeight : f[n] = g[n]
    <3> SUFFICES ASSUME NEW n \in 0..MaxHeight PROVE f[n] = g[n]
      OBVIOUS
    <3>1. CASE n = 0
      BY <1>3, <3>1
    <3>2. CASE n # 0
      <4>1. n \in 1..MaxHeight
        BY <1>1, <3>2
      <4> QED
        BY <1>5, <3>2, <4>1
    <3> QED
      BY <3>1, <3>2
  <2> QED
    BY <1>3, <2>1
<1> DEFINE w == Branch(h)
<1>7. w = CHOOSE g : Steps(g)
  BY DEF Branch
<1>8. Steps(w)
  <2> HIDE DEF Steps, w
  <2> QED
    BY <1>6, <1>7
<1>9. /\ w[0] = h
      /\ \A n \in 1..MaxHeight : w[n] = IF w[n - 1] = None THEN None ELSE Prev[w[n - 1]]
      /\ w = [n \in 0..MaxHeight |-> w[n]]
  <2> HIDE DEF w
  <2>1. 0 \in 0..MaxHeight /\ \A n \in 1..MaxHeight : n \in 0..MaxHeight /\ n # 0
    BY <1>1
  <2> QED
    BY <1>8, <2>1
<1> HIDE DEF w
<1>10. \A n \in 0..MaxHeight : w[n] = f[n]
  <2> DEFINE T == {n \in 0..MaxHeight : w[n] # f[n]}
  <2>1. SUFFICES ASSUME T # {} PROVE FALSE
    OBVIOUS
  <2>2. T \subseteq Nat
    BY <1>1
  <2>3. PICK n \in T : \A j \in T : n <= j
    BY <2>1, <2>2, Least
  <2>4. n \in 1..MaxHeight /\ n - 1 \in 0..MaxHeight /\ ~ (n <= n - 1)
    BY <1>1, <1>3, <1>9, <2>3
  <2>5. w[n - 1] = f[n - 1]
    BY <2>3, <2>4
  <2> QED
    BY <1>5, <1>9, <2>3, <2>4, <2>5
<1>11. w \in [0..MaxHeight -> S]
  BY <1>3, <1>9, <1>10
<1> QED
  BY <1>9, <1>11 DEF w, S

(* The hash at a height of the branch of h.                                *)
AtHeight(h, n) == Branch(h)[HeightOf[h] - n]

LEMMA BranchHeights ==
  ASSUME NEW h \in Hashes, NEW n \in 0..MaxHeight, Branch(h)[n] # None
  PROVE  Branch(h)[n] \in Hashes /\ HeightOf[Branch(h)[n]] = HeightOf[h] - n
<1> DEFINE w == Branch(h)
           T == {k \in 0..MaxHeight : w[k] # None /\ HeightOf[w[k]] # HeightOf[h] - k}
<1>1. MaxHeight \in Nat /\ \A k \in Hashes : HeightOf[k] \in 0..MaxHeight
  BY MaxHeightIsMax
<1>2. /\ w \in [0..MaxHeight -> Hashes \cup {None}] /\ w[0] = h
      /\ \A k \in 1..MaxHeight : w[k] = IF w[k - 1] = None THEN None ELSE Prev[w[k - 1]]
  BY BranchSteps
<1> HIDE DEF w
<1>3. T = {}
  <2>1. SUFFICES ASSUME T # {} PROVE FALSE
    OBVIOUS
  <2>2. T \subseteq Nat
    BY <1>1
  <2>3. PICK k \in T : \A j \in T : k <= j
    BY <2>1, <2>2, Least
  <2>4. k # 0
    BY <1>1, <1>2, <2>3
  <2>5. k \in 1..MaxHeight /\ k - 1 \in 0..MaxHeight /\ ~ (k <= k - 1)
    BY <1>1, <2>3, <2>4
  <2>6. w[k - 1] # None /\ w[k] = Prev[w[k - 1]] /\ w[k - 1] \in Hashes
    BY <1>2, <2>3, <2>5
  <2>7. HeightOf[w[k - 1]] = HeightOf[h] - (k - 1)
    BY <2>3, <2>5, <2>6
  <2>8. w[k] \in Hashes /\ HeightOf[w[k - 1]] = HeightOf[w[k]] + 1
    BY <2>3, <2>6, HeadersLink
  <2> QED
    BY <1>1, <2>3, <2>5, <2>6, <2>7, <2>8
<1>4. w[n] \in Hashes /\ HeightOf[w[n]] = HeightOf[h] - n
  BY <1>2, <1>3 DEF w
<1> QED
  BY <1>4 DEF w

(* The branch of a header of a branch is the rest of it.                   *)
LEMMA BranchJoins ==
  ASSUME NEW h \in Hashes, NEW k \in 0..HeightOf[h], AtHeight(h, k) # None, NEW j \in 0..k
  PROVE  /\ AtHeight(h, k) \in Hashes /\ HeightOf[AtHeight(h, k)] = k
         /\ AtHeight(AtHeight(h, k), j) = AtHeight(h, j)
<1> DEFINE x == AtHeight(h, k)
           i == HeightOf[h] - k
           w == Branch(h)
           v == Branch(x)
           T == {n \in 0..k : v[n] # w[i + n]}
<1>1. MaxHeight \in Nat /\ HeightOf[h] \in 0..MaxHeight /\ k \in Nat /\ j \in Nat
  BY MaxHeightIsMax
<1>2. i \in 0..MaxHeight /\ i \in Nat /\ i + k = HeightOf[h]
  BY <1>1
<1> HIDE DEF i
<1>3. x = w[i] /\ x # None
  BY DEF AtHeight, i
<1>4. x \in Hashes /\ HeightOf[x] = k
  <2>1. w[i] \in Hashes /\ HeightOf[w[i]] = HeightOf[h] - i
    BY <1>2, <1>3, BranchHeights
  <2> QED
    BY <1>1, <1>2, <1>3, <2>1
<1>5. \A n \in 1..MaxHeight : w[n] = IF w[n - 1] = None THEN None ELSE Prev[w[n - 1]]
  BY BranchSteps
<1> HIDE DEF x
<1>6. v[0] = x /\ \A n \in 1..MaxHeight : v[n] = IF v[n - 1] = None THEN None ELSE Prev[v[n - 1]]
  BY <1>4, BranchSteps
<1> HIDE DEF w, v
<1>7. T = {}
  <2>1. SUFFICES ASSUME T # {} PROVE FALSE
    OBVIOUS
  <2>2. T \subseteq Nat
    BY <1>1
  <2>3. PICK n \in T : \A l \in T : n <= l
    BY <2>1, <2>2, Least
  <2>4. n # 0
    BY <1>2, <1>3, <1>6, <2>3
  <2>5. /\ n \in 1..MaxHeight /\ n - 1 \in 0..k /\ ~ (n <= n - 1)
        /\ i + n \in 1..MaxHeight /\ (i + n) - 1 = i + (n - 1)
    BY <1>1, <1>2, <2>3, <2>4
  <2>6. v[n - 1] = w[i + (n - 1)]
    BY <2>3, <2>5
  <2> QED
    BY <1>5, <1>6, <2>3, <2>5, <2>6
<1>8. v[k - j] = w[i + (k - j)] /\ i + (k - j) = HeightOf[h] - j
  <2>1. k - j \in 0..k /\ i + (k - j) = HeightOf[h] - j
    BY <1>1, <1>2
  <2> QED
    BY <1>7, <2>1
<1>9. AtHeight(x, j) = AtHeight(h, j)
  BY <1>4, <1>8 DEF AtHeight, w, v
<1> QED
  BY <1>4, <1>9 DEF x

(* What a walk reaches is on the branch of where it starts ...             *)
LEMMA AncestorTells ==
  ASSUME NEW s, BlocksKeyed(s), NEW o \in InBlocks(s), NEW k \in 0..Height(o),
         Ancestor(s, o, k) # None
  PROVE  /\ Ancestor(s, o, k) \in InBlocks(s) /\ Height(Ancestor(s, o, k)) = k
         /\ Ancestor(s, o, k).hash = AtHeight(o.hash, k)
<1> DEFINE w == Walk(s, o)
           v == Branch(o.hash)
           i == Height(o) - k
           T == {n \in 0..MaxHeight : w[n] # None /\ w[n].hash # v[n]}
<1>1. MaxHeight \in Nat /\ s.blocks \in Slots /\ o \in Object /\ Height(o) \in 0..MaxHeight
      /\ o.hash \in Hashes /\ Height(o) = HeightOf[o.hash] /\ k \in Nat
  BY MaxHeightIsMax, KeyedMembers, ObjectFields DEF BlocksKeyed, Height
<1>2. i \in 0..MaxHeight /\ Height(o) - i = k /\ ~ (k > Height(o))
  BY <1>1
<1> HIDE DEF i
<1>3. /\ w \in [0..MaxHeight -> InBlocks(s) \cup {None}] /\ w[0] = o
      /\ \A n \in 1..MaxHeight : w[n] = Parent(s, w[n - 1])
  BY <1>1, WalkSteps
<1>4. \A n \in 0..MaxHeight : w[n] # None => Height(w[n]) = Height(o) - n
  BY WalkHeights
<1>5. v[0] = o.hash /\ \A n \in 1..MaxHeight : v[n] = IF v[n - 1] = None THEN None ELSE Prev[v[n - 1]]
  BY <1>1, BranchSteps
<1>6. Ancestor(s, o, k) = w[i]
  BY <1>2 DEF Ancestor, i
<1> HIDE DEF w, v
<1>7. T = {}
  <2>1. SUFFICES ASSUME T # {} PROVE FALSE
    OBVIOUS
  <2>2. T \subseteq Nat
    BY <1>1
  <2>3. PICK n \in T : \A l \in T : n <= l
    BY <2>1, <2>2, Least
  <2>4. n # 0
    BY <1>3, <1>5, <2>3
  <2>5. n \in 1..MaxHeight /\ n - 1 \in 0..MaxHeight /\ ~ (n <= n - 1)
    BY <1>1, <2>3, <2>4
  <2> DEFINE x == w[n - 1]
  <2>6. x # None /\ PrevOf(x) # None /\ w[n] = s.blocks[PrevOf(x)] /\ x \in InBlocks(s)
    BY <1>3, <2>3, <2>5 DEF Parent
  <2>7. x.hash = v[n - 1]
    BY <2>3, <2>5, <2>6
  <2> HIDE DEF x
  <2>8. x \in Object /\ PrevOf(x) = Prev[x.hash] /\ PrevOf(x) \in Hashes /\ x.hash \in Hashes
    BY <2>6, KeyedMembers, ObjectFields
  <2>9. w[n].hash = PrevOf(x)
    BY <2>3, <2>6, <2>8 DEF BlocksKeyed
  <2>10. v[n] = Prev[x.hash]
    <3>1. v[n - 1] # None
      BY <2>7, <2>8, HeadersLink
    <3> QED
      BY <1>5, <2>5, <2>7, <3>1
  <2> QED
    BY <2>3, <2>8, <2>9, <2>10
<1>8. w[i] # None
  BY <1>6
<1>9. w[i] \in InBlocks(s) /\ Height(w[i]) = k /\ w[i].hash = v[i]
  BY <1>2, <1>3, <1>4, <1>7, <1>8
<1> QED
  BY <1>1, <1>6, <1>9 DEF AtHeight, v, i

(* ... every height in between is reached too, and a walk from there goes  *)
(* on alike.                                                               *)
LEMMA AncestorJoins ==
  ASSUME NEW s, BlocksKeyed(s), NEW o \in InBlocks(s), NEW k \in 0..Height(o), NEW j \in 0..k
  PROVE  /\ Ancestor(s, o, j) # None => Ancestor(s, o, k) # None
         /\ Ancestor(s, o, k) # None => Ancestor(s, Ancestor(s, o, k), j) = Ancestor(s, o, j)
<1> DEFINE w == Walk(s, o)
           i == Height(o) - k
           l == Height(o) - j
           b == Ancestor(s, o, k)
<1>1. MaxHeight \in Nat /\ s.blocks \in Slots /\ Height(o) \in 0..MaxHeight /\ k \in Nat /\ j \in Nat
  BY MaxHeightIsMax, KeyedMembers, ObjectFields DEF BlocksKeyed
<1>2. i \in 0..MaxHeight /\ l \in 0..MaxHeight /\ i <= l /\ l = i + (k - j) /\ ~ (k > Height(o))
      /\ ~ (j > Height(o))
  BY <1>1
<1>3. /\ w \in [0..MaxHeight -> InBlocks(s) \cup {None}] /\ w[0] = o
      /\ \A n \in 1..MaxHeight : w[n] = Parent(s, w[n - 1])
  BY <1>1, WalkSteps
<1>4. b = w[i] /\ Ancestor(s, o, j) = w[l]
  BY <1>2 DEF Ancestor
<1> HIDE DEF w, i, l
<1>5. ASSUME w[l] # None PROVE w[i] # None
  <2> DEFINE T == {n \in 0..MaxHeight : n <= l /\ w[l - n] = None}
  <2>1. T = {}
    <3>1. SUFFICES ASSUME T # {} PROVE FALSE
      OBVIOUS
    <3>2. T \subseteq Nat
      BY <1>1
    <3>3. PICK n \in T : \A a \in T : n <= a
      BY <3>1, <3>2, Least
    <3>4. n # 0
      BY <1>2, <1>5, <3>3
    <3>5. n - 1 \in 0..MaxHeight /\ n - 1 <= l /\ ~ (n <= n - 1) /\ l - (n - 1) \in 1..MaxHeight
          /\ l - (n - 1) - 1 = l - n
      BY <1>1, <1>2, <3>3, <3>4
    <3>6. w[l - (n - 1)] # None
      BY <3>3, <3>5
    <3>7. w[l - n] # None
      BY <1>3, <3>5, <3>6 DEF Parent
    <3> QED
      BY <3>3, <3>7
  <2>2. l - i \in 0..MaxHeight /\ l - i <= l /\ l - (l - i) = i
    BY <1>1, <1>2
  <2> QED
    BY <2>1, <2>2
<1>6. ASSUME b # None PROVE Ancestor(s, b, j) = w[l]
  <2> DEFINE v == Walk(s, b)
             T == {n \in 0..MaxHeight : i + n <= MaxHeight /\ v[n] # w[i + n]}
  <2>1. b \in InBlocks(s) /\ Height(b) = k
    BY <1>6, AncestorTells
  <2> HIDE DEF b
  <2>2. v[0] = b /\ \A n \in 1..MaxHeight : v[n] = Parent(s, v[n - 1])
    BY <1>1, <2>1, WalkSteps
  <2>3. Ancestor(s, b, j) = v[k - j] /\ k - j \in 0..MaxHeight
    BY <1>1, <2>1 DEF Ancestor
  <2> HIDE DEF v
  <2>4. T = {}
    <3>1. SUFFICES ASSUME T # {} PROVE FALSE
      OBVIOUS
    <3>2. T \subseteq Nat
      BY <1>1
    <3>3. PICK n \in T : \A a \in T : n <= a
      BY <3>1, <3>2, Least
    <3>4. n # 0
      BY <1>2, <1>4, <2>2, <3>3
    <3>5. /\ n \in 1..MaxHeight /\ n - 1 \in 0..MaxHeight /\ ~ (n <= n - 1)
          /\ i + (n - 1) <= MaxHeight /\ i + n \in 1..MaxHeight /\ (i + n) - 1 = i + (n - 1)
      BY <1>1, <1>2, <3>3, <3>4
    <3>6. v[n - 1] = w[i + (n - 1)]
      BY <3>3, <3>5
    <3> QED
      BY <1>3, <2>2, <3>3, <3>5, <3>6
  <2> QED
    BY <1>1, <1>2, <2>3, <2>4
<1> QED
  BY <1>4, <1>5, <1>6

----------------------------------------------------------------------------
(* The index of the main chain. *)

Indexes == [tip : Hashes \cup {None}, top : Nat, entries : Seq(Hashes)]

(* Every entry is the hash at its height of the branch of the indexed tip. *)
Linked(x) ==
    /\ x.tip \in Hashes /\ x.top = HeightOf[x.tip] - (HeightOf[x.tip] % Stride)
    /\ Len(x.entries) <= IndexMax
    /\ \A k \in 1..Len(x.entries) :
          EntryHeight(x, k) >= 0 /\ x.entries[k] = AtHeight(x.tip, EntryHeight(x, k))

IndexLinked(x) == x \in Indexes /\ (x.entries # <<>> => Linked(x))

LEMMA StridesDown ==
  ASSUME NEW n \in Nat
  PROVE  /\ n \div Stride \in Nat /\ n - (n % Stride) = Stride * (n \div Stride)
         /\ n - (n % Stride) \in 0..n /\ n < n - (n % Stride) + Stride
<1>1. Stride \in Nat \ {0}
  BY HeadersLink
<1> QED
  BY <1>1

LEMMA StridesBetween ==
  ASSUME NEW p \in Nat, NEW q \in Nat, NEW k \in Nat
  PROVE  /\ Stride * p < Stride * q + Stride => p <= q
         /\ p <= q => (Stride * q - Stride * p) \div Stride = q - p
         /\ p <= q => Stride * p <= Stride * q
         /\ k <= q => Stride * q - k * Stride = Stride * (q - k)
<1>1. Stride \in Nat \ {0}
  BY HeadersLink
<1>2. Stride * p < Stride * q + Stride => p <= q
  <2>1. SUFFICES ASSUME p >= q + 1 PROVE Stride * p >= Stride * q + Stride
    BY <1>1
  <2>2. Stride * (q + 1) = Stride * q + Stride
    BY <1>1
  <2> QED
    BY <1>1, <2>1, <2>2
<1>3. p <= q => (Stride * q - Stride * p) \div Stride = q - p
  <2>1. SUFFICES ASSUME p <= q PROVE (Stride * q - Stride * p) \div Stride = q - p
    OBVIOUS
  <2>2. Stride * q - Stride * p = Stride * (q - p) /\ q - p \in Nat
    BY <1>1, <2>1
  <2>3. (Stride * (q - p)) \div Stride = q - p
    BY <1>1, <2>2
  <2> QED
    BY <2>2, <2>3
<1>4. p <= q => Stride * p <= Stride * q
  BY <1>1
<1>5. k <= q => Stride * q - k * Stride = Stride * (q - k)
  BY <1>1
<1> QED
  BY <1>2, <1>3, <1>4, <1>5

LEMMA FunIsSeq ==
  ASSUME NEW S, NEW n \in Nat, NEW f \in [1..n -> S]
  PROVE  f \in Seq(S) /\ Len(f) = n
<1>1. f \in Seq(S)
  BY SeqDef
<1>2. Len(f) \in Nat /\ DOMAIN f = 1..Len(f)
  BY <1>1, LenProperties
<1> QED
  BY <1>1, <1>2

LEMMA EntryHeights ==
  ASSUME NEW x \in Indexes, Linked(x), NEW k \in 1..Len(x.entries)
  PROVE  /\ x.top \in 0..HeightOf[x.tip] /\ EntryHeight(x, k) \in 0..x.top
         /\ EntryHeight(x, k) \in 0..HeightOf[x.tip] /\ x.entries[k] \in Hashes
<1>1. Stride \in Nat \ {0} /\ x.tip \in Hashes /\ HeightOf[x.tip] \in Nat
  BY HeadersLink DEF Linked
<1>2. x.top \in 0..HeightOf[x.tip]
  BY <1>1, StridesDown DEF Linked
<1>3. x.entries \in Seq(Hashes) /\ Len(x.entries) \in Nat /\ x.entries[k] \in Hashes
  BY LenProperties, ElementOfSeq DEF Indexes
<1>4. (k - 1) * Stride \in Nat
  BY <1>1, <1>3
<1>5. EntryHeight(x, k) \in 0..x.top
  BY <1>1, <1>2, <1>3, <1>4, SMTT(60) DEF EntryHeight, Linked
<1> QED
  BY <1>1, <1>2, <1>3, <1>5

(* The index extended to the tip, or started again, is linked.             *)
LEMMA CurrentLinked ==
  ASSUME BlocksKeyed(m), NEW tip \in InBlocks(m), NEW x, IndexLinked(x)
  PROVE  /\ Current(x, tip) \in Indexes /\ Linked(Current(x, tip))
         /\ Current(x, tip).tip = tip.hash
<1> DEFINE c == Current(x, tip)
           T == TopOf(tip)
           H == HeightOf[x.tip]
           L == Len(x.entries)
           n == (T - x.top) \div Stride
           news == [k \in 1..n |-> Ancestor(m, tip, T - (k - 1) * Stride).hash]
           all == news \o x.entries
           M == IF Len(all) < IndexMax THEN Len(all) ELSE IndexMax
           entries == [k \in 1..M |-> all[k]]
<1>1. /\ tip \in Object /\ tip # None /\ tip.hash \in Hashes /\ Height(tip) \in Nat
      /\ Height(tip) = HeightOf[tip.hash]
  BY KeyedMembers, MaxHeightIsMax, ObjectFields DEF Height
<1>2. Stride \in Nat \ {0} /\ IndexMax \in Nat
  BY HeadersLink
<1> DEFINE q == Height(tip) \div Stride
<1>3. q \in Nat /\ T = Stride * q /\ T \in 0..Height(tip) /\ Height(tip) < T + Stride
      /\ T = HeightOf[tip.hash] - (HeightOf[tip.hash] % Stride)
  BY <1>1, StridesDown DEF TopOf
<1> HIDE DEF T, q
<1>4. CASE x.entries = <<>> \/ (x.tip # tip.hash /\ ~ Continues(x, tip))
  <2>1. c = [tip |-> tip.hash, top |-> T, entries |-> <<>>]
    BY <1>4 DEF Current, T
  <2>2. <<>> \in Seq(Hashes) /\ Len(<<>>) = 0
    BY EmptySeq
  <2> HIDE DEF c
  <2>3. c.tip = tip.hash /\ c.top = T /\ c.entries = <<>>
    BY <2>1
  <2>4. c \in Indexes
    BY <1>1, <1>3, <2>1, <2>2 DEF Indexes
  <2>5. Linked(c)
    BY <1>1, <1>2, <1>3, <2>2, <2>3 DEF Linked
  <2> QED
    BY <2>3, <2>4, <2>5 DEF c
<1>5. CASE x.entries # <<>> /\ (x.tip = tip.hash \/ Continues(x, tip))
  <2>1. c = [tip |-> tip.hash, top |-> T, entries |-> entries]
    BY <1>5 DEF Current, T
  <2>2. x \in Indexes /\ Linked(x)
    BY <1>5 DEF IndexLinked
  <2>3. x.tip \in Hashes /\ H \in Nat /\ x.top \in Nat /\ x.entries \in Seq(Hashes) /\ L \in Nat
    BY <2>2, HeadersLink, LenProperties DEF Linked, Indexes
  <2>4. H <= Height(tip) /\ H \in 0..Height(tip)
    <3>1. H <= Height(tip)
      BY <1>1, <1>5, <2>3 DEF Continues
    <3> QED
      BY <1>1, <2>3, <3>1
  <2>5. Ancestor(m, tip, H) # None /\ AtHeight(tip.hash, H) = x.tip
    <3>1. CASE x.tip = tip.hash
      <4>1. H = Height(tip) /\ Height(tip) - H = 0 /\ HeightOf[tip.hash] - H = 0 /\ ~ (H > Height(tip))
        BY <1>1, <3>1
      <4>2. Walk(m, tip)[0] = tip /\ Branch(tip.hash)[0] = tip.hash
        BY <1>1, WalkSteps, BranchSteps DEF BlocksKeyed
      <4> QED
        BY <1>1, <3>1, <4>1, <4>2 DEF Ancestor, AtHeight
    <3>2. CASE x.tip # tip.hash
      <4>1. Ancestor(m, tip, H) # None /\ Ancestor(m, tip, H).hash = x.tip
        BY <1>5, <3>2 DEF Continues
      <4> QED
        BY <2>4, <4>1, AncestorTells
    <3> QED
      BY <3>1, <3>2
  <2> DEFINE p == H \div Stride
  <2>6. p \in Nat /\ x.top = Stride * p /\ x.top \in 0..H /\ H < x.top + Stride
    BY <2>2, <2>3, StridesDown DEF Linked
  <2> HIDE DEF p, H
  <2>7. p <= q
    <3>1. x.top < T + Stride
      <4>1. x.top \in Nat /\ x.top <= H /\ H \in Nat
        BY <2>3, <2>6
      <4>2. H <= Height(tip) /\ Height(tip) \in Nat /\ Height(tip) < T + Stride
        BY <1>1, <1>3, <2>4
      <4>3. T \in Nat /\ Stride \in Nat
        BY <1>1, <1>2, <1>3
      <4> QED
        BY <4>1, <4>2, <4>3
    <3>2. x.top = Stride * p /\ T = Stride * q
      BY <1>3, <2>6
    <3>3. Stride * p < Stride * q + Stride
      BY <3>1, <3>2
    <3> QED
      BY <1>3, <2>6, <3>3, StridesBetween
  <2>8. n = q - p /\ n \in Nat
    BY <1>3, <2>6, <2>7, StridesBetween
  <2>9. \A k \in Nat : k <= q => T - k * Stride = Stride * (q - k)
    <3>1. ASSUME NEW k \in Nat, k <= q PROVE Stride * q - k * Stride = Stride * (q - k)
      BY <1>3, <3>1, StridesBetween
    <3> QED
      BY <1>3, <3>1
  <2> HIDE DEF n
  <2>10. ASSUME NEW k \in 1..n
         PROVE  /\ T - (k - 1) * Stride \in 0..Height(tip)
                /\ Ancestor(m, tip, T - (k - 1) * Stride) # None
                /\ news[k] = AtHeight(tip.hash, T - (k - 1) * Stride) /\ news[k] \in Hashes
    <3> DEFINE e == T - (k - 1) * Stride
    <3>1. k - 1 \in Nat /\ k - 1 <= q /\ q - (k - 1) \in Nat /\ p + 1 <= q - (k - 1) /\ p + 1 \in Nat
          /\ q - (k - 1) <= q
      BY <1>3, <2>6, <2>8
    <3>2. e = Stride * (q - (k - 1))
      BY <2>9, <3>1
    <3>3. Stride * (p + 1) <= Stride * (q - (k - 1)) /\ Stride * (q - (k - 1)) <= Stride * q
      BY <1>3, <3>1, StridesBetween
    <3>4. Stride * (p + 1) = x.top + Stride
      BY <1>2, <2>6
    <3>5. Stride * (q - (k - 1)) \in Int
      BY <1>2, <3>1
    <3>11. e \in Int /\ e <= T /\ x.top + Stride <= e
      BY <1>3, <3>2, <3>3, <3>4, <3>5
    <3> HIDE DEF e
    <3>12. T \in Nat /\ T <= Height(tip) /\ H < x.top + Stride /\ x.top \in Nat /\ H \in Nat
      BY <1>1, <1>3, <2>3, <2>6
    <3>6. e \in 0..Height(tip) /\ H <= e /\ H \in 0..e
      BY <1>1, <1>2, <3>11, <3>12
    <3>7. Ancestor(m, tip, e) # None
      BY <2>5, <3>6, AncestorJoins DEF H
    <3>8. Ancestor(m, tip, e).hash = AtHeight(tip.hash, e) /\ Ancestor(m, tip, e) \in InBlocks(m)
      BY <3>6, <3>7, AncestorTells
    <3>9. Ancestor(m, tip, e).hash \in Hashes
      BY <3>8, KeyedMembers, ObjectFields
    <3>10. news[k] = Ancestor(m, tip, e).hash
      BY DEF e
    <3> QED
      BY <3>6, <3>7, <3>8, <3>9, <3>10 DEF e
  <2>11. news \in Seq(Hashes) /\ Len(news) = n
    <3>1. news \in [1..n -> Hashes]
      BY <2>10
    <3> QED
      BY <2>8, <3>1, FunIsSeq
  <2> HIDE DEF news
  <2>12. /\ all \in Seq(Hashes) /\ Len(all) = n + L
         /\ \A k \in 1..(n + L) : all[k] = IF k <= n THEN news[k] ELSE x.entries[k - n]
    BY <2>3, <2>11, ConcatProperties
  <2> HIDE DEF all
  <2>13. ASSUME NEW k \in 1..(n + L)
         PROVE  T - (k - 1) * Stride >= 0 /\ all[k] = AtHeight(tip.hash, T - (k - 1) * Stride)
    <3>1. CASE k <= n
      <4>1. k \in 1..n
        BY <2>8, <3>1
      <4> QED
        BY <1>1, <2>10, <2>12, <3>1, <4>1
    <3>2. CASE ~ (k <= n)
      <4>1. k - n \in 1..L /\ k \in Nat
        BY <2>3, <2>8, <3>2
      <4>2. /\ EntryHeight(x, k - n) >= 0 /\ x.entries[k - n] = AtHeight(x.tip, EntryHeight(x, k - n))
            /\ EntryHeight(x, k - n) \in 0..H
        BY <2>2, <4>1, EntryHeights DEF Linked, H
      <4>3. EntryHeight(x, k - n) = T - (k - 1) * Stride
        <5>1. EntryHeight(x, k - n) = Stride * p - ((k - n) - 1) * Stride
          BY <2>6 DEF EntryHeight
        <5>2. Stride * p = Stride * q - n * Stride
          BY <1>2, <1>3, <2>6, <2>8
        <5>3. (k - 1) * Stride = n * Stride + ((k - n) - 1) * Stride
          BY <1>2, <2>8, <4>1
        <5>4. n * Stride \in Int /\ ((k - n) - 1) * Stride \in Int /\ Stride * q \in Int
          BY <1>2, <1>3, <2>8, <4>1, SMTT(60)
        <5> QED
          BY <1>3, <5>1, <5>2, <5>3, <5>4
      <4>4. AtHeight(x.tip, EntryHeight(x, k - n)) = AtHeight(tip.hash, EntryHeight(x, k - n))
        <5>1. AtHeight(tip.hash, H) # None /\ H \in 0..HeightOf[tip.hash]
          BY <1>1, <2>3, <2>4, <2>5, HeadersLink
        <5> QED
          BY <1>1, <2>5, <4>2, <5>1, BranchJoins
      <4>5. all[k] = x.entries[k - n]
        BY <2>12, <3>2
      <4> QED
        BY <4>2, <4>3, <4>4, <4>5
    <3> QED
      BY <3>1, <3>2
  <2>14. M \in Nat /\ M <= IndexMax /\ M <= n + L
    BY <1>2, <2>3, <2>8, <2>12
  <2> HIDE DEF M
  <2>15. \A k \in 1..M : k \in 1..(n + L)
    BY <2>3, <2>8, <2>14
  <2>16. entries \in Seq(Hashes) /\ Len(entries) = M
    <3>1. \A k \in 1..M : all[k] \in Hashes
      BY <2>12, <2>15, ElementOfSeq
    <3>2. entries \in [1..M -> Hashes]
      BY <3>1
    <3> QED
      BY <2>14, <3>2, FunIsSeq
  <2>17. \A k \in 1..M : entries[k] = all[k]
    OBVIOUS
  <2> HIDE DEF entries, c
  <2>18. c.tip = tip.hash /\ c.top = T /\ c.entries = entries
    BY <2>1
  <2>19. c \in Indexes
    BY <1>1, <1>3, <2>1, <2>16 DEF Indexes
  <2>20. Linked(c)
    <3>1. \A k \in 1..M : EntryHeight(c, k) >= 0 /\ c.entries[k] = AtHeight(c.tip, EntryHeight(c, k))
      BY <2>13, <2>15, <2>17, <2>18 DEF EntryHeight
    <3> QED
      BY <1>1, <1>3, <2>14, <2>16, <2>18, <3>1 DEF Linked
  <2> QED
    BY <2>18, <2>19, <2>20 DEF c
<1> QED
  BY <1>4, <1>5

(* The entries noted on a walk from an indexed header are linked.          *)
LEMMA NotedLinked ==
  ASSUME BlocksKeyed(m), NEW c \in Indexes, Linked(c), NEW b \in InBlocks(m), NEW height,
         Height(b) \in 0..HeightOf[c.tip], AtHeight(c.tip, Height(b)) = b.hash
  PROVE  /\ Noted(c, b, height) \in Indexes /\ Linked(Noted(c, b, height))
         /\ Noted(c, b, height).tip = c.tip
<1> DEFINE e(k) == EntryHeight(c, k)
           Adds(k) == /\ k <= IndexMax /\ e(k) >= height /\ e(k) >= 0
                      /\ e(k) <= Height(b) /\ Ancestor(m, b, e(k)) # None
           L == Len(c.entries)
           Fits(k) == (\A j \in (L + 1)..k : Adds(j)) /\ (k = IndexMax \/ ~ Adds(k + 1))
           n == CHOOSE k \in L..IndexMax : Fits(k)
           f == [k \in 1..n |-> IF k <= L THEN c.entries[k] ELSE Ancestor(m, b, e(k)).hash]
           T == {k \in L..IndexMax : k = IndexMax \/ ~ Adds(k + 1)}
<1>1. /\ IndexMax \in Nat /\ L \in 0..IndexMax /\ Stride \in Nat \ {0} /\ c.top \in Nat
      /\ c.tip \in Hashes /\ c.entries \in Seq(Hashes) /\ L \in Nat
  BY HeadersLink, LenProperties DEF Linked, Indexes
<1>2. /\ b \in Object /\ b.hash \in Hashes /\ Height(b) \in Nat /\ Height(b) = HeightOf[b.hash]
      /\ b.hash # None
  BY KeyedMembers, MaxHeightIsMax, ObjectFields, HeadersLink DEF Height
<1>3. Noted(c, b, height) = [c EXCEPT !.entries = f]
  BY DEF Noted
<1>4. \A k \in Nat : e(k) \in Int
  <2> SUFFICES ASSUME NEW k \in Nat PROVE e(k) \in Int
    OBVIOUS
  <2>1. (k - 1) * Stride \in Int
    BY <1>1
  <2> QED
    BY <1>1, <2>1 DEF EntryHeight
<1> HIDE DEF e, Adds, L
<1>5. \E k \in L..IndexMax : Fits(k)
  <2>1. IndexMax \in T /\ T \subseteq Nat
    BY <1>1
  <2>2. PICK k \in T : \A j \in T : k <= j
    BY <2>1, Least
  <2>3. ASSUME NEW j \in (L + 1)..k PROVE Adds(j)
    <3>1. j - 1 \in L..IndexMax /\ ~ (k <= j - 1) /\ j - 1 # IndexMax /\ (j - 1) + 1 = j
      BY <1>1, <2>2
    <3> QED
      BY <2>2, <3>1
  <2> QED
    BY <2>2, <2>3
<1>6. n \in L..IndexMax /\ Fits(n)
  BY <1>5
<1> HIDE DEF n
<1>7. n \in Nat /\ n <= IndexMax /\ L <= n
  BY <1>1, <1>6
<1>8. ASSUME NEW k \in 1..n
      PROVE  e(k) >= 0 /\ f[k] = AtHeight(c.tip, e(k)) /\ f[k] \in Hashes
  <2>1. CASE k <= L
    <3>1. k \in 1..Len(c.entries) /\ k \in 1..L
      BY <1>1, <2>1 DEF L
    <3>2. e(k) >= 0 /\ c.entries[k] = AtHeight(c.tip, e(k)) /\ c.entries[k] \in Hashes
      BY <3>1, EntryHeights DEF Linked, e
    <3> QED
      BY <2>1, <3>2
  <2>2. CASE ~ (k <= L)
    <3>1. k \in (L + 1)..n /\ k \in Nat
      BY <1>7, <1>1, <2>2
    <3>2. e(k) \in 0..Height(b) /\ Ancestor(m, b, e(k)) # None
      BY <1>2, <1>4, <1>6, <3>1 DEF Adds
    <3>3. /\ Ancestor(m, b, e(k)).hash = AtHeight(b.hash, e(k))
          /\ Ancestor(m, b, e(k)) \in InBlocks(m)
      BY <3>2, AncestorTells
    <3>4. Ancestor(m, b, e(k)).hash \in Hashes
      BY <3>3, KeyedMembers, ObjectFields
    <3>5. AtHeight(b.hash, e(k)) = AtHeight(c.tip, e(k))
      BY <1>1, <1>2, <3>2, BranchJoins
    <3> QED
      BY <2>2, <3>2, <3>3, <3>4, <3>5
  <2> QED
    BY <2>1, <2>2
<1>9. f \in Seq(Hashes) /\ Len(f) = n
  <2>1. f \in [1..n -> Hashes]
    BY <1>8
  <2> QED
    BY <1>7, <2>1, FunIsSeq
<1> HIDE DEF f
<1> DEFINE x == [c EXCEPT !.entries = f]
<1>10. x.tip = c.tip /\ x.top = c.top /\ x.entries = f /\ x \in Indexes
  BY <1>9 DEF Indexes
<1> HIDE DEF x
<1>11. \A k : EntryHeight(x, k) = e(k)
  BY <1>10 DEF EntryHeight, e
<1>12. Linked(x)
  BY <1>7, <1>8, <1>9, <1>10, <1>11 DEF Linked
<1> QED
  BY <1>3, <1>10, <1>12 DEF x

(* The entry a lookup starts from is no lower than what it looks for.      *)
LEMMA UseFacts ==
  ASSUME NEW c \in Indexes, Linked(c), c.entries # <<>>, NEW height \in 0..c.top
  PROVE  LET k   == (c.top - height) \div Stride + 1
             use == IF k <= Len(c.entries) THEN k ELSE Len(c.entries)
         IN use \in 1..Len(c.entries) /\ EntryHeight(c, use) \in height..HeightOf[c.tip]
<1> DEFINE d == (c.top - height) \div Stride
           L == Len(c.entries)
           use == IF d + 1 <= L THEN d + 1 ELSE L
<1>1. c.top \in Nat /\ height \in Nat /\ c.entries \in Seq(Hashes) /\ Stride \in Nat \ {0}
  BY HeadersLink DEF Indexes
<1>2. c.top - height \in Nat
  BY <1>1
<1>3. d \in Nat /\ Stride * d <= c.top - height
  <2> DEFINE a == c.top - height
  <2>1. a \div Stride \in Nat /\ a - (a % Stride) = Stride * (a \div Stride) /\ a - (a % Stride) \in 0..a
    BY <1>2, StridesDown
  <2> QED
    BY <2>1
<1>4. L \in Nat /\ L # 0
  BY <1>1, EmptySeq, LenProperties
<1> HIDE DEF d, L
<1>5. use \in 1..L /\ use - 1 \in Nat /\ use - 1 <= d
  BY <1>3, <1>4
<1> HIDE DEF use
<1>6. Stride * (use - 1) <= Stride * d /\ (use - 1) * Stride = Stride * (use - 1)
      /\ Stride * (use - 1) \in Nat /\ Stride * d \in Nat
  BY <1>1, <1>3, <1>5, StridesBetween
<1>7. EntryHeight(c, use) >= height
  BY <1>1, <1>3, <1>6 DEF EntryHeight
<1>8. EntryHeight(c, use) \in 0..HeightOf[c.tip]
  BY <1>5, EntryHeights DEF L
<1>9. HeightOf[c.tip] \in Nat
  BY HeadersLink DEF Linked
<1>10. EntryHeight(c, use) \in height..HeightOf[c.tip]
  BY <1>1, <1>7, <1>8, <1>9
<1> QED
  BY <1>5, <1>10 DEF d, L, use

(* A lookup leaves the index linked, and tells what a walk would, or what  *)
(* the branch of the tip has where a walk ends early.                      *)
LEMMA LookedLinked ==
  ASSUME BlocksKeyed(m), m.lastBlock \in InBlocks(m), NEW x, IndexLinked(x),
         NEW height \in 0..MaxHeight
  PROVE  /\ IndexLinked(Looked(x, height).index)
         /\ \/ Looked(x, height).hash = HashAtHeight(m, height)
            \/ /\ HashAtHeight(m, height) = None
               /\ Looked(x, height).hash = AtHeight(m.lastBlock.hash, height)
<1> DEFINE tip == m.lastBlock
           c   == Current(x, tip)
           k   == (c.top - height) \div Stride + 1
           use == IF k <= Len(c.entries) THEN k ELSE Len(c.entries)
           b   == IF c.entries # <<>> /\ height <= c.top THEN m.blocks[c.entries[use]] ELSE tip
           at  == Ancestor(m, b, height)
           walked == Ancestor(m, tip, height)
           r   == Looked(x, height)
           Goal == /\ IndexLinked(r.index)
                   /\ \/ r.hash = HashAtHeight(m, height)
                      \/ HashAtHeight(m, height) = None /\ r.hash = AtHeight(tip.hash, height)
<1>1. /\ tip \in Object /\ tip # None /\ tip.hash \in Hashes /\ Height(tip) \in Nat
      /\ Height(tip) = HeightOf[tip.hash] /\ m.blocks[tip.hash] = tip /\ m.blocks \in Slots
  BY KeyedMembers, MaxHeightIsMax, ObjectFields DEF Height, BlocksKeyed
<1>2. MaxHeight \in Nat /\ height \in Nat
  BY MaxHeightIsMax
<1>3. c \in Indexes /\ Linked(c) /\ c.tip = tip.hash /\ c.top \in 0..HeightOf[c.tip] /\ c.top \in Nat
  <2>1. c \in Indexes /\ Linked(c) /\ c.tip = tip.hash
    BY CurrentLinked
  <2>2. c.top \in 0..HeightOf[c.tip]
    BY <1>1, <2>1, StridesDown DEF Linked
  <2> QED
    BY <2>1, <2>2 DEF Indexes
<1>4. r = IF height > Height(tip) THEN [hash |-> None, index |-> x]
          ELSE IF b = None THEN [hash |-> HashAtHeight(m, height), index |-> c]
          ELSE [hash |-> IF at = None THEN None ELSE at.hash, index |-> Noted(c, b, height)]
  BY DEF Looked
<1>5. HashAtHeight(m, height) = IF walked = None THEN None ELSE walked.hash
  BY DEF HashAtHeight
<1> HIDE DEF r
<1> SUFFICES Goal
  BY DEF r
<1>6. CASE height > Height(tip)
  <2>1. walked = None
    BY <1>6 DEF Ancestor
  <2> QED
    BY <1>4, <1>5, <1>6, <2>1
<1>7. CASE ~ (height > Height(tip)) /\ b = None
  BY <1>3, <1>4, <1>7 DEF IndexLinked
<1>8. CASE ~ (height > Height(tip)) /\ b # None
  <2>1. r.hash = (IF at = None THEN None ELSE at.hash) /\ r.index = Noted(c, b, height)
    BY <1>4, <1>8
  <2>2. height \in 0..Height(tip)
    <3>1. ~ (height > Height(tip))
      BY <1>8
    <3> QED
      BY <1>1, <1>2, <3>1
  <2>3. /\ b \in InBlocks(m) /\ Height(b) \in height..Height(tip)
        /\ b.hash = AtHeight(tip.hash, Height(b))
    <3>1. CASE c.entries # <<>> /\ height <= c.top
      <4>1. height \in 0..c.top
        BY <1>2, <1>3, <3>1
      <4>2. use \in 1..Len(c.entries) /\ EntryHeight(c, use) \in height..HeightOf[c.tip]
        BY <1>3, <3>1, <4>1, UseFacts
      <4> HIDE DEF use
      <4>3. c.entries[use] \in Hashes /\ c.entries[use] = AtHeight(c.tip, EntryHeight(c, use))
        BY <1>3, <4>2, EntryHeights DEF Linked
      <4>4. b = m.blocks[c.entries[use]]
        BY <3>1
      <4>5. b.hash = c.entries[use] /\ b \in InBlocks(m)
        BY <1>1, <1>8, <4>3, <4>4, BlocksMembers DEF BlocksKeyed
      <4>6. Height(b) = EntryHeight(c, use)
        <5>1. EntryHeight(c, use) \in 0..HeightOf[tip.hash]
          BY <1>3, <4>2, EntryHeights
        <5>2. AtHeight(tip.hash, EntryHeight(c, use)) # None
          BY <1>3, <4>3, HeadersLink
        <5>3. HeightOf[AtHeight(tip.hash, EntryHeight(c, use))] = EntryHeight(c, use)
          <6> DEFINE e == EntryHeight(c, use)
          <6>1. e \in 0..HeightOf[tip.hash] /\ AtHeight(tip.hash, e) # None /\ 0 \in 0..e
            BY <5>1, <5>2
          <6> HIDE DEF e
          <6>2. HeightOf[AtHeight(tip.hash, e)] = e
            BY <1>1, <6>1, BranchJoins
          <6> QED
            BY <6>2 DEF e
        <5> QED
          BY <1>3, <4>3, <4>5, <5>3 DEF Height
      <4> QED
        BY <1>1, <1>3, <4>2, <4>3, <4>5, <4>6
    <3>2. CASE ~ (c.entries # <<>> /\ height <= c.top)
      <4>1. b = tip
        BY <3>2
      <4>2. AtHeight(tip.hash, Height(tip)) = tip.hash
        <5>1. HeightOf[tip.hash] - Height(tip) = 0
          BY <1>1
        <5>2. Branch(tip.hash)[0] = tip.hash
          BY <1>1, BranchSteps
        <5> QED
          BY <5>1, <5>2 DEF AtHeight
      <4>3. Height(tip) \in height..Height(tip)
        BY <1>1, <2>2
      <4> QED
        BY <4>1, <4>2, <4>3
    <3> QED
      BY <3>1, <3>2
  <2> HIDE DEF b, c
  <2>4. Height(b) \in Nat /\ Height(b) \in 0..HeightOf[c.tip] /\ height \in 0..Height(b)
        /\ Height(b) \in 0..Height(tip)
    BY <1>1, <1>2, <1>3, <2>3
  <2>5. IndexLinked(r.index)
    <3>1. AtHeight(c.tip, Height(b)) = b.hash
      BY <1>3, <2>3
    <3>2. Noted(c, b, height) \in Indexes /\ Linked(Noted(c, b, height))
      BY <1>3, <2>3, <2>4, <3>1, NotedLinked
    <3> QED
      BY <2>1, <3>2 DEF IndexLinked
  <2>6. ASSUME walked # None PROVE r.hash = walked.hash
    <3>1. Ancestor(m, tip, Height(b)) # None /\ Ancestor(m, Ancestor(m, tip, Height(b)), height) = walked
      BY <2>4, <2>6, AncestorJoins
    <3>2. /\ Ancestor(m, tip, Height(b)) \in InBlocks(m)
          /\ Ancestor(m, tip, Height(b)).hash = AtHeight(tip.hash, Height(b))
      BY <2>4, <3>1, AncestorTells
    <3>3. Ancestor(m, tip, Height(b)) = b
      BY <2>3, <3>2, KeyedMembers
    <3>4. at = walked
      BY <3>1, <3>3
    <3> QED
      BY <2>1, <2>6, <3>4
  <2>7. ASSUME walked = None, at # None PROVE r.hash = AtHeight(tip.hash, height)
    <3>1. at.hash = AtHeight(b.hash, height)
      BY <2>3, <2>4, <2>7, AncestorTells
    <3>2. b.hash # None
      BY <2>3, KeyedMembers, ObjectFields, HeadersLink
    <3>3. AtHeight(b.hash, height) = AtHeight(tip.hash, height)
      BY <1>1, <2>3, <2>4, <3>2, BranchJoins
    <3> QED
      BY <2>1, <2>7, <3>1, <3>3
  <2> HIDE DEF at, walked
  <2> QED
    BY <1>5, <2>1, <2>5, <2>6, <2>7
<1> QED
  BY <1>6, <1>7, <1>8

LEMMA TipIsResident ==
  HeadersInv => BlocksKeyed(m) /\ m.lastBlock \in InBlocks(m)
<1> SUFFICES ASSUME HeadersInv PROVE BlocksKeyed(m) /\ m.lastBlock \in InBlocks(m)
  OBVIOUS
<1>1. m \in Tables /\ Keyed(m) /\ BlocksKeyed(m)
  BY DEF HeadersInv, Good, Keyed
<1>2. m.lastBlock # None /\ m.lastBlock.hash \in Hashes
  BY <1>1, ObjectFields DEF Tables
<1> QED
  BY <1>1, <1>2 DEF Keyed, InBlocks

(* Every entry of the index is the hash at its height of the branch of the *)
(* indexed tip, through every reorganisation, prune and rescan: the index  *)
(* is started again where it cannot be continued                           *)
(* (_BRPeerManagerMainHashAtHeightLocked).                                 *)
THEOREM TheIndexIsLinked == Spec => []IndexLinked(index)
<1>1. Init => IndexLinked(index)
  BY EmptySeq DEF Init, NoIndex, IndexLinked, Indexes
<1>2. HeadersInv /\ IndexLinked(index) /\ [Next]_vars => IndexLinked(index)'
  <2> SUFFICES ASSUME HeadersInv, IndexLinked(index), [Next]_vars PROVE IndexLinked(index')
    BY DEF IndexLinked, Linked, Indexes, EntryHeight, AtHeight, Branch
  <2>1. ASSUME NEW height \in 0..MaxHeight, AskChain(height) PROVE IndexLinked(index')
    <3>1. index' = Looked(index, height).index
      BY <2>1 DEF AskChain
    <3> QED
      BY <3>1, TipIsResident, LookedLinked
  <2>2. CASE index' = index
    BY <2>2
  <2> QED
    BY <2>1, <2>2 DEF Next, RelayedBlock, RelayedOrphan, AskFloor, Rescan, vars
<1> QED
  BY <1>1, <1>2, HeadersInvariant, PTL DEF Spec

(* Whatever was reorganised, pruned or rewound since its entries were      *)
(* noted, the index answers what a walk from the tip would, or, where a    *)
(* gap ends the walk, the hash of the tip's branch                         *)
(* (_BRPeerManagerMainHashAtHeightLocked).                                 *)
THEOREM TheIndexTellsTheChain == Spec => []IndexTellsTheChain
<1>1. HeadersInv /\ IndexLinked(index) => IndexTellsTheChain
  <2> SUFFICES ASSUME HeadersInv, IndexLinked(index), NEW height \in 0..MaxHeight
               PROVE  LET walked == HashAtHeight(m, height)
                          told   == Looked(index, height).hash
                      IN \/ told = walked
                         \/ walked = None /\ told = Branch(m.lastBlock.hash)[Height(m.lastBlock) - height]
    BY DEF IndexTellsTheChain
  <2> QED
    BY TipIsResident, LookedLinked DEF AtHeight, Height
<1> QED
  BY <1>1, HeadersInvariant, TheIndexIsLinked, PTL
=============================================================================
