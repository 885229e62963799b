------------------------ MODULE CFScanLedger_lemmas ------------------------
(***************************************************************************)
(* What each operation of the scan ledger does to one ledger, for every    *)
(* value of the constants: the facts on which the proofs about the ledger  *)
(* alone (CFScanLedger_proofs) and about the scan that drives it           *)
(* (CFScan_proofs) rest.                                                   *)
(*                                                                         *)
(* Safe is what every operation preserves.  What Advance adds to           *)
(* scannedThrough is settled because everything requested is settled or a  *)
(* hole, and what a request adds is covered because holes and both         *)
(* counters stay at or below requestedThrough and the abandoned floor at   *)
(* or below what was reported.                                             *)
(***************************************************************************)
EXTENDS CFScanLedger, TLAPS, FiniteSetTheorems, WellFoundedInduction

(* The order of Nat as the relation the induction theorems speak of.       *)
LEMMA NatOrder == \A x, y \in Nat : <<y, x>> \in OpToRel(<, Nat) <=> y < x
  BY DEF OpToRel

(* Min of heights is one of them and the least: the arrays of the ledger   *)
(* are sorted and their first entry is the lowest hole.                    *)
LEMMA MinIsLeast ==
  ASSUME NEW S \in SUBSET Nat, S # {}
  PROVE  Min(S) \in S /\ \A y \in S : Min(S) <= y
<1>1. PICK x \in S : \A y \in S : ~ (<<y, x>> \in OpToRel(<, Nat))
  BY WFMin, NatLessThanWellFounded
<1>2. \A y \in S : x <= y
  <2> TAKE y \in S
  <2>1. x \in Nat /\ y \in Nat
    OBVIOUS
  <2>2. ~ (y < x)
    BY <1>1, <2>1, NatOrder
  <2> QED
    BY <2>1, <2>2
<1> QED
  BY <1>2 DEF Min

(* Max of heights is one of them and the greatest.                         *)
LEMMA MaxIsGreatest ==
  ASSUME NEW S \in SUBSET Heights, S # {}
  PROVE  Max(S) \in S /\ \A y \in S : y <= Max(S)
<1>0. MaxHeight \in Nat /\ \A x \in S : x \in Nat /\ x <= MaxHeight
  BY LedgerConstants DEF Heights
<1> DEFINE T == {MaxHeight - x : x \in S}
<1>1. T \in SUBSET Nat /\ T # {}
  <2>1. \A x \in S : MaxHeight - x \in Nat
    BY <1>0
  <2> QED
    BY <2>1
<1>2. Min(T) \in T /\ \A y \in T : Min(T) <= y
  BY <1>1, MinIsLeast
<1>3. PICK x \in S : Min(T) = MaxHeight - x
  BY <1>2
<1>4. \A y \in S : MaxHeight - y \in T
  OBVIOUS
<1> HIDE DEF T
<1>5. \A y \in S : y <= x
  BY <1>0, <1>2, <1>3, <1>4
<1> QED
  BY <1>0, <1>5 DEF Max

(* _cfLedgerAdvance changes scannedThrough only, never down, and moves it  *)
(* to below every hole and within what was requested.                      *)
LEMMA AdvanceIsLedger ==
  ASSUME NEW l, IsLedger(l)
  PROVE  /\ IsLedger(Advance(l))
         /\ Advance(l).start = l.start
         /\ Advance(l).requestedThrough = l.requestedThrough
         /\ Advance(l).abandonedBelow = l.abandonedBelow
         /\ HolesOf(Advance(l)) = HolesOf(l)
         /\ l.scannedThrough <= Advance(l).scannedThrough
         /\ \/ Advance(l).scannedThrough = l.scannedThrough
            \/ /\ Advance(l).scannedThrough <= l.requestedThrough
               /\ \A h \in HolesOf(l) : Advance(l).scannedThrough < h
<1> DEFINE ceiling == IF HolesOf(l) = {} THEN l.requestedThrough
                      ELSE Smaller(l.requestedThrough, Min(HolesOf(l)) - 1)
           to == Larger(l.scannedThrough, ceiling)
<1>0. HolesOf(l) \in SUBSET Nat /\ \A h \in HolesOf(l) : h >= 1
  BY LedgerConstants DEF IsLedger, HolesOf, HolesIn, Heights
<1>1. HolesOf(l) # {} => Min(HolesOf(l)) \in HolesOf(l) /\ \A y \in HolesOf(l) : Min(HolesOf(l)) <= y
  BY <1>0, MinIsLeast
<1>2. /\ ceiling \in 0..MaxHeight /\ ceiling <= l.requestedThrough
      /\ \A h \in HolesOf(l) : ceiling < h
  BY <1>0, <1>1, LedgerConstants DEF IsLedger, Smaller
<1>3. /\ to \in 0..MaxHeight /\ l.scannedThrough <= to
      /\ to = l.scannedThrough \/ to = ceiling
  BY <1>2, LedgerConstants DEF IsLedger, Larger
<1>4. Advance(l) = [l EXCEPT !.scannedThrough = to]
  BY DEF Advance
<1> HIDE DEF ceiling, to
<1>5. Advance(l) = [start |-> l.start, scannedThrough |-> to,
            requestedThrough |-> l.requestedThrough, abandonedBelow |-> l.abandonedBelow,
            outstanding |-> l.outstanding, gaveUp |-> l.gaveUp]
  BY <1>4 DEF IsLedger
<1> QED
  BY <1>5, <1>3, <1>2, LedgerConstants DEF IsLedger, HolesOf

(* What every call preserves of a ledger l, the judged heights ev and the  *)
(* highest floor sb that was reported: the inductive invariant.            *)
Safe(l, ev, sb) ==
    /\ IsLedger(l) /\ ev \subseteq Heights /\ sb \in 0..(MaxHeight + 1)
    /\ l.scannedThrough <= l.requestedThrough
    /\ l.start <= l.requestedThrough + 1
    /\ l.abandonedBelow <= sb
    /\ \A h \in HolesOf(l) : h <= l.requestedThrough
    /\ \A h \in l.start..l.requestedThrough : h \in ev \/ h < sb \/ h \in HolesOf(l)
    /\ \A h \in l.start..l.scannedThrough : h \in ev \/ h < sb

(* m is a ledger the scan may have after l without starting again.         *)
Onwards(l, m) == m.start = l.start /\ m.scannedThrough >= l.scannedThrough

(* And it asked for nothing new: what every call does but the requests,    *)
(* RewindTo and Init.                                                      *)
Follows(l, m) ==
    /\ Onwards(l, m)
    /\ m.requestedThrough = l.requestedThrough /\ HolesOf(m) \subseteq HolesOf(l)

(* A ledger follows itself, and what follows a follower follows.           *)
LEMMA FollowsOnwards ==
  /\ \A l : IsLedger(l) => Follows(l, l)
  /\ \A l, m, n : IsLedger(l) /\ IsLedger(m) /\ IsLedger(n) /\ Follows(l, m) /\ Follows(m, n)
                    => Follows(l, n)
<1>1. \A l : IsLedger(l) => l.scannedThrough \in Nat
  BY LedgerConstants DEF IsLedger
<1> QED
  BY <1>1 DEF Follows, Onwards

(* More verdicts and more reports do not harm.                             *)
LEMMA SafeIsMonotone ==
  ASSUME NEW l, NEW ev, NEW sb, Safe(l, ev, sb),
         NEW ev2, ev2 \subseteq Heights, NEW sb2 \in 0..(MaxHeight + 1), sb <= sb2,
         \A h \in l.start..l.requestedThrough : h \in ev => h \in ev2 \/ h < sb2
  PROVE  Safe(l, ev2, sb2)
<1>1. /\ sb \in Nat /\ sb2 \in Nat /\ l.start \in Nat /\ l.scannedThrough \in Nat
      /\ l.requestedThrough \in Nat /\ l.abandonedBelow \in Nat
      /\ l.scannedThrough <= l.requestedThrough
  BY LedgerConstants DEF Safe, IsLedger
<1>2. \A h \in l.start..l.requestedThrough : h < sb => h < sb2
  BY <1>1
<1>3. \A h \in l.start..l.scannedThrough : h \in l.start..l.requestedThrough
  BY <1>1
<1> QED
  BY <1>1, <1>2, <1>3 DEF Safe

(* _cfLedgerAdvance counts only heights that are judged or reported.       *)
LEMMA AdvanceIsSafe ==
  ASSUME NEW l, NEW ev, NEW sb, Safe(l, ev, sb)
  PROVE  Safe(Advance(l), ev, sb) /\ Follows(l, Advance(l))
<1> DEFINE a == Advance(l)
<1>0. /\ IsLedger(l) /\ l.start \in Nat /\ l.requestedThrough \in Nat /\ l.scannedThrough \in Nat
      /\ sb \in Nat
  BY LedgerConstants DEF Safe, IsLedger
<1>1. /\ IsLedger(a) /\ a.start = l.start /\ a.requestedThrough = l.requestedThrough
      /\ a.abandonedBelow = l.abandonedBelow /\ HolesOf(a) = HolesOf(l)
      /\ \/ a.scannedThrough = l.scannedThrough
         \/ /\ a.scannedThrough <= l.requestedThrough
            /\ \A h \in HolesOf(l) : a.scannedThrough < h
      /\ a.scannedThrough \in Nat
  <2> IsLedger(a) => a.scannedThrough \in Nat
    BY LedgerConstants DEF IsLedger
  <2> QED
    BY <1>0, AdvanceIsLedger
<1> HIDE DEF a
<1>2. a.scannedThrough <= a.requestedThrough
  BY <1>1 DEF Safe
<1>3. \A h \in a.start..a.scannedThrough : h \in ev \/ h < sb
  <2>1. CASE a.scannedThrough = l.scannedThrough
    BY <1>1, <2>1 DEF Safe
  <2>2. CASE /\ a.scannedThrough <= l.requestedThrough
             /\ \A h \in HolesOf(l) : a.scannedThrough < h
    <3> TAKE h \in a.start..a.scannedThrough
    <3>1. h \in l.start..l.requestedThrough /\ h <= a.scannedThrough
      BY <1>0, <1>1, <2>2
    <3>2. h \notin HolesOf(l)
      BY <1>1, <2>2, <3>1
    <3> QED
      BY <3>1, <3>2 DEF Safe
  <2> QED
    BY <1>1, <2>1, <2>2
<1>4. Safe(a, ev, sb)
  BY <1>1, <1>2, <1>3 DEF Safe
<1>5. Follows(l, a)
  <2>1. l.scannedThrough <= a.scannedThrough
    BY <1>0, AdvanceIsLedger DEF a
  <2> QED
    BY <1>0, <1>1, <2>1 DEF Follows, Onwards
<1> QED
  BY <1>4, <1>5 DEF a

(* A call that keeps the holes and the scalars keeps the invariant.        *)
LEMMA SameHolesIsSafe ==
  ASSUME NEW l, NEW ev, NEW sb, Safe(l, ev, sb), NEW m, IsLedger(m),
         HolesOf(m) = HolesOf(l), m.start = l.start, m.scannedThrough = l.scannedThrough,
         m.requestedThrough = l.requestedThrough, m.abandonedBelow = l.abandonedBelow
  PROVE  Safe(m, ev, sb) /\ Follows(l, m)
<1>1. l.scannedThrough \in Nat
  BY LedgerConstants DEF Safe, IsLedger
<1> QED
  BY <1>1 DEF Safe, Follows, Onwards

(* The ledger l with the outstanding holes f and the parked holes g.       *)
Holding(l, f, g) == [l EXCEPT !.outstanding = f, !.gaveUp = g]

(* A ledger by its fields, to reason about updates of a field at a time.   *)
Ledger(st, sc, rq, ab, out, gu) ==
    [start |-> st, scannedThrough |-> sc, requestedThrough |-> rq,
     abandonedBelow |-> ab, outstanding |-> out, gaveUp |-> gu]

(* Setting requestedThrough of a ledger.                                   *)
LEMMA LedgerWithRequested ==
  \A st, sc, rq, ab, out, gu, x :
    [Ledger(st, sc, rq, ab, out, gu) EXCEPT !.requestedThrough = x] = Ledger(st, sc, x, ab, out, gu)
  BY DEF Ledger

(* Setting abandonedBelow of a ledger.                                     *)
LEMMA LedgerWithAbandoned ==
  \A st, sc, rq, ab, out, gu, x :
    [Ledger(st, sc, rq, ab, out, gu) EXCEPT !.abandonedBelow = x] = Ledger(st, sc, rq, x, out, gu)
  BY DEF Ledger

(* Setting outstanding of a ledger.                                        *)
LEMMA LedgerWithOutstanding ==
  \A st, sc, rq, ab, out, gu, x :
    [Ledger(st, sc, rq, ab, out, gu) EXCEPT !.outstanding = x] = Ledger(st, sc, rq, ab, x, gu)
  BY DEF Ledger

(* Setting gaveUp of a ledger.                                             *)
LEMMA LedgerWithGaveUp ==
  \A st, sc, rq, ab, out, gu, x :
    [Ledger(st, sc, rq, ab, out, gu) EXCEPT !.gaveUp = x] = Ledger(st, sc, rq, ab, out, x)
  BY DEF Ledger

(* Every ledger is given by its fields.                                    *)
LEMMA LedgerOf ==
  ASSUME NEW l, IsLedger(l)
  PROVE  l = Ledger(l.start, l.scannedThrough, l.requestedThrough, l.abandonedBelow,
                    l.outstanding, l.gaveUp)
  BY DEF IsLedger, Ledger

(* The fields of a ledger.                                                 *)
LEMMA LedgerFields ==
  ASSUME NEW st, NEW sc, NEW rq, NEW ab, NEW out, NEW gu
  PROVE  /\ Ledger(st, sc, rq, ab, out, gu).start = st
         /\ Ledger(st, sc, rq, ab, out, gu).scannedThrough = sc
         /\ Ledger(st, sc, rq, ab, out, gu).requestedThrough = rq
         /\ Ledger(st, sc, rq, ab, out, gu).abandonedBelow = ab
         /\ Ledger(st, sc, rq, ab, out, gu).outstanding = out
         /\ Ledger(st, sc, rq, ab, out, gu).gaveUp = gu
         /\ HolesOf(Ledger(st, sc, rq, ab, out, gu)) = DOMAIN out \cup DOMAIN gu
  BY DEF Ledger, HolesOf

(* Fields of the right types make a ledger.                                *)
LEMMA LedgerIsLedger ==
  ASSUME NEW st \in 0..(MaxHeight + 1), NEW sc \in 0..MaxHeight, NEW rq \in 0..MaxHeight,
         NEW ab \in 0..(MaxHeight + 1), NEW out, HolesIn(out, Hole), NEW gu, HolesIn(gu, ParkedHole)
  PROVE  IsLedger(Ledger(st, sc, rq, ab, out, gu))
  BY DEF IsLedger, Ledger

(* Replacing the two arrays of holes leaves a ledger and its scalars.      *)
LEMMA HoldingIsLedger ==
  ASSUME NEW l, IsLedger(l), NEW f, HolesIn(f, Hole), NEW g, HolesIn(g, ParkedHole)
  PROVE  LET m == Holding(l, f, g)
         IN /\ IsLedger(m) /\ m.start = l.start /\ m.scannedThrough = l.scannedThrough
            /\ m.requestedThrough = l.requestedThrough /\ m.abandonedBelow = l.abandonedBelow
            /\ HolesOf(m) = DOMAIN f \cup DOMAIN g
<1>1. [l EXCEPT !.outstanding = f] =
        Ledger(l.start, l.scannedThrough, l.requestedThrough, l.abandonedBelow, f, l.gaveUp)
  BY LedgerOf, LedgerWithOutstanding
<1>2. Holding(l, f, g) =
        [Ledger(l.start, l.scannedThrough, l.requestedThrough, l.abandonedBelow, f, l.gaveUp)
            EXCEPT !.gaveUp = g]
  <2>1. Holding(l, f, g) = [[l EXCEPT !.outstanding = f] EXCEPT !.gaveUp = g]
    BY DEF Holding
  <2> QED
    BY <1>1, <2>1
<1>3. Holding(l, f, g) =
        Ledger(l.start, l.scannedThrough, l.requestedThrough, l.abandonedBelow, f, g)
  BY <1>2, LedgerWithGaveUp
<1>4. IsLedger(Ledger(l.start, l.scannedThrough, l.requestedThrough, l.abandonedBelow, f, g))
  BY LedgerIsLedger DEF IsLedger
<1> QED
  BY <1>3, <1>4, LedgerFields

(* Moving holes between the arrays, losing none, is safe.                  *)
LEMMA HoldingIsSafe ==
  ASSUME NEW l, NEW ev, NEW sb, Safe(l, ev, sb),
         NEW f, HolesIn(f, Hole), NEW g, HolesIn(g, ParkedHole),
         DOMAIN f \cup DOMAIN g = HolesOf(l)
  PROVE  Safe(Holding(l, f, g), ev, sb) /\ Follows(l, Holding(l, f, g))
<1> DEFINE m == Holding(l, f, g)
<1>1. IsLedger(l)
  BY DEF Safe
<1>2. /\ IsLedger(m) /\ m.start = l.start /\ m.scannedThrough = l.scannedThrough
      /\ m.requestedThrough = l.requestedThrough /\ m.abandonedBelow = l.abandonedBelow
      /\ HolesOf(m) = HolesOf(l)
  BY <1>1, HoldingIsLedger, ZenonT(60)
<1> HIDE DEF m
<1>3. Safe(m, ev, sb) /\ Follows(l, m)
  BY <1>2, SameHolesIsSafe
<1> QED
  BY <1>3 DEF m

(* Changing what is known of the outstanding holes is safe.                *)
LEMMA AskingIsSafe ==
  ASSUME NEW l, NEW ev, NEW sb, Safe(l, ev, sb),
         NEW f, f \in [DOMAIN l.outstanding -> Hole]
  PROVE  LET m == [l EXCEPT !.outstanding = f] IN Safe(m, ev, sb) /\ Follows(l, m)
<1>1. [l EXCEPT !.outstanding = f] = Holding(l, f, l.gaveUp)
  BY DEF Safe, IsLedger, Holding
<1>2. HolesIn(f, Hole) /\ HolesIn(l.gaveUp, ParkedHole)
  BY DEF Safe, IsLedger, HolesIn
<1>3. DOMAIN f \cup DOMAIN l.gaveUp = HolesOf(l)
  BY DEF HolesOf
<1> QED
  BY <1>1, <1>2, <1>3, HoldingIsSafe

(* Part of an array of holes is one.                                       *)
LEMMA RestrictHoles ==
  ASSUME NEW f, NEW T, HolesIn(f, T), NEW S, S \subseteq DOMAIN f
  PROVE  HolesIn(Restrict(f, S), T) /\ DOMAIN Restrict(f, S) = S
  BY DEF HolesIn, Restrict

(* BRCFScanLedgerMarkEvaluated: a hole leaves because it was judged.       *)
LEMMA MarkEvaluatedIsSafe ==
  ASSUME NEW l, NEW ev, NEW sb, Safe(l, ev, sb), NEW S \in SUBSET Heights
  PROVE  LET m == MarkAllEvaluated(l, S) IN Safe(m, ev \cup S, sb) /\ Follows(l, m)
<1> DEFINE f == Restrict(l.outstanding, DOMAIN l.outstanding \ S)
           g == Restrict(l.gaveUp, DOMAIN l.gaveUp \ S)
           m == Holding(l, f, g)
<1>1. /\ HolesIn(f, Hole) /\ DOMAIN f = DOMAIN l.outstanding \ S
      /\ HolesIn(g, ParkedHole) /\ DOMAIN g = DOMAIN l.gaveUp \ S
  BY RestrictHoles DEF Safe, IsLedger
<1>2. MarkAllEvaluated(l, S) = IF S = {} THEN l ELSE Advance(m)
  BY DEF MarkAllEvaluated, Holding
<1> HIDE DEF f, g
<1>3. /\ IsLedger(m) /\ m.start = l.start /\ m.scannedThrough = l.scannedThrough
      /\ m.requestedThrough = l.requestedThrough /\ m.abandonedBelow = l.abandonedBelow
      /\ HolesOf(m) = HolesOf(l) \ S
  <2>1. IsLedger(l) /\ DOMAIN f \cup DOMAIN g = HolesOf(l) \ S
    BY <1>1 DEF Safe, HolesOf
  <2> QED
    BY <1>1, <2>1, HoldingIsLedger
<1> HIDE DEF m
<1>4. Safe(m, ev \cup S, sb)
  BY <1>3 DEF Safe
<1>5. IsLedger(l) /\ l.scannedThrough \in Nat
  BY LedgerConstants DEF Safe, IsLedger
<1>6. Follows(l, m)
  BY <1>3, <1>5 DEF Follows, Onwards
<1>7. CASE S = {}
  BY <1>2, <1>5, <1>7, FollowsOnwards
<1>8. CASE S # {}
  <2>1. Safe(Advance(m), ev \cup S, sb) /\ Follows(m, Advance(m))
    BY <1>4, AdvanceIsSafe
  <2>2. IsLedger(Advance(m))
    BY <2>1 DEF Safe
  <2>3. Follows(l, Advance(m))
    BY <1>3, <1>5, <1>6, <2>1, <2>2, FollowsOnwards
  <2> QED
    BY <1>2, <1>8, <2>1, <2>3
<1> QED
  BY <1>7, <1>8

(* BRCFScanLedgerReArmPeer keeps the holes of a lost peer.                 *)
LEMMA ReArmPeerIsSafe ==
  ASSUME NEW l, NEW ev, NEW sb, Safe(l, ev, sb), NEW p \in Peers
  PROVE  LET m == ReArmPeer(l, p) IN Safe(m, ev, sb) /\ Follows(l, m)
<1> DEFINE f == [h \in DOMAIN l.outstanding |->
                   IF l.outstanding[h].peer = p
                   THEN [l.outstanding[h] EXCEPT !.peer = NoPeer, !.live = FALSE]
                   ELSE l.outstanding[h]]
<1>1. f \in [DOMAIN l.outstanding -> Hole]
  BY DEF Safe, IsLedger, HolesIn, Hole
<1>2. ReArmPeer(l, p) = [l EXCEPT !.outstanding = f]
  BY DEF ReArmPeer
<1> HIDE DEF f
<1> QED
  BY <1>1, <1>2, AskingIsSafe

(* The passing of time changes no hole but its being due.                  *)
LEMMA BackoffIsSafe ==
  ASSUME NEW l, NEW ev, NEW sb, Safe(l, ev, sb), NEW h \in DOMAIN l.outstanding
  PROVE  LET m == [l EXCEPT !.outstanding[h].due = TRUE] IN Safe(m, ev, sb) /\ Follows(l, m)
<1> DEFINE f == [l.outstanding EXCEPT ![h].due = TRUE]
<1>1. f \in [DOMAIN l.outstanding -> Hole]
  BY DEF Safe, IsLedger, HolesIn, Hole
<1>2. [l EXCEPT !.outstanding[h].due = TRUE] = [l EXCEPT !.outstanding = f]
  OBVIOUS
<1> HIDE DEF f
<1> QED
  BY <1>1, <1>2, AskingIsSafe

(* BRCFScanLedgerMarkOffersMissedLivePeer keeps the holes.                 *)
LEMMA OffersMissedIsSafe ==
  ASSUME NEW l, NEW ev, NEW sb, Safe(l, ev, sb), NEW S
  PROVE  LET m == MarkOffersMissedLivePeer(l, S) IN Safe(m, ev, sb) /\ Follows(l, m)
<1> DEFINE f == [h \in DOMAIN l.outstanding |->
                   IF h \in S THEN [l.outstanding[h] EXCEPT !.live = FALSE]
                   ELSE l.outstanding[h]]
<1>1. f \in [DOMAIN l.outstanding -> Hole]
  BY DEF Safe, IsLedger, HolesIn, Hole
<1>2. MarkOffersMissedLivePeer(l, S) = [l EXCEPT !.outstanding = f]
  BY DEF MarkOffersMissedLivePeer
<1> HIDE DEF f
<1> QED
  BY <1>1, <1>2, AskingIsSafe

(* One more attempt at a hole that is not capped stays within MaxAttempts. *)
LEMMA AttemptIsHole ==
  ASSUME NEW e \in Hole, ~ Capped(e)
  PROVE  Attempt(e) \in Hole
<1>1. MaxAttempts \in Nat /\ e.attempts \in 0..MaxAttempts /\ ~ (e.attempts >= MaxAttempts)
  BY LedgerConstants DEF Hole, Capped
<1>2. e.attempts + 1 \in 0..MaxAttempts
  BY <1>1
<1> QED
  BY <1>2 DEF Attempt, Hole

(* BRCFScanLedgerCommitRerequest keeps the holes and the attempts in       *)
(* bounds.                                                                 *)
LEMMA CommitIsSafe ==
  ASSUME NEW l, NEW ev, NEW sb, Safe(l, ev, sb), NEW p \in Peers, NEW S,
         \A h \in S : h \in DOMAIN l.outstanding /\ ~ Capped(l.outstanding[h])
  PROVE  LET m == CommitRerequest(l, S, p) IN Safe(m, ev, sb) /\ Follows(l, m)
<1> DEFINE f == [h \in DOMAIN l.outstanding |->
                   IF h \in S THEN [Attempt(l.outstanding[h]) EXCEPT !.peer = p]
                   ELSE l.outstanding[h]]
<1>1. f \in [DOMAIN l.outstanding -> Hole]
  <2> SUFFICES ASSUME NEW h \in DOMAIN l.outstanding
               PROVE  f[h] \in Hole
    OBVIOUS
  <2>1. l.outstanding[h] \in Hole
    BY DEF Safe, IsLedger, HolesIn
  <2>2. CASE h \in S
    <3>1. Attempt(l.outstanding[h]) \in Hole
      BY <2>1, <2>2, AttemptIsHole
    <3> QED
      BY <2>2, <3>1 DEF Hole
  <2> QED
    BY <2>1, <2>2
<1>2. CommitRerequest(l, S, p) = [l EXCEPT !.outstanding = f]
  BY DEF CommitRerequest
<1> HIDE DEF f
<1> QED
  BY <1>1, <1>2, AskingIsSafe

(* BRCFScanLedgerPeekRerequestRange yields outstanding, uncapped holes.    *)
LEMMA PeekedAreOfferable ==
  ASSUME NEW l, IsLedger(l), NEW minH \in Heights, NEW h \in PeekRerequestRange(l, minH)
  PROVE  h \in DOMAIN l.outstanding /\ ~ Capped(l.outstanding[h])
<1> DEFINE due == {k \in DOMAIN l.outstanding : k >= minH /\ Offerable(l, k)}
           first == Min(due)
<1>1. due # {} /\ due \in SUBSET Nat
  BY LedgerConstants DEF PeekRerequestRange, IsLedger, HolesIn, Heights
<1>2. first \in Nat
  BY <1>1, MinIsLeast
<1>3. h \in first..(first + MaxRange - 1) /\ \A k \in first..h : k \in due
  BY <1>1 DEF PeekRerequestRange
<1>4. h \in first..h
  BY <1>2, <1>3
<1>5. h \in due
  BY <1>3, <1>4
<1> QED
  BY <1>5 DEF Offerable

(* BRCFScanLedgerRetireCapped moves capped holes to gaveUp or keeps them:  *)
(* a full gaveUp array drops nothing.                                      *)
LEMMA RetireCappedIsSafe ==
  ASSUME NEW l, NEW ev, NEW sb, Safe(l, ev, sb)
  PROVE  LET m == RetireCapped(l) IN Safe(m, ev, sb) /\ Follows(l, m)
<1> DEFINE capped == {h \in DOMAIN l.outstanding : Capped(l.outstanding[h])}
           new == capped \ DOMAIN l.gaveUp
           room == GaveUpMax - Cardinality(DOMAIN l.gaveUp)
           moved == {h \in capped : h \in new => Cardinality({k \in new : k < h}) < room}
           Merge(h) ==
             IF h \in new
             THEN [cycles |-> l.outstanding[h].cycles, live |-> l.outstanding[h].live]
             ELSE [cycles |-> Larger(l.outstanding[h].cycles, l.gaveUp[h].cycles),
                   live |-> l.outstanding[h].live /\ l.gaveUp[h].live]
           f == Restrict(l.outstanding, DOMAIN l.outstanding \ moved)
           g == [h \in DOMAIN l.gaveUp \cup moved |-> IF h \in moved THEN Merge(h) ELSE l.gaveUp[h]]
<1>1. RetireCapped(l) = Holding(l, f, g)
  BY DEF RetireCapped, Holding
<1>2. moved \subseteq capped
  OBVIOUS
<1> HIDE DEF moved
<1>3. HolesIn(f, Hole) /\ DOMAIN f = DOMAIN l.outstanding \ moved
  BY RestrictHoles DEF Safe, IsLedger
<1>4. \A h \in capped : Merge(h) \in ParkedHole
  <2> SUFFICES ASSUME NEW h \in capped
               PROVE  Merge(h) \in ParkedHole
    OBVIOUS
  <2>1. l.outstanding[h].cycles \in 0..CyclesMax /\ l.outstanding[h].live \in BOOLEAN
    BY DEF Safe, IsLedger, HolesIn, Hole
  <2>2. CASE h \in new
    BY <2>1, <2>2 DEF ParkedHole
  <2>3. CASE h \notin new
    <3>1. l.gaveUp[h].cycles \in 0..CyclesMax /\ l.gaveUp[h].live \in BOOLEAN
      BY <2>3 DEF Safe, IsLedger, HolesIn, ParkedHole
    <3> QED
      BY <2>1, <2>3, <3>1 DEF ParkedHole, Larger
  <2> QED
    BY <2>2, <2>3
<1>5. HolesIn(g, ParkedHole) /\ DOMAIN g = DOMAIN l.gaveUp \cup moved
  <2> HIDE DEF Merge
  <2> QED
    BY <1>2, <1>4 DEF Safe, IsLedger, HolesIn
<1> HIDE DEF f, g
<1>6. DOMAIN f \cup DOMAIN g = HolesOf(l)
  BY <1>2, <1>3, <1>5 DEF HolesOf
<1> QED
  BY <1>1, <1>3, <1>5, <1>6, HoldingIsSafe

(* BRCFScanLedgerNextRerequest keeps the holes.                            *)
LEMMA NextRerequestIsSafe ==
  ASSUME NEW l, NEW ev, NEW sb, Safe(l, ev, sb)
  PROVE  LET m == NextRerequest(l) IN Safe(m, ev, sb) /\ Follows(l, m)
<1> DEFINE r == RetireCapped(l)
           due == {h \in DOMAIN r.outstanding : ~ Capped(r.outstanding[h]) /\ r.outstanding[h].due}
           f == [r.outstanding EXCEPT ![Min(due)] = Attempt(@)]
<1>1. Safe(r, ev, sb) /\ Follows(l, r)
  BY RetireCappedIsSafe
<1>2. NextRerequest(l) = IF due = {} THEN r ELSE [r EXCEPT !.outstanding = f]
  BY DEF NextRerequest
<1> HIDE DEF r
<1>3. ASSUME due # {} PROVE f \in [DOMAIN r.outstanding -> Hole]
  <2>1. due \in SUBSET Nat
    BY <1>1, LedgerConstants DEF Safe, IsLedger, HolesIn, Heights
  <2>2. Min(due) \in due
    BY <1>3, <2>1, MinIsLeast
  <2>3. r.outstanding \in [DOMAIN r.outstanding -> Hole]
    BY <1>1 DEF Safe, IsLedger, HolesIn
  <2>4. Attempt(r.outstanding[Min(due)]) \in Hole
    BY <2>2, <2>3, AttemptIsHole
  <2> QED
    BY <2>2, <2>3, <2>4
<1> HIDE DEF f, due
<1>4. CASE due = {}
  BY <1>1, <1>2, <1>4
<1>5. CASE due # {}
  <2>1. Safe(NextRerequest(l), ev, sb) /\ Follows(r, NextRerequest(l))
    BY <1>1, <1>2, <1>3, <1>5, AskingIsSafe
  <2>2. IsLedger(l) /\ IsLedger(r) /\ IsLedger(NextRerequest(l))
    BY <1>1, <2>1 DEF Safe
  <2> QED
    BY <1>1, <2>1, <2>2, FollowsOnwards
<1> QED
  BY <1>4, <1>5

(* BRCFScanLedgerReArmParkedRun moves parked holes back, or leaves them    *)
(* where outstanding is full.                                              *)
LEMMA ReArmParkedRunIsSafe ==
  ASSUME NEW l, NEW ev, NEW sb, Safe(l, ev, sb), NEW from \in Heights, NEW maxRun \in Nat
  PROVE  LET m == ReArmParkedRun(l, from, maxRun) IN Safe(m, ev, sb) /\ Follows(l, m)
<1> DEFINE parkedOnly(h) == h \in DOMAIN l.gaveUp \ DOMAIN l.outstanding
           fits(h) == Cardinality({k \in from..(h - 1) : parkedOnly(k)})
                          < OutstandingMax - Cardinality(DOMAIN l.outstanding)
           parked(h) ==
             /\ h >= l.abandonedBelow
             /\ \/ h \in DOMAIN l.outstanding /\ Capped(l.outstanding[h])
                \/ parkedOnly(h) /\ fits(h)
           run == {h \in from..(from + maxRun - 1) : \A k \in from..h : parked(k)}
           back == {h \in run : parkedOnly(h)}
           f == [h \in DOMAIN l.outstanding \cup back |->
                   IF h \in back THEN Rearmed(l.gaveUp[h].cycles)
                   ELSE IF h \in run THEN Rearmed(l.outstanding[h].cycles)
                   ELSE l.outstanding[h]]
           g == Restrict(l.gaveUp, DOMAIN l.gaveUp \ back)
<1>1. ReArmParkedRun(l, from, maxRun) = IF run = {} THEN l ELSE Advance(Holding(l, f, g))
  BY DEF ReArmParkedRun, Holding
<1>2. back \subseteq DOMAIN l.gaveUp \ DOMAIN l.outstanding
  OBVIOUS
<1>3. HolesIn(g, ParkedHole) /\ DOMAIN g = DOMAIN l.gaveUp \ back
  BY RestrictHoles DEF Safe, IsLedger
<1> HIDE DEF run, back
<1>4. \A c \in 0..CyclesMax : Rearmed(c) \in Hole
  BY LedgerConstants DEF Rearmed, Smaller, Hole
<1>5. HolesIn(f, Hole) /\ DOMAIN f = DOMAIN l.outstanding \cup back
  <2>1. \A h \in DOMAIN l.outstanding :
           l.outstanding[h] \in Hole /\ l.outstanding[h].cycles \in 0..CyclesMax
    BY DEF Safe, IsLedger, HolesIn, Hole
  <2>2. \A h \in DOMAIN l.gaveUp : l.gaveUp[h].cycles \in 0..CyclesMax
    BY DEF Safe, IsLedger, HolesIn, ParkedHole
  <2>3. DOMAIN l.outstanding \cup back \subseteq Heights
    BY <1>2 DEF Safe, IsLedger, HolesIn
  <2>4. \A h \in DOMAIN l.outstanding \cup back : f[h] \in Hole
    BY <1>2, <1>4, <2>1, <2>2
  <2> QED
    BY <2>3, <2>4 DEF HolesIn
<1> HIDE DEF f, g
<1>6. DOMAIN f \cup DOMAIN g = HolesOf(l)
  BY <1>2, <1>3, <1>5 DEF HolesOf
<1>7. Safe(Holding(l, f, g), ev, sb) /\ Follows(l, Holding(l, f, g))
  BY <1>3, <1>5, <1>6, HoldingIsSafe
<1> DEFINE m == Holding(l, f, g)
<1> HIDE DEF m
<1>8. Safe(Advance(m), ev, sb) /\ Follows(m, Advance(m))
  BY <1>7, AdvanceIsSafe DEF m
<1>9. IsLedger(l) /\ IsLedger(m) /\ IsLedger(Advance(m))
  BY <1>7, <1>8 DEF Safe, m
<1>10. Follows(l, l) /\ Follows(l, Advance(m))
  BY <1>7, <1>8, <1>9, FollowsOnwards DEF m
<1> QED
  BY <1>1, <1>8, <1>10 DEF m

(* BRCFScanLedgerRetireAbandonedTo only gives back what was reported.      *)
LEMMA RetireAbandonedToIsSafe ==
  ASSUME NEW l, NEW ev, NEW sb, Safe(l, ev, sb), NEW floor \in Heights
  PROVE  LET m == RetireAbandonedTo(l, floor) IN Safe(m, ev, sb) /\ Follows(l, m)
<1> DEFINE m == [l EXCEPT !.abandonedBelow = floor]
<1>1. CASE floor < l.abandonedBelow
  <2>1. IsLedger(l) /\ floor \in 0..(MaxHeight + 1) /\ floor <= sb
    BY <1>1, LedgerConstants DEF Safe, IsLedger, Heights
  <2>2. m = Ledger(l.start, l.scannedThrough, l.requestedThrough, floor, l.outstanding, l.gaveUp)
    BY <2>1, LedgerOf, LedgerWithAbandoned
  <2>3. /\ IsLedger(m) /\ m.start = l.start /\ m.scannedThrough = l.scannedThrough
        /\ m.requestedThrough = l.requestedThrough /\ m.abandonedBelow = floor
        /\ HolesOf(m) = HolesOf(l)
    BY <2>1, <2>2, LedgerFields, LedgerIsLedger DEF IsLedger, HolesOf
  <2> HIDE DEF m
  <2>4. Safe(m, ev, sb)
    BY <2>1, <2>3 DEF Safe
  <2>5. l.scannedThrough \in Nat /\ Follows(l, l)
    BY <2>1, FollowsOnwards, LedgerConstants DEF IsLedger
  <2>6. Follows(l, m)
    BY <2>3, <2>5 DEF Follows, Onwards
  <2> QED
    BY <2>4, <2>5, <2>6 DEF RetireAbandonedTo, m
<1>2. CASE ~ (floor < l.abandonedBelow)
  <2>1. Follows(l, l)
    BY FollowsOnwards DEF Safe
  <2> QED
    BY <1>2, <2>1 DEF RetireAbandonedTo
<1> QED
  BY <1>1, <1>2

(* The invariant, field by field.                                          *)
LEMMA LedgerIsSafe ==
  ASSUME NEW st \in 0..(MaxHeight + 1), NEW sc \in 0..MaxHeight, NEW rq \in 0..MaxHeight,
         NEW ab \in 0..(MaxHeight + 1), NEW out, HolesIn(out, Hole), NEW gu, HolesIn(gu, ParkedHole),
         NEW ev, ev \subseteq Heights, NEW sb \in 0..(MaxHeight + 1),
         sc <= rq, st <= rq + 1, ab <= sb,
         \A h \in DOMAIN out \cup DOMAIN gu : h <= rq,
         \A h \in st..rq : h \in ev \/ h < sb \/ h \in DOMAIN out \cup DOMAIN gu,
         \A h \in st..sc : h \in ev \/ h < sb
  PROVE  Safe(Ledger(st, sc, rq, ab, out, gu), ev, sb)
<1>1. IsLedger(Ledger(st, sc, rq, ab, out, gu))
  BY LedgerIsLedger
<1> QED
  BY <1>1, LedgerFields DEF Safe

(* BRCFScanLedgerInit starts with nothing requested.                       *)
LEMMA NewLedgerIsSafe ==
  ASSUME NEW ev, ev \subseteq Heights, NEW sb \in 0..(MaxHeight + 1),
         NEW s \in 1..(MaxHeight + 1)
  PROVE  LET m == NewLedger(s)
         IN /\ Safe(m, ev, sb)
            /\ m.start = s /\ m.scannedThrough = s - 1 /\ m.requestedThrough = s - 1
            /\ m.abandonedBelow = 0 /\ HolesOf(m) = {}
<1> DEFINE f == [h \in {} |-> FreshHole(NoPeer)]
<1>1. s \in Nat /\ s >= 1 /\ s <= MaxHeight + 1 /\ MaxHeight \in Nat
  BY LedgerConstants
<1>2. NewLedger(s) = Ledger(s, s - 1, s - 1, 0, f, f)
  BY <1>1 DEF NewLedger, Ledger
<1>3. HolesIn(f, Hole) /\ HolesIn(f, ParkedHole) /\ DOMAIN f = {}
  BY DEF HolesIn
<1> HIDE DEF f
<1>4. /\ s \in 0..(MaxHeight + 1) /\ s - 1 \in 0..MaxHeight /\ 0 \in 0..(MaxHeight + 1)
      /\ s <= (s - 1) + 1 /\ 0 <= sb
  BY <1>1
<1>5. s..(s - 1) = {}
  BY <1>1
<1>6. Safe(Ledger(s, s - 1, s - 1, 0, f, f), ev, sb)
  <2> DEFINE before == s - 1
  <2>1. /\ before \in 0..MaxHeight /\ before <= before /\ s <= before + 1
        /\ s..before = {}
    BY <1>1, <1>5
  <2> HIDE DEF before
  <2>2. Safe(Ledger(s, before, before, 0, f, f), ev, sb)
    BY <1>3, <1>4, <2>1, LedgerIsSafe
  <2> QED
    BY <2>2 DEF before
<1> QED
  BY <1>2, <1>3, <1>6, LedgerFields

(* BRCFScanLedgerSerialize and Parse keep every hole.                      *)
LEMMA SerializedIsSafe ==
  ASSUME NEW l, NEW ev, NEW sb, Safe(l, ev, sb)
  PROVE  LET m == Serialized(l) IN Safe(m, ev, sb) /\ Follows(l, m)
<1> DEFINE f == [h \in DOMAIN l.outstanding |->
                   [peer |-> NoPeer, attempts |-> 0, cycles |-> l.outstanding[h].cycles,
                    live |-> TRUE, due |-> TRUE]]
<1>1. f \in [DOMAIN l.outstanding -> Hole]
  BY LedgerConstants DEF Safe, IsLedger, HolesIn, Hole
<1>2. Serialized(l) = [l EXCEPT !.outstanding = f]
  BY DEF Serialized
<1> HIDE DEF f
<1> QED
  BY <1>1, <1>2, AskingIsSafe

(* BRCFScanLedgerRewindTo: the heights whose verdicts are void are no      *)
(* longer requested, so they will be again.                                *)
LEMMA RewindToIsSafe ==
  ASSUME NEW l, NEW ev, NEW sb, Safe(l, ev, sb), NEW next \in Heights
  PROVE  LET m == RewindTo(l, next)
         IN /\ Safe(m, {h \in ev : h < next}, sb)
            /\ m.start = Smaller(l.start, next)
            /\ m.scannedThrough >= Smaller(l.scannedThrough, next - 1)
            /\ m.requestedThrough = Smaller(l.requestedThrough, next - 1)
            /\ m.abandonedBelow = l.abandonedBelow
            /\ HolesOf(m) = {h \in HolesOf(l) : h < next}
<1> DEFINE f == Restrict(l.outstanding, {h \in DOMAIN l.outstanding : h < next})
           g == Restrict(l.gaveUp, {h \in DOMAIN l.gaveUp : h < next})
           st == Smaller(l.start, next)
           sc == Smaller(l.scannedThrough, next - 1)
           rq == Smaller(l.requestedThrough, next - 1)
<1>0. /\ next \in Nat /\ next >= 1 /\ next <= MaxHeight /\ MaxHeight \in Nat
      /\ IsLedger(l) /\ l.start \in 0..(MaxHeight + 1) /\ l.scannedThrough \in 0..MaxHeight
      /\ l.requestedThrough \in 0..MaxHeight /\ l.abandonedBelow \in 0..(MaxHeight + 1)
      /\ ev \subseteq Heights /\ sb \in 0..(MaxHeight + 1)
      /\ HolesOf(l) \in SUBSET Nat
  BY LedgerConstants DEF Safe, IsLedger, Heights, HolesOf, HolesIn
<1>1. RewindTo(l, next) = Advance(Ledger(st, sc, rq, l.abandonedBelow, f, g))
  BY <1>0 DEF RewindTo, Ledger
<1>2. /\ HolesIn(f, Hole) /\ DOMAIN f = {h \in DOMAIN l.outstanding : h < next}
      /\ HolesIn(g, ParkedHole) /\ DOMAIN g = {h \in DOMAIN l.gaveUp : h < next}
  BY <1>0, RestrictHoles DEF IsLedger
<1>4. /\ st \in 0..(MaxHeight + 1) /\ sc \in 0..MaxHeight /\ rq \in 0..MaxHeight
      /\ sc <= rq /\ st <= rq + 1 /\ l.abandonedBelow <= sb
  BY <1>0 DEF Smaller, Safe
<1>5. DOMAIN f \cup DOMAIN g = {h \in HolesOf(l) : h < next}
  BY <1>2 DEF HolesOf
<1>6. \A h \in DOMAIN f \cup DOMAIN g : h <= rq
  <2>1. \A h \in HolesOf(l) : h \in Nat /\ h <= l.requestedThrough
    BY <1>0 DEF Safe
  <2>2. \A h \in Nat : h < next /\ h <= l.requestedThrough => h <= rq
    BY <1>0 DEF Smaller
  <2> HIDE DEF f, g, rq
  <2> QED
    BY <1>5, <2>1, <2>2
<1>7. \A h \in st..rq : h < next /\ h \in l.start..l.requestedThrough
  BY <1>0 DEF Smaller
<1>8. \A h \in st..sc : h < next /\ h \in l.start..l.scannedThrough
  BY <1>0 DEF Smaller
<1>9. \A h \in st..rq : h \in {k \in ev : k < next} \/ h < sb \/ h \in DOMAIN f \cup DOMAIN g
  BY <1>5, <1>7 DEF Safe
<1>10. \A h \in st..sc : h \in {k \in ev : k < next} \/ h < sb
  BY <1>8 DEF Safe
<1> HIDE DEF f, g, st, sc, rq
<1> DEFINE m == Ledger(st, sc, rq, l.abandonedBelow, f, g)
<1>16. Safe(m, {k \in ev : k < next}, sb)
  BY <1>0, <1>2, <1>4, <1>6, <1>9, <1>10, LedgerIsSafe
<1>11. /\ Safe(m, {k \in ev : k < next}, sb)
       /\ m.start = st /\ m.scannedThrough = sc /\ m.requestedThrough = rq
       /\ m.abandonedBelow = l.abandonedBelow /\ HolesOf(m) = {h \in HolesOf(l) : h < next}
  BY <1>5, <1>16, LedgerFields
<1> HIDE DEF m
<1>12. Safe(Advance(m), {k \in ev : k < next}, sb)
  BY <1>11, AdvanceIsSafe
<1>13. /\ Advance(m).start = st /\ Advance(m).requestedThrough = rq
       /\ Advance(m).abandonedBelow = l.abandonedBelow
       /\ HolesOf(Advance(m)) = {h \in HolesOf(l) : h < next}
       /\ sc <= Advance(m).scannedThrough /\ Advance(m).scannedThrough \in Nat
  BY <1>11, <1>12, AdvanceIsLedger, LedgerConstants DEF Safe, IsLedger
<1> QED
  BY <1>1, <1>4, <1>12, <1>13 DEF m, st, sc, rq

(* BRCFScanLedgerAbandonGaveUpBelow reports every hole it drops.           *)
LEMMA AbandonGaveUpIsSafe ==
  ASSUME NEW l, NEW ev, NEW sb, Safe(l, ev, sb), NEW clamp \in Nat
  PROVE  LET m == AbandonGaveUpBelow(l, clamp)
         IN Safe(m, ev, Larger(sb, m.abandonedBelow)) /\ Follows(l, m)
<1> DEFINE target == IF DOMAIN l.outstanding = {} THEN clamp
                     ELSE Smaller(clamp, Min(DOMAIN l.outstanding))
           dropped == {h \in DOMAIN l.gaveUp : h < target}
           g == Restrict(l.gaveUp, DOMAIN l.gaveUp \ dropped)
           ab == Larger(l.abandonedBelow, Max(dropped) + 1)
           m == AbandonGaveUpBelow(l, clamp)
           sb2 == Larger(sb, ab)
<1>0. /\ IsLedger(l) /\ l.start \in 0..(MaxHeight + 1) /\ l.scannedThrough \in 0..MaxHeight
      /\ l.requestedThrough \in 0..MaxHeight /\ l.abandonedBelow \in 0..(MaxHeight + 1)
      /\ HolesIn(l.outstanding, Hole) /\ HolesIn(l.gaveUp, ParkedHole)
      /\ ev \subseteq Heights /\ sb \in 0..(MaxHeight + 1) /\ MaxHeight \in Nat
      /\ l.abandonedBelow <= sb /\ DOMAIN l.gaveUp \subseteq Heights
  BY LedgerConstants DEF Safe, IsLedger, HolesIn
<1>1. CASE dropped = {}
  <2>1. m = l
    BY <1>1 DEF AbandonGaveUpBelow
  <2>2. Larger(sb, l.abandonedBelow) = sb
    BY <1>0 DEF Larger
  <2> QED
    BY <1>0, <2>1, <2>2, FollowsOnwards
<1>2. CASE dropped # {}
  <2>1. m = [l EXCEPT !.gaveUp = g, !.abandonedBelow = ab]
    BY <1>2 DEF AbandonGaveUpBelow
  <2>2. HolesIn(g, ParkedHole) /\ DOMAIN g = DOMAIN l.gaveUp \ dropped
    BY <1>0, RestrictHoles
  <2>3. dropped \in SUBSET Heights
    BY <1>0
  <2>4. Max(dropped) \in Heights /\ \A h \in dropped : h <= Max(dropped)
    BY <1>2, <2>3, MaxIsGreatest
  <2> HIDE DEF dropped, g
  <2>5. /\ ab \in 0..(MaxHeight + 1) /\ sb2 \in 0..(MaxHeight + 1) /\ ab <= sb2 /\ sb <= sb2
        /\ Max(dropped) < sb2
    BY <1>0, <2>4 DEF Larger, Heights
  <2>6. \A h \in dropped : h < sb2
    BY <1>0, <2>3, <2>4, <2>5 DEF Heights
  <2> HIDE DEF ab, sb2, m
  <2>7. [l EXCEPT !.gaveUp = g] = Ledger(l.start, l.scannedThrough, l.requestedThrough,
                                         l.abandonedBelow, l.outstanding, g)
    BY <1>0, LedgerOf, LedgerWithGaveUp
  <2>8. m = [Ledger(l.start, l.scannedThrough, l.requestedThrough,
                    l.abandonedBelow, l.outstanding, g) EXCEPT !.abandonedBelow = ab]
    BY <2>1, <2>7
  <2>9. m = Ledger(l.start, l.scannedThrough, l.requestedThrough, ab, l.outstanding, g)
    BY <2>8, LedgerWithAbandoned
  <2>10. /\ DOMAIN l.outstanding \cup DOMAIN g \subseteq HolesOf(l)
         /\ HolesOf(l) \subseteq DOMAIN l.outstanding \cup DOMAIN g \cup dropped
    BY <2>2 DEF HolesOf
  <2>11. \A h \in l.start..l.requestedThrough :
            h \in ev \/ h < sb2 \/ h \in DOMAIN l.outstanding \cup DOMAIN g
    <3> SUFFICES ASSUME NEW h \in l.start..l.requestedThrough
                 PROVE  h \in ev \/ h < sb2 \/ h \in DOMAIN l.outstanding \cup DOMAIN g
      OBVIOUS
    <3>1. h \in ev \/ h < sb \/ h \in HolesOf(l)
      BY DEF Safe
    <3>2. h < sb => h < sb2
      BY <1>0, <2>5
    <3> QED
      BY <3>1, <3>2, <2>6, <2>10
  <2>12. \A h \in l.start..l.scannedThrough : h \in ev \/ h < sb2
    <3> SUFFICES ASSUME NEW h \in l.start..l.scannedThrough
                 PROVE  h \in ev \/ h < sb2
      OBVIOUS
    <3>1. h \in ev \/ h < sb
      BY DEF Safe
    <3> QED
      BY <3>1, <1>0, <2>5
  <2>13. /\ \A h \in DOMAIN l.outstanding \cup DOMAIN g : h <= l.requestedThrough
         /\ l.scannedThrough <= l.requestedThrough /\ l.start <= l.requestedThrough + 1
    BY <2>10 DEF Safe
  <2>14. Safe(Ledger(l.start, l.scannedThrough, l.requestedThrough, ab, l.outstanding, g), ev, sb2)
    BY <1>0, <2>2, <2>5, <2>11, <2>12, <2>13, LedgerIsSafe
  <2>15. m.abandonedBelow = ab
    BY <2>9, LedgerFields
  <2>16. Safe(m, ev, Larger(sb, m.abandonedBelow))
    BY <2>9, <2>14, <2>15 DEF sb2
  <2>17. Follows(l, m)
    BY <1>0, <2>9, <2>10, LedgerFields DEF Follows, Onwards
  <2> QED
    BY <2>16, <2>17 DEF m
<1> QED
  BY <1>1, <1>2

(* BRCFScanLedgerAbandonUnscannableBelow reports every hole it drops.      *)
LEMMA AbandonUnscannableIsSafe ==
  ASSUME NEW l, NEW ev, NEW sb, Safe(l, ev, sb), NEW lo, NEW floor \in 1..(MaxHeight + 1)
  PROVE  LET m == AbandonUnscannableBelow(l, lo, floor)
         IN /\ Safe(m, ev, Larger(sb, m.abandonedBelow)) /\ Follows(l, m)
            /\ m.abandonedBelow = IF lo = 0 \/ floor = 0 \/ UnscannableFrom(l, lo) >= floor
                                 THEN l.abandonedBelow ELSE Larger(l.abandonedBelow, floor)
<1> DEFINE f == Restrict(l.outstanding, {h \in DOMAIN l.outstanding : h >= floor})
           g == Restrict(l.gaveUp, {h \in DOMAIN l.gaveUp : h >= floor})
           ab == Larger(l.abandonedBelow, floor)
           acts == ~ (lo = 0 \/ floor = 0 \/ UnscannableFrom(l, lo) >= floor)
           kept == Ledger(l.start, l.scannedThrough, l.requestedThrough, ab, f, g)
           m == AbandonUnscannableBelow(l, lo, floor)
           sb2 == Larger(sb, ab)
<1>0. /\ IsLedger(l) /\ l.start \in 0..(MaxHeight + 1) /\ l.scannedThrough \in 0..MaxHeight
      /\ l.requestedThrough \in 0..MaxHeight /\ l.abandonedBelow \in 0..(MaxHeight + 1)
      /\ HolesIn(l.outstanding, Hole) /\ HolesIn(l.gaveUp, ParkedHole)
      /\ ev \subseteq Heights /\ sb \in 0..(MaxHeight + 1) /\ MaxHeight \in Nat
      /\ l.abandonedBelow <= sb /\ HolesOf(l) \subseteq Nat /\ floor \in Nat
  BY LedgerConstants DEF Safe, IsLedger, HolesIn, HolesOf, Heights
<1>1. CASE ~ acts
  <2>1. m = l
    BY <1>1 DEF AbandonUnscannableBelow
  <2>2. Larger(sb, l.abandonedBelow) = sb
    BY <1>0 DEF Larger
  <2> QED
    BY <1>0, <1>1, <2>1, <2>2, FollowsOnwards
<1>2. CASE acts
  <2>1. m = Advance([l EXCEPT !.outstanding = f, !.gaveUp = g, !.abandonedBelow = ab])
    BY <1>2 DEF AbandonUnscannableBelow
  <2>2. /\ HolesIn(f, Hole) /\ DOMAIN f = {h \in DOMAIN l.outstanding : h >= floor}
        /\ HolesIn(g, ParkedHole) /\ DOMAIN g = {h \in DOMAIN l.gaveUp : h >= floor}
    BY <1>0, RestrictHoles
  <2> HIDE DEF f, g, acts
  <2>5. /\ ab \in 0..(MaxHeight + 1) /\ sb2 \in 0..(MaxHeight + 1) /\ ab <= sb2 /\ sb <= sb2
        /\ floor <= sb2
    BY <1>0 DEF Larger
  <2> HIDE DEF ab, sb2, m
  <2>6. [l EXCEPT !.outstanding = f] = Ledger(l.start, l.scannedThrough, l.requestedThrough,
                                              l.abandonedBelow, f, l.gaveUp)
    BY <1>0, LedgerOf, LedgerWithOutstanding
  <2>7. [l EXCEPT !.outstanding = f, !.gaveUp = g] =
           Ledger(l.start, l.scannedThrough, l.requestedThrough, l.abandonedBelow, f, g)
    <3>1. [l EXCEPT !.outstanding = f, !.gaveUp = g] = Holding(l, f, g)
      BY DEF Holding
    <3>2. Holding(l, f, g) =
           [Ledger(l.start, l.scannedThrough, l.requestedThrough, l.abandonedBelow, f, l.gaveUp)
              EXCEPT !.gaveUp = g]
      BY <2>6 DEF Holding
    <3> QED
      BY <3>1, <3>2, LedgerWithGaveUp
  <2>8. [l EXCEPT !.outstanding = f, !.gaveUp = g, !.abandonedBelow = ab] =
           [Ledger(l.start, l.scannedThrough, l.requestedThrough, l.abandonedBelow, f, g)
              EXCEPT !.abandonedBelow = ab]
    BY <2>7
  <2>9. [l EXCEPT !.outstanding = f, !.gaveUp = g, !.abandonedBelow = ab] = kept
    BY <2>8, LedgerWithAbandoned
  <2>10. DOMAIN f \cup DOMAIN g = {h \in HolesOf(l) : h >= floor}
    BY <2>2 DEF HolesOf
  <2>11. \A h \in l.start..l.requestedThrough :
            h \in ev \/ h < sb2 \/ h \in DOMAIN f \cup DOMAIN g
    <3> SUFFICES ASSUME NEW h \in l.start..l.requestedThrough
                 PROVE  h \in ev \/ h < sb2 \/ h \in DOMAIN f \cup DOMAIN g
      OBVIOUS
    <3>1. h \in ev \/ h < sb \/ h \in HolesOf(l)
      BY DEF Safe
    <3>2. (h < sb => h < sb2) /\ (h >= floor \/ h < sb2)
      BY <1>0, <2>5
    <3> QED
      BY <3>1, <3>2, <2>10
  <2>12. \A h \in l.start..l.scannedThrough : h \in ev \/ h < sb2
    <3> SUFFICES ASSUME NEW h \in l.start..l.scannedThrough
                 PROVE  h \in ev \/ h < sb2
      OBVIOUS
    <3>1. h \in ev \/ h < sb
      BY DEF Safe
    <3> QED
      BY <3>1, <1>0, <2>5
  <2>13. /\ \A h \in DOMAIN f \cup DOMAIN g : h <= l.requestedThrough
         /\ l.scannedThrough <= l.requestedThrough /\ l.start <= l.requestedThrough + 1
    BY <2>10 DEF Safe
  <2>14. Safe(kept, ev, sb2)
    BY <1>0, <2>2, <2>5, <2>11, <2>12, <2>13, LedgerIsSafe
  <2>15. m = Advance(kept)
    BY <2>1, <2>9
  <2>16. m.abandonedBelow = ab
    <3>1. IsLedger(kept) /\ kept.abandonedBelow = ab
      BY <2>14, LedgerFields DEF Safe
    <3> HIDE DEF kept
    <3> QED
      BY <2>15, <3>1, AdvanceIsLedger
  <2>17. Follows(l, kept) /\ IsLedger(kept)
    BY <1>0, <2>10, <2>14, LedgerFields DEF Follows, Onwards, Safe
  <2> HIDE DEF kept
  <2>18. Safe(m, ev, Larger(sb, m.abandonedBelow)) /\ Follows(kept, m)
    BY <2>14, <2>15, <2>16, AdvanceIsSafe DEF sb2
  <2>19. IsLedger(m)
    BY <2>18 DEF Safe
  <2>20. Follows(l, m)
    BY <1>0, <2>17, <2>18, <2>19, FollowsOnwards
  <2> QED
    BY <1>2, <2>16, <2>18, <2>20 DEF m, ab, acts
<1> QED
  BY <1>1, <1>2

(* Asking for heights makes them holes.                                    *)
LEMMA AskForIsHoles ==
  ASSUME NEW f, HolesIn(f, Hole), NEW S, S \subseteq Heights, NEW p \in Peers \cup {NoPeer}
  PROVE  HolesIn(AskFor(f, S, p), Hole) /\ DOMAIN AskFor(f, S, p) = DOMAIN f \cup S
<1>1. FreshHole(p) \in Hole
  BY LedgerConstants DEF FreshHole, Hole
<1>2. \A h \in DOMAIN f : [f[h] EXCEPT !.peer = p, !.due = FALSE] \in Hole
  BY DEF HolesIn, Hole
<1>3. \A h \in DOMAIN f : f[h] \in Hole
  BY DEF HolesIn
<1> QED
  BY <1>1, <1>2, <1>3 DEF AskFor, HolesIn

(* The ledger l with the outstanding holes f, asked for through `stop`.    *)
AskedThrough(l, f, stop) ==
    [l EXCEPT !.outstanding = f, !.requestedThrough = Larger(@, stop)]

(* What both ways of asking have in common: the heights of S become holes, *)
(* and requestedThrough moves up over heights that are holes or settled.   *)
LEMMA AskedIsSafe ==
  ASSUME NEW l, NEW ev, NEW sb, Safe(l, ev, sb),
         NEW f, HolesIn(f, Hole), NEW stop \in Heights,
         DOMAIN l.outstanding \subseteq DOMAIN f,
         \A h \in DOMAIN f : h \in DOMAIN l.outstanding \/ h <= stop,
         \A h \in Nat : l.requestedThrough < h /\ h <= stop => h \in DOMAIN f \/ h \in ev \/ h < sb
  PROVE  LET m == AskedThrough(l, f, stop)
         IN /\ Safe(m, ev, sb) /\ Onwards(l, m)
            /\ m.requestedThrough = Larger(l.requestedThrough, stop)
            /\ m.abandonedBelow = l.abandonedBelow
<1> DEFINE rq == Larger(l.requestedThrough, stop)
<1>0. /\ IsLedger(l) /\ l.start \in 0..(MaxHeight + 1) /\ l.scannedThrough \in 0..MaxHeight
      /\ l.requestedThrough \in 0..MaxHeight /\ l.abandonedBelow \in 0..(MaxHeight + 1)
      /\ HolesIn(l.gaveUp, ParkedHole) /\ DOMAIN f \subseteq Nat
      /\ ev \subseteq Heights /\ sb \in 0..(MaxHeight + 1) /\ MaxHeight \in Nat
      /\ l.abandonedBelow <= sb /\ HolesOf(l) \subseteq Nat /\ stop \in 0..MaxHeight
  BY LedgerConstants DEF Safe, IsLedger, HolesIn, HolesOf, Heights
<1>1. /\ rq \in 0..MaxHeight /\ l.requestedThrough <= rq /\ stop <= rq
      /\ rq = l.requestedThrough \/ rq = stop
  BY <1>0 DEF Larger
<1>2. [l EXCEPT !.outstanding = f] = Ledger(l.start, l.scannedThrough, l.requestedThrough,
                                            l.abandonedBelow, f, l.gaveUp)
  BY <1>0, LedgerOf, LedgerWithOutstanding
<1> HIDE DEF rq
<1>3. [l EXCEPT !.outstanding = f, !.requestedThrough = rq]
        = [Ledger(l.start, l.scannedThrough, l.requestedThrough, l.abandonedBelow, f, l.gaveUp)
             EXCEPT !.requestedThrough = rq]
  BY <1>2
<1>4. [l EXCEPT !.outstanding = f, !.requestedThrough = rq]
        = Ledger(l.start, l.scannedThrough, rq, l.abandonedBelow, f, l.gaveUp)
  BY <1>3, LedgerWithRequested
<1>5. l.scannedThrough <= rq /\ l.start <= rq + 1
  BY <1>0, <1>1 DEF Safe
<1>6. HolesOf(l) \subseteq DOMAIN f \cup DOMAIN l.gaveUp
  BY DEF HolesOf
<1>7. \A h \in DOMAIN f \cup DOMAIN l.gaveUp : h <= rq
  <2> SUFFICES ASSUME NEW h \in DOMAIN f \cup DOMAIN l.gaveUp
               PROVE  h <= rq
    OBVIOUS
  <2>1. h \in Nat
    BY <1>0 DEF HolesOf
  <2>2. h \in HolesOf(l) \/ h <= stop
    BY DEF HolesOf
  <2>3. h \in HolesOf(l) => h <= l.requestedThrough
    BY DEF Safe
  <2> QED
    BY <1>0, <1>1, <2>1, <2>2, <2>3
<1>8. \A h \in l.start..rq : h \in ev \/ h < sb \/ h \in DOMAIN f \cup DOMAIN l.gaveUp
  <2> SUFFICES ASSUME NEW h \in l.start..rq
               PROVE  h \in ev \/ h < sb \/ h \in DOMAIN f \cup DOMAIN l.gaveUp
    OBVIOUS
  <2>1. CASE h <= l.requestedThrough
    <3>1. h \in l.start..l.requestedThrough
      BY <1>0, <2>1
    <3> QED
      BY <3>1, <1>6 DEF Safe
  <2>2. CASE ~ (h <= l.requestedThrough)
    <3>1. h \in Nat /\ l.requestedThrough < h /\ h <= stop
      BY <1>0, <1>1, <2>2
    <3> QED
      BY <3>1
  <2> QED
    BY <2>1, <2>2
<1>9. \A h \in l.start..l.scannedThrough : h \in ev \/ h < sb
  BY DEF Safe
<1>10. Safe(Ledger(l.start, l.scannedThrough, rq, l.abandonedBelow, f, l.gaveUp), ev, sb)
  BY <1>0, <1>1, <1>5, <1>7, <1>8, <1>9, LedgerIsSafe
<1>11. Onwards(l, Ledger(l.start, l.scannedThrough, rq, l.abandonedBelow, f, l.gaveUp))
  BY <1>0, LedgerFields DEF Onwards
<1> QED
  BY <1>4, <1>10, <1>11, LedgerFields DEF rq, AskedThrough

(* The low-water gate (CF_OUTSTANDING_LOWWATER): a range that is asked for *)
(* while few holes are out fits, so that none is evicted for it.           *)
LEMMA GatedRangeFits ==
  ASSUME NEW LowWater \in Nat, LowWater + MaxRange <= OutstandingMax + 1,
         NEW f, HolesIn(f, Hole), Cardinality(DOMAIN f) < LowWater,
         NEW s \in Heights, NEW lo \in Nat, lo >= s, NEW e \in Heights, e \in s..(s + MaxRange - 1)
  PROVE  Cardinality(DOMAIN f \cup lo..e) <= OutstandingMax
<1>0. /\ LowWater \in Nat /\ MaxRange \in Nat /\ OutstandingMax \in Nat /\ MaxHeight \in Nat
      /\ LowWater + MaxRange <= OutstandingMax + 1 /\ s \in Nat /\ e \in Nat
  BY LedgerConstants DEF Heights
<1>1. IsFiniteSet(1..MaxHeight)
  BY <1>0, FS_Interval
<1>2. IsFiniteSet(DOMAIN f)
  BY <1>1, FS_Subset DEF HolesIn, Heights
<1>3. Cardinality(DOMAIN f) \in Nat
  BY <1>2, FS_CardinalityType
<1>4. IsFiniteSet(lo..e) /\ Cardinality(lo..e) = IF lo > e THEN 0 ELSE e - lo + 1
  BY <1>0, FS_Interval
<1>5. Cardinality(lo..e) <= MaxRange
  BY <1>0, <1>4
<1>6. IsFiniteSet(DOMAIN f \cap lo..e)
  BY <1>2, FS_Intersection
<1>7. Cardinality(DOMAIN f \cap lo..e) \in Nat
  BY <1>6, FS_CardinalityType
<1>8. Cardinality(DOMAIN f \cup lo..e)
        = Cardinality(DOMAIN f) + Cardinality(lo..e) - Cardinality(DOMAIN f \cap lo..e)
  BY <1>2, <1>4, FS_Union
<1>9. Cardinality(lo..e) \in Nat
  BY <1>4, FS_CardinalityType
<1> QED
  BY <1>0, <1>3, <1>5, <1>7, <1>8, <1>9

(* BRCFScanLedgerRecordRequested under that gate, from no higher than the  *)
(* first height that is not settled and was not asked for.                 *)
LEMMA RecordRequestedIsSafe ==
  ASSUME NEW LowWater \in Nat, LowWater + MaxRange <= OutstandingMax + 1,
         NEW l, NEW ev, NEW sb, Safe(l, ev, sb), NEW p \in Peers,
         Cardinality(DOMAIN l.outstanding) < LowWater,
         NEW s \in Heights, NEW e \in Heights, e \in s..(s + MaxRange - 1),
         \A h \in Nat : l.requestedThrough < h /\ h < s => h \in ev \/ h < sb
  PROVE  LET m == RecordRequested(l, s, e, p)
         IN /\ Safe(m, ev, sb) /\ Onwards(l, m)
            /\ m.requestedThrough = IF e < l.abandonedBelow THEN l.requestedThrough
                                    ELSE Larger(l.requestedThrough, e)
            /\ m.abandonedBelow = l.abandonedBelow
<1> DEFINE lo == Larger(s, l.abandonedBelow)
           f == AskFor(l.outstanding, lo..e, p)
<1>0. /\ IsLedger(l) /\ l.scannedThrough \in Nat /\ l.requestedThrough \in Nat
      /\ l.abandonedBelow \in Nat /\ l.scannedThrough <= l.requestedThrough
      /\ HolesIn(l.outstanding, Hole) /\ s \in Nat /\ s >= 1 /\ e \in Nat /\ e <= MaxHeight
      /\ MaxHeight \in Nat /\ sb \in Nat /\ l.abandonedBelow <= sb
  BY LedgerConstants DEF Safe, IsLedger, Heights
<1>1. lo \in Nat /\ lo >= s /\ (lo = s \/ lo = l.abandonedBelow)
  BY <1>0 DEF Larger
<1>2. CASE e < lo
  <2>1. e < l.abandonedBelow
    BY <1>0, <1>1, <1>2
  <2>2. Onwards(l, l)
    BY <1>0 DEF Onwards
  <2> QED
    BY <1>2, <2>1, <2>2 DEF RecordRequested
<1>3. CASE ~ (e < lo)
  <2>1. Cardinality(DOMAIN l.outstanding \cup lo..e) <= OutstandingMax
    BY <1>0, <1>1, GatedRangeFits
  <2>2. RecordRequested(l, s, e, p) = AskedThrough(l, f, e)
    BY <1>3, <2>1 DEF RecordRequested, InsertRange, AskedThrough
  <2>3. lo..e \subseteq Heights
    BY <1>0, <1>1 DEF Heights
  <2>4. HolesIn(f, Hole) /\ DOMAIN f = DOMAIN l.outstanding \cup lo..e
    BY <1>0, <2>3, AskForIsHoles
  <2>5. \A h \in Nat : l.requestedThrough < h /\ h <= e => h \in lo..e \/ h \in ev \/ h < sb
    BY <1>0, <1>1
  <2>6. (\A h \in lo..e : h <= e) /\ ~ (e < l.abandonedBelow)
    BY <1>0, <1>1, <1>3 DEF Larger
  <2> HIDE DEF f, lo
  <2> DEFINE m == AskedThrough(l, f, e)
  <2>7. /\ Safe(m, ev, sb) /\ Onwards(l, m)
        /\ m.requestedThrough = Larger(l.requestedThrough, e)
        /\ m.abandonedBelow = l.abandonedBelow
    <3>1. \A h \in DOMAIN f : h \in DOMAIN l.outstanding \/ h <= e
      BY <2>4, <2>6
    <3>2. DOMAIN l.outstanding \subseteq DOMAIN f
      BY <2>4
    <3>3. \A h \in Nat : l.requestedThrough < h /\ h <= e => h \in DOMAIN f \/ h \in ev \/ h < sb
      BY <2>4, <2>5
    <3>4. HolesIn(f, Hole)
      BY <2>4
    <3> QED
      BY <3>1, <3>2, <3>3, <3>4, AskedIsSafe
  <2> QED
    BY <2>2, <2>6, <2>7
<1> QED
  BY <1>2, <1>3

(* BRCFScanLedgerMarkHeaderRace while there is room.                       *)
LEMMA MarkHeaderRaceIsSafe ==
  ASSUME NEW l, NEW ev, NEW sb, Safe(l, ev, sb),
         Cardinality(DOMAIN l.outstanding) < OutstandingMax,
         NEW h \in Heights, h <= l.requestedThrough + 1
  PROVE  LET m == MarkHeaderRace(l, h) IN Safe(m, ev, sb) /\ Onwards(l, m)
<1>1. CASE h < l.abandonedBelow \/ h \in DOMAIN l.outstanding
  <2>1. Onwards(l, l)
    BY LedgerConstants DEF Safe, IsLedger, Onwards
  <2> QED
    BY <1>1, <2>1 DEF MarkHeaderRace
<1>2. CASE ~ (h < l.abandonedBelow \/ h \in DOMAIN l.outstanding)
  <2> DEFINE a == AskFor(l.outstanding, {h}, NoPeer)
             f == [a EXCEPT ![h].due = TRUE]
  <2>0. /\ l.requestedThrough \in Nat /\ h \in Nat /\ HolesIn(l.outstanding, Hole)
        /\ OutstandingMax \in Nat
    BY LedgerConstants DEF Safe, IsLedger, Heights
  <2>1. HolesIn(a, Hole) /\ DOMAIN a = DOMAIN l.outstanding \cup {h}
    BY <2>0, AskForIsHoles
  <2>2. ~ (Cardinality(DOMAIN l.outstanding) >= OutstandingMax)
    <3>1. IsFiniteSet(1..MaxHeight)
      BY LedgerConstants, FS_Interval
    <3>2. IsFiniteSet(DOMAIN l.outstanding)
      BY <2>0, <3>1, FS_Subset DEF HolesIn, Heights
    <3>3. Cardinality(DOMAIN l.outstanding) \in Nat
      BY <3>2, FS_CardinalityType
    <3> QED
      BY <3>3, <2>0
  <2>3. InsertOutstanding(l.outstanding, h, NoPeer) = a
    BY <2>2 DEF InsertOutstanding
  <2>4. MarkHeaderRace(l, h) = AskedThrough(l, f, h)
    BY <1>2, <2>3 DEF MarkHeaderRace, AskedThrough
  <2> HIDE DEF a
  <2>5. HolesIn(f, Hole) /\ DOMAIN f = DOMAIN l.outstanding \cup {h}
    BY <2>1, ZenonT(60) DEF HolesIn, Hole
  <2>6. \A k \in Nat : l.requestedThrough < k /\ k <= h => k \in {h}
    BY <2>0
  <2>7. \A k \in {h} : k <= h
    BY <2>0
  <2> HIDE DEF f
  <2> DEFINE m == AskedThrough(l, f, h)
  <2>8. Safe(m, ev, sb) /\ Onwards(l, m)
    BY <2>5, <2>6, <2>7, AskedIsSafe
  <2> QED
    BY <2>4, <2>8
<1> QED
  BY <1>1, <1>2
=============================================================================
