---------------------------- MODULE CFScan_lemmas ----------------------------
(***************************************************************************)
(* What each step on the manager's scan state (BRPeerManager.c) preserves, *)
(* for every value of the constants.  Handlers are compositions of these   *)
(* steps, so each step is shown to keep Holds, and to be Later: the facts  *)
(* that compose.  CFScan_proofs has the invariant and the theorems.        *)
(***************************************************************************)
EXTENDS CFScan, CFScanLedger_lemmas

Fields == {"ledger", "autoStart", "autoThrough", "chain", "solicited", "buffered", "judged",
           "surfacedBelow"}

IsRecord(c) == c = [f \in Fields |-> c[f]]

(* A record with the fields of a scan state is one, and conversely.        *)
LEMMA RecordOfFields ==
  \A c : IsRecord(c) <=>
     c = [ledger |-> c.ledger, autoStart |-> c.autoStart, autoThrough |-> c.autoThrough,
          chain |-> c.chain, solicited |-> c.solicited, buffered |-> c.buffered,
          judged |-> c.judged, surfacedBelow |-> c.surfacedBelow]
<1> TAKE c
<1> DEFINE r == [ledger |-> c.ledger, autoStart |-> c.autoStart, autoThrough |-> c.autoThrough,
                 chain |-> c.chain, solicited |-> c.solicited, buffered |-> c.buffered,
                 judged |-> c.judged, surfacedBelow |-> c.surfacedBelow]
<1>1. DOMAIN r = Fields /\ \A f \in Fields : r[f] = c[f]
  BY DEF Fields
<1>2. r = [f \in DOMAIN r |-> r[f]]
  OBVIOUS
<1> HIDE DEF r
<1>3. r = [f \in Fields |-> c[f]]
  BY <1>1, <1>2
<1> QED
  BY <1>3 DEF IsRecord, r

(* Every height of lo..hi is judged or reported.                           *)
Settles(ev, sb, lo, hi) == \A h \in lo..hi : h \in ev \/ h < sb

IsChain(ch) == ch \in Chain /\ (ch = NoChain \/ (1 <= ch.start /\ ch.start <= ch.next))

(* A scan state that counts no height it should not: the ledger is safe,   *)
(* what lies between the wallet's birth and the ledger's start is settled, *)
(* and so is what the forward cursor skipped.  Without a filter-header     *)
(* chain no block is being asked for.                                      *)
Holds(c, ev) ==
    /\ IsRecord(c)
    /\ c.autoStart \in 1..(MaxHeight + 1) /\ c.autoThrough \in 0..MaxHeight
    /\ IsChain(c.chain)
    /\ c.solicited \subseteq Heights /\ c.buffered \subseteq Heights /\ c.judged \subseteq Heights
    /\ Safe(c.ledger, ev, c.surfacedBelow) /\ c.ledger.start >= 1
    /\ Settles(ev, c.surfacedBelow, Birth, c.ledger.start - 1)
    /\ Settles(ev, c.surfacedBelow, c.ledger.requestedThrough + 1, NextForward(c) - 1)
    /\ c.chain = NoChain => c.solicited = {}

(* The forward cursor is not ahead of what the ledger counts or reported.  *)
Tight(c) ==
    /\ c.autoStart <= Larger(c.ledger.scannedThrough + 1, c.surfacedBelow)
    /\ c.autoThrough + 1 <= Larger(c.ledger.requestedThrough + 1, c.surfacedBelow)

(* Nothing is counted beyond where the filter-header chain ends, or where  *)
(* the next one will begin.                                                *)
Anchor(c) == IF c.chain = NoChain THEN c.autoStart ELSE c.chain.next
Anchored(c) ==
    /\ NextForward(c) <= Larger(Anchor(c), c.surfacedBelow)
    /\ c.ledger.requestedThrough + 1 <= Larger(Anchor(c), c.surfacedBelow)
    /\ c.chain = NoChain => HolesOf(c.ledger) = {}

(* What a step that judges nothing void may make of a scan state.          *)
Later(c, d) ==
    /\ c.surfacedBelow <= d.surfacedBelow
    /\ Tight(c) => Tight(d)
    /\ Anchored(c) => Anchored(d)
    /\ d.chain # NoChain =>
         d.chain = c.chain /\ c.ledger.requestedThrough <= d.ledger.requestedThrough

(* What a step makes of the scan: it goes on, or starts over with nothing  *)
(* scanned yet.                                                            *)
Fresh(c) == c.ledger.scannedThrough = c.ledger.start - 1
Moves(c, d) == Onwards(c.ledger, d.ledger) \/ Fresh(d)

(* And it asks for no new height that was not reported.                    *)
AsksNoMore(c, d) ==
    d.ledger.requestedThrough + 1 <= Larger(c.ledger.requestedThrough + 1, d.surfacedBelow)

(* What a step that voids the verdicts from f on makes of it: it goes back *)
(* no further than that, or starts over where no verdict is void.          *)
Rewinds(c, d, f) ==
    \/ /\ d.ledger.start \in {c.ledger.start, Smaller(c.ledger.start, f)}
       /\ d.ledger.scannedThrough >= Smaller(c.ledger.scannedThrough, f - 1)
    \/ Fresh(d) /\ d.ledger.start <= Larger(f, d.surfacedBelow)

(* The numbers of a scan state and how they compare.                       *)
LEMMA HoldsNumbers ==
  ASSUME NEW c, NEW ev, Holds(c, ev)
  PROVE  /\ MaxHeight \in Nat /\ Birth \in Nat /\ 1 <= Birth /\ Birth <= MaxHeight
         /\ IsLedger(c.ledger) /\ ev \subseteq Heights
         /\ c.ledger.start \in Nat /\ 1 <= c.ledger.start
         /\ c.ledger.start <= c.ledger.requestedThrough + 1
         /\ c.ledger.scannedThrough \in Nat /\ c.ledger.requestedThrough \in Nat
         /\ c.ledger.scannedThrough <= c.ledger.requestedThrough
         /\ c.ledger.requestedThrough <= MaxHeight
         /\ c.ledger.abandonedBelow \in Nat /\ c.surfacedBelow \in Nat
         /\ c.ledger.abandonedBelow <= c.surfacedBelow /\ c.surfacedBelow <= MaxHeight + 1
         /\ c.autoStart \in Nat /\ 1 <= c.autoStart /\ c.autoStart <= MaxHeight + 1
         /\ c.autoThrough \in Nat /\ c.autoThrough <= MaxHeight
         /\ c.chain.start \in Nat /\ c.chain.next \in Nat /\ c.chain.next <= MaxHeight + 1
         /\ c.chain.start <= c.chain.next
         /\ c.chain # NoChain => 1 <= c.chain.start
<1>1. /\ MaxHeight \in Nat /\ Birth \in 1..MaxHeight
  BY LedgerConstants, ScanConstants DEF Heights
<1>2. Safe(c.ledger, ev, c.surfacedBelow) /\ IsChain(c.chain)
  BY DEF Holds
<1>3. /\ c.chain.start \in 0..(MaxHeight + 1) /\ c.chain.next \in 0..(MaxHeight + 1)
      /\ c.chain.start <= c.chain.next
      /\ c.chain # NoChain => 1 <= c.chain.start
  BY <1>1, <1>2 DEF IsChain, Chain, NoChain
<1>4. /\ c.ledger.start \in 0..(MaxHeight + 1) /\ c.ledger.abandonedBelow \in 0..(MaxHeight + 1)
      /\ c.ledger.scannedThrough \in 0..MaxHeight /\ c.ledger.requestedThrough \in 0..MaxHeight
      /\ c.surfacedBelow \in 0..(MaxHeight + 1) /\ IsLedger(c.ledger) /\ ev \subseteq Heights
  BY <1>2 DEF Safe, IsLedger
<1>5. /\ c.ledger.start <= c.ledger.requestedThrough + 1
      /\ c.ledger.scannedThrough <= c.ledger.requestedThrough
      /\ c.ledger.abandonedBelow <= c.surfacedBelow
  BY <1>2 DEF Safe
<1>6. /\ c.autoStart \in 1..(MaxHeight + 1) /\ c.autoThrough \in 0..MaxHeight
      /\ 1 <= c.ledger.start
  BY <1>4 DEF Holds
<1> QED
  BY <1>1, <1>3, <1>4, <1>5, <1>6

(* Steps compose.                                                          *)
LEMMA LaterComposes ==
  ASSUME NEW a, NEW b, NEW c, NEW ea, NEW eb, NEW ec,
         Holds(a, ea), Holds(b, eb), Holds(c, ec), Later(a, b), Later(b, c)
  PROVE  Later(a, c)
<1>1. /\ a.surfacedBelow \in Nat /\ b.surfacedBelow \in Nat /\ c.surfacedBelow \in Nat
      /\ a.ledger.requestedThrough \in Nat /\ b.ledger.requestedThrough \in Nat
      /\ c.ledger.requestedThrough \in Nat
  BY HoldsNumbers
<1> QED
  BY <1>1 DEF Later

LEMMA LaterSelf ==
  ASSUME NEW c, NEW ev, Holds(c, ev)
  PROVE  Later(c, c) /\ Onwards(c.ledger, c.ledger) /\ AsksNoMore(c, c)
<1>1. /\ c.surfacedBelow \in Nat /\ c.ledger.requestedThrough \in Nat
      /\ c.ledger.scannedThrough \in Nat
  BY HoldsNumbers
<1> QED
  BY <1>1 DEF Later, Onwards, AsksNoMore, Larger

LEMMA OnwardsComposes ==
  ASSUME NEW a, NEW b, NEW c, NEW ea, NEW eb, NEW ec,
         Holds(a, ea), Holds(b, eb), Holds(c, ec), Onwards(a.ledger, b.ledger)
  PROVE  /\ Onwards(b.ledger, c.ledger) => Onwards(a.ledger, c.ledger)
         /\ Moves(b, c) => Moves(a, c)
<1>1. /\ a.ledger.scannedThrough \in Nat /\ b.ledger.scannedThrough \in Nat
      /\ c.ledger.scannedThrough \in Nat
  BY HoldsNumbers
<1> QED
  BY <1>1 DEF Onwards, Moves

LEMMA AsksNoMoreComposes ==
  ASSUME NEW a, NEW b, NEW c, NEW ea, NEW eb, NEW ec,
         Holds(a, ea), Holds(b, eb), Holds(c, ec), AsksNoMore(a, b), AsksNoMore(b, c), Later(b, c)
  PROVE  AsksNoMore(a, c)
<1>1. /\ a.ledger.requestedThrough \in Nat /\ b.ledger.requestedThrough \in Nat
      /\ c.ledger.requestedThrough \in Nat
      /\ b.surfacedBelow \in Nat /\ c.surfacedBelow \in Nat
  BY HoldsNumbers
<1>2. b.surfacedBelow <= c.surfacedBelow
  BY DEF Later
<1> QED
  BY <1>1, <1>2 DEF AsksNoMore, Larger

(* Going back to f, and then on or over, is going back to f.               *)
LEMMA RewindsThenMoves ==
  ASSUME NEW c, NEW s, NEW d, NEW ec, NEW es, NEW ed, Holds(c, ec), Holds(s, es), Holds(d, ed),
         NEW f \in Nat, s.ledger.start = Smaller(c.ledger.start, f),
         s.ledger.scannedThrough >= Smaller(c.ledger.scannedThrough, f - 1),
         s.ledger.requestedThrough + 1 <= f,
         Moves(s, d), AsksNoMore(s, d)
  PROVE  Rewinds(c, d, f)
<1>1. /\ c.ledger.scannedThrough \in Nat /\ s.ledger.scannedThrough \in Nat
      /\ d.ledger.scannedThrough \in Nat
      /\ s.ledger.requestedThrough \in Nat /\ d.ledger.requestedThrough \in Nat
      /\ d.ledger.start \in Nat /\ d.ledger.start <= d.ledger.requestedThrough + 1
      /\ d.surfacedBelow \in Nat
  BY HoldsNumbers
<1>2. CASE Onwards(s.ledger, d.ledger)
  <2>1. Smaller(c.ledger.scannedThrough, f - 1) \in Int
    BY <1>1 DEF Smaller
  <2> QED
    BY <1>1, <1>2, <2>1 DEF Rewinds, Onwards
<1>3. CASE Fresh(d)
  <2>1. d.ledger.start <= Larger(f, d.surfacedBelow)
    BY <1>1 DEF AsksNoMore, Larger
  <2> QED
    BY <1>3, <2>1 DEF Rewinds
<1> QED
  BY <1>2, <1>3 DEF Moves

(* Verdicts and reports only help.                                         *)
LEMMA SettlesMore ==
  ASSUME NEW ev, NEW sb \in Nat, NEW ev2, NEW sb2 \in Nat, sb <= sb2,
         NEW lo \in Int, NEW hi \in Int, Settles(ev, sb, lo, hi),
         \A h \in lo..hi : h \in ev => h \in ev2 \/ h < sb2
  PROVE  Settles(ev2, sb2, lo, hi)
  BY DEF Settles

(* A step on the ledger that asks for nothing new, with its reports and    *)
(* verdicts noted, is later.                                               *)
LEMMA FollowingHolds ==
  ASSUME NEW c, NEW ev, Holds(c, ev), NEW d, IsRecord(d), NEW ev2, ev \subseteq ev2,
         d.autoStart = c.autoStart, d.autoThrough = c.autoThrough, d.chain = c.chain,
         d.solicited \subseteq Heights, d.buffered \subseteq Heights, d.judged \subseteq Heights,
         c.chain = NoChain => d.solicited = {},
         Follows(c.ledger, d.ledger), Safe(d.ledger, ev2, d.surfacedBelow),
         c.surfacedBelow <= d.surfacedBelow
  PROVE  Holds(d, ev2) /\ Later(c, d) /\ Onwards(c.ledger, d.ledger)
<1>1. /\ c.ledger.start \in Nat /\ c.ledger.scannedThrough \in Nat
      /\ c.ledger.requestedThrough \in Nat /\ c.surfacedBelow \in Nat
      /\ c.autoStart \in Nat /\ c.autoThrough \in Nat /\ c.chain.next \in Nat
      /\ Birth \in Nat
  BY HoldsNumbers
<1>2. /\ d.surfacedBelow \in Nat /\ d.ledger.scannedThrough \in Nat
  BY LedgerConstants DEF Safe, IsLedger
<1>3. /\ d.ledger.start = c.ledger.start /\ c.ledger.scannedThrough <= d.ledger.scannedThrough
      /\ d.ledger.requestedThrough = c.ledger.requestedThrough
      /\ HolesOf(d.ledger) \subseteq HolesOf(c.ledger)
  BY <1>1, <1>2 DEF Follows, Onwards
<1>4. NextForward(d) = NextForward(c) /\ NextForward(c) \in Nat /\ Anchor(d) = Anchor(c) /\ Anchor(c) \in Nat
  BY <1>1 DEF NextForward, Anchor, Larger
<1>5. /\ Settles(ev2, d.surfacedBelow, Birth, d.ledger.start - 1)
      /\ Settles(ev2, d.surfacedBelow, d.ledger.requestedThrough + 1, NextForward(d) - 1)
  BY <1>1, <1>2, <1>3, <1>4 DEF Holds, Settles
<1>6. Holds(d, ev2)
  BY <1>3, <1>5 DEF Holds
<1>7. Tight(c) => Tight(d)
  BY <1>1, <1>2, <1>3 DEF Tight, Larger
<1>8. Anchored(c) => Anchored(d)
  BY <1>1, <1>2, <1>3, <1>4 DEF Anchored, Larger
<1> QED
  BY <1>1, <1>3, <1>6, <1>7, <1>8 DEF Later, Follows

-----------------------------------------------------------------------------
(* Steps on the ledger that ask for nothing new.                           *)

(* Putting another ledger into a scan state.                               *)
LEMMA WithLedger ==
  ASSUME NEW c, IsRecord(c), NEW l
  PROVE  LET d == [c EXCEPT !.ledger = l]
         IN /\ IsRecord(d) /\ d.ledger = l
            /\ d.autoStart = c.autoStart /\ d.autoThrough = c.autoThrough /\ d.chain = c.chain
            /\ d.solicited = c.solicited /\ d.buffered = c.buffered
            /\ d.judged = c.judged /\ d.surfacedBelow = c.surfacedBelow
  BY DEF IsRecord, Fields

(* What is settled stays so, when a ledger that follows takes its place.   *)
LEMMA LedgerStepHolds ==
  ASSUME NEW c, NEW ev, Holds(c, ev), NEW l, Follows(c.ledger, l), Safe(l, ev, c.surfacedBelow)
  PROVE  LET d == [c EXCEPT !.ledger = l]
         IN Holds(d, ev) /\ Later(c, d) /\ Onwards(c.ledger, d.ledger)
<1> DEFINE d == [c EXCEPT !.ledger = l]
<1>1. /\ IsRecord(d) /\ d.ledger = l
      /\ d.autoStart = c.autoStart /\ d.autoThrough = c.autoThrough /\ d.chain = c.chain
      /\ d.solicited = c.solicited /\ d.buffered = c.buffered
      /\ d.judged = c.judged /\ d.surfacedBelow = c.surfacedBelow
  BY WithLedger DEF Holds
<1>2. c.surfacedBelow \in Nat
  BY HoldsNumbers
<1> HIDE DEF d
<1>3. /\ d.solicited \subseteq Heights /\ d.buffered \subseteq Heights /\ d.judged \subseteq Heights
      /\ c.chain = NoChain => d.solicited = {}
  BY <1>1 DEF Holds
<1>4. Holds(d, ev) /\ Later(c, d) /\ Onwards(c.ledger, d.ledger)
  BY <1>1, <1>2, <1>3, FollowingHolds
<1> QED
  BY <1>4 DEF d

(* The fields of a scan state whose floor has been noted.                  *)
LEMMA NotedFields ==
  ASSUME NEW c, IsRecord(c), NEW l
  PROVE  LET d == Noted([c EXCEPT !.ledger = l])
         IN /\ IsRecord(d) /\ d.ledger = l
            /\ d.surfacedBelow = Larger(c.surfacedBelow, l.abandonedBelow)
            /\ d.autoStart = c.autoStart /\ d.autoThrough = c.autoThrough /\ d.chain = c.chain
            /\ d.solicited = c.solicited /\ d.buffered = c.buffered /\ d.judged = c.judged
<1> DEFINE e == [c EXCEPT !.ledger = l]
<1>1. /\ IsRecord(e) /\ e.ledger = l
      /\ e.autoStart = c.autoStart /\ e.autoThrough = c.autoThrough /\ e.chain = c.chain
      /\ e.solicited = c.solicited /\ e.buffered = c.buffered
      /\ e.judged = c.judged /\ e.surfacedBelow = c.surfacedBelow
  BY WithLedger
<1> HIDE DEF e
<1>2. LET d == Noted(e)
      IN /\ IsRecord(d) /\ d.ledger = e.ledger
         /\ d.surfacedBelow = Larger(e.surfacedBelow, e.ledger.abandonedBelow)
         /\ d.autoStart = e.autoStart /\ d.autoThrough = e.autoThrough /\ d.chain = e.chain
         /\ d.solicited = e.solicited /\ d.buffered = e.buffered /\ d.judged = e.judged
  BY <1>1 DEF Noted, IsRecord, Fields
<1> QED
  BY <1>1, <1>2 DEF e

(* A step that writes holes off and notes it.                              *)
LEMMA NotedHolds ==
  ASSUME NEW c, NEW ev, Holds(c, ev), NEW l, Follows(c.ledger, l),
         Safe(l, ev, Larger(c.surfacedBelow, l.abandonedBelow))
  PROVE  LET d == Noted([c EXCEPT !.ledger = l])
         IN Holds(d, ev) /\ Later(c, d) /\ Onwards(c.ledger, d.ledger)
<1> DEFINE d == Noted([c EXCEPT !.ledger = l])
<1>1. /\ IsRecord(d) /\ d.ledger = l
      /\ d.surfacedBelow = Larger(c.surfacedBelow, l.abandonedBelow)
      /\ d.autoStart = c.autoStart /\ d.autoThrough = c.autoThrough /\ d.chain = c.chain
      /\ d.solicited = c.solicited /\ d.buffered = c.buffered /\ d.judged = c.judged
  BY NotedFields DEF Holds
<1> HIDE DEF d
<1>2. /\ d.solicited \subseteq Heights /\ d.buffered \subseteq Heights /\ d.judged \subseteq Heights
      /\ c.chain = NoChain => d.solicited = {}
  BY <1>1 DEF Holds
<1>3. c.surfacedBelow \in Nat /\ l.abandonedBelow \in Nat
  <2>1. l.abandonedBelow \in Nat
    BY LedgerConstants DEF Safe, IsLedger
  <2> QED
    BY <2>1, HoldsNumbers
<1>4. c.surfacedBelow <= d.surfacedBelow
  BY <1>1, <1>3 DEF Larger
<1>5. Holds(d, ev) /\ Later(c, d) /\ Onwards(c.ledger, d.ledger)
  BY <1>1, <1>2, <1>4, FollowingHolds
<1> QED
  BY <1>5 DEF d

(* Writing off what is below the blocks in memory: the frontier then is at *)
(* or above the low edge of the band.                                      *)
LEMMA SurfaceHolds ==
  ASSUME NEW c, NEW ev, Holds(c, ev), NEW lo \in Nat, NEW floor \in 1..(MaxHeight + 1)
  PROVE  LET d == Surface(c, lo, floor)
         IN /\ Holds(d, ev) /\ Later(c, d)
            /\ d.autoStart = c.autoStart /\ d.autoThrough = c.autoThrough /\ d.chain = c.chain
            /\ d.solicited = c.solicited /\ d.buffered = c.buffered /\ d.judged = c.judged
            /\ d.ledger.start = c.ledger.start
            /\ d.ledger.scannedThrough >= c.ledger.scannedThrough
            /\ d.ledger.requestedThrough = c.ledger.requestedThrough
            /\ HolesOf(d.ledger) \subseteq HolesOf(c.ledger)
            /\ 1 <= lo /\ lo < floor => lo <= Frontier(d)
<1> DEFINE l == AbandonUnscannableBelow(c.ledger, lo, floor)
           d == Surface(c, lo, floor)
<1>1. /\ Safe(l, ev, Larger(c.surfacedBelow, l.abandonedBelow)) /\ Follows(c.ledger, l)
      /\ l.abandonedBelow = IF lo = 0 \/ floor = 0 \/ UnscannableFrom(c.ledger, lo) >= floor
                            THEN c.ledger.abandonedBelow
                            ELSE Larger(c.ledger.abandonedBelow, floor)
  BY AbandonUnscannableIsSafe DEF Holds
<1>2. d = Noted([c EXCEPT !.ledger = l])
  BY WithLedger DEF Surface, Holds
<1> HIDE DEF l, d
<1>3. Holds(d, ev) /\ Later(c, d)
  BY <1>1, <1>2, NotedHolds
<1>4. /\ d.autoStart = c.autoStart /\ d.autoThrough = c.autoThrough /\ d.chain = c.chain
      /\ d.solicited = c.solicited /\ d.buffered = c.buffered /\ d.judged = c.judged
      /\ d.ledger = l
  BY <1>2, NotedFields DEF Holds
<1>5. /\ d.ledger.start = c.ledger.start
      /\ d.ledger.scannedThrough >= c.ledger.scannedThrough
      /\ d.ledger.requestedThrough = c.ledger.requestedThrough
      /\ HolesOf(d.ledger) \subseteq HolesOf(c.ledger)
  BY <1>1, <1>4 DEF Follows, Onwards
<1>6. ASSUME 1 <= lo, lo < floor PROVE lo <= Frontier(d)
  <2>1. /\ c.ledger.abandonedBelow \in Nat /\ c.ledger.start \in Nat /\ floor \in Nat
        /\ c.ledger.scannedThrough \in Nat /\ d.ledger.scannedThrough \in Nat
    BY <1>3, HoldsNumbers
  <2>2. CASE UnscannableFrom(c.ledger, lo) >= floor
    <3>1. l.abandonedBelow = c.ledger.abandonedBelow
      BY <1>1, <2>2
    <3>2. lo <= c.ledger.abandonedBelow \/ lo <= c.ledger.scannedThrough + 1
      BY <1>6, <2>1, <2>2 DEF UnscannableFrom, Larger
    <3> QED
      BY <1>4, <1>5, <2>1, <3>1, <3>2 DEF Frontier, LowestNeededHeight, Larger
  <2>3. CASE ~ (UnscannableFrom(c.ledger, lo) >= floor)
    <3>1. l.abandonedBelow = Larger(c.ledger.abandonedBelow, floor)
      BY <1>1, <1>6, <2>1, <2>3
    <3> QED
      BY <1>4, <1>6, <2>1, <3>1 DEF Frontier, LowestNeededHeight, Larger
  <2> QED
    BY <2>2, <2>3
<1> QED
  BY <1>3, <1>4, <1>5, <1>6 DEF d

-----------------------------------------------------------------------------
(* The cursor and the filter-header chain.                                 *)

(* The fields of a scan state that starts over.                            *)
LEMMA StartOverFields ==
  ASSUME NEW c, IsRecord(c), NEW restart
  PROVE  LET d == StartOver(c, restart)
         IN /\ IsRecord(d) /\ d.ledger = NewLedger(restart) /\ d.chain = NoChain
            /\ d.autoStart = restart /\ d.autoThrough = restart - 1
            /\ d.solicited = {} /\ d.buffered = {}
            /\ d.judged = c.judged /\ d.surfacedBelow = c.surfacedBelow
  BY DEF StartOver, IsRecord, Fields

(* The scan may start over at a height below which all is settled.         *)
LEMMA StartOverHolds ==
  ASSUME NEW c, NEW ev, Holds(c, ev), NEW restart \in 1..(MaxHeight + 1),
         Settles(ev, c.surfacedBelow, Birth, restart - 1)
  PROVE  LET d == StartOver(c, restart)
         IN /\ Holds(d, ev) /\ Later(c, d)
            /\ d.judged = c.judged /\ d.chain = NoChain /\ d.surfacedBelow = c.surfacedBelow
            /\ d.ledger.abandonedBelow = 0 /\ d.ledger.start = restart /\ Fresh(d)
            /\ d.ledger.requestedThrough = restart - 1
            /\ Frontier(d) = restart
<1> DEFINE d == StartOver(c, restart)
           l == NewLedger(restart)
<1>1. /\ IsRecord(d) /\ d.ledger = l /\ d.chain = NoChain
      /\ d.autoStart = restart /\ d.autoThrough = restart - 1
      /\ d.solicited = {} /\ d.buffered = {}
      /\ d.judged = c.judged /\ d.surfacedBelow = c.surfacedBelow
  BY StartOverFields DEF Holds
<1>2. /\ MaxHeight \in Nat /\ restart \in Nat /\ restart >= 1 /\ restart <= MaxHeight + 1
      /\ c.surfacedBelow \in Nat
  BY HoldsNumbers
<1>3. c.surfacedBelow \in 0..(MaxHeight + 1) /\ ev \subseteq Heights
  BY DEF Holds, Safe
<1>4. /\ Safe(l, ev, c.surfacedBelow)
      /\ l.start = restart /\ l.scannedThrough = restart - 1 /\ l.requestedThrough = restart - 1
      /\ l.abandonedBelow = 0 /\ HolesOf(l) = {}
  BY <1>3, NewLedgerIsSafe
<1> HIDE DEF d, l
<1>5. NextForward(d) = restart /\ Anchor(d) = restart
  BY <1>1, <1>2 DEF NextForward, Anchor, Larger
<1>6. /\ Settles(ev, d.surfacedBelow, Birth, d.ledger.start - 1)
      /\ Settles(ev, d.surfacedBelow, d.ledger.requestedThrough + 1, NextForward(d) - 1)
  BY <1>1, <1>2, <1>4, <1>5 DEF Settles
<1>7. IsChain(NoChain)
  BY <1>2 DEF IsChain, NoChain, Chain
<1>8. Holds(d, ev)
  <2>1. d.autoStart \in 1..(MaxHeight + 1) /\ d.autoThrough \in 0..MaxHeight
    BY <1>1, <1>2
  <2>2. c.judged \subseteq Heights
    BY DEF Holds
  <2> QED
    BY <1>1, <1>2, <1>4, <1>6, <1>7, <2>1, <2>2 DEF Holds
<1>9. Tight(d) /\ Anchored(d)
  BY <1>1, <1>2, <1>4, <1>5 DEF Tight, Anchored, Larger
<1>10. Later(c, d)
  BY <1>1, <1>2, <1>9 DEF Later
<1>11. Fresh(d) /\ Frontier(d) = restart
  BY <1>1, <1>2, <1>4 DEF Fresh, Frontier, LowestNeededHeight, Larger
<1> QED
  BY <1>1, <1>4, <1>8, <1>10, <1>11 DEF d

(* Below the frontier all is settled.                                      *)
LEMMA FrontierSettles ==
  ASSUME NEW c, NEW ev, Holds(c, ev)
  PROVE  /\ Frontier(c) \in 1..(MaxHeight + 1)
         /\ Settles(ev, c.surfacedBelow, Birth, Frontier(c) - 1)
<1>1. /\ c.ledger.start \in Nat /\ c.ledger.scannedThrough \in Nat /\ MaxHeight \in Nat
      /\ c.ledger.scannedThrough <= MaxHeight /\ c.surfacedBelow \in Nat
      /\ c.ledger.abandonedBelow \in Nat /\ c.ledger.abandonedBelow <= c.surfacedBelow
      /\ c.surfacedBelow <= MaxHeight + 1 /\ Birth \in Nat
  BY HoldsNumbers
<1>2. /\ Frontier(c) \in 1..(MaxHeight + 1)
      /\ Frontier(c) = c.ledger.scannedThrough + 1 \/ Frontier(c) = c.ledger.abandonedBelow
      /\ Frontier(c) >= c.ledger.abandonedBelow
  BY <1>1 DEF Frontier, LowestNeededHeight, Larger
<1>3. \A h \in Birth..(Frontier(c) - 1) :
         \/ h \in Birth..(c.ledger.start - 1)
         \/ h \in c.ledger.start..c.ledger.scannedThrough
         \/ h < c.surfacedBelow
  BY <1>1, <1>2
<1>4. \A h \in c.ledger.start..c.ledger.scannedThrough : h \in ev \/ h < c.surfacedBelow
  BY DEF Holds, Safe
<1> QED
  BY <1>2, <1>3, <1>4 DEF Holds, Settles

(* Whoever restarts at the block floor loses nothing below it.             *)
LEMMA RestartAtFloorHolds ==
  ASSUME NEW c, NEW ev, Holds(c, ev), NEW floor \in 1..(MaxHeight + 1)
  PROVE  LET d == RestartAtFloor(c, floor)
         IN /\ Holds(d, ev) /\ Later(c, d) /\ d.judged = c.judged
            /\ Moves(c, d) /\ AsksNoMore(c, d)
            /\ floor <= Frontier(c) => Fresh(d)
<1>1. /\ Frontier(c) \in 1..(MaxHeight + 1) /\ Frontier(c) \in Nat /\ floor \in Nat
      /\ Settles(ev, c.surfacedBelow, Birth, Frontier(c) - 1)
  BY FrontierSettles, HoldsNumbers
<1>4. /\ c.ledger.requestedThrough \in Nat /\ c.ledger.scannedThrough \in Nat
      /\ c.ledger.scannedThrough <= c.ledger.requestedThrough
      /\ c.ledger.abandonedBelow \in Nat /\ c.ledger.abandonedBelow <= c.surfacedBelow
      /\ c.surfacedBelow \in Nat
  BY HoldsNumbers
<1>2. CASE Frontier(c) < floor
  <2> DEFINE s == Surface(c, Frontier(c), floor)
  <2>1. /\ Holds(s, ev) /\ Later(c, s) /\ s.judged = c.judged
        /\ s.ledger.start = c.ledger.start
        /\ s.ledger.scannedThrough >= c.ledger.scannedThrough
        /\ s.ledger.requestedThrough = c.ledger.requestedThrough
    BY <1>1, SurfaceHolds, ZenonT(60)
  <2>2. RestartAtFloor(c, floor) = s
    BY <1>2 DEF RestartAtFloor
  <2> HIDE DEF s
  <2>3. s.surfacedBelow \in Nat
    BY <2>1, HoldsNumbers
  <2>4. Moves(c, s) /\ AsksNoMore(c, s)
    BY <1>4, <2>1, <2>3 DEF Moves, Onwards, AsksNoMore, Larger
  <2> QED
    BY <1>1, <1>2, <2>1, <2>2, <2>4
<1>3. CASE ~ (Frontier(c) < floor)
  <2> DEFINE d == StartOver(c, Frontier(c))
  <2>1. RestartAtFloor(c, floor) = d
    BY <1>1, <1>3 DEF Larger, RestartAtFloor
  <2>2. /\ Holds(d, ev) /\ Later(c, d) /\ d.judged = c.judged /\ Fresh(d)
        /\ d.surfacedBelow = c.surfacedBelow
        /\ d.ledger.requestedThrough = Frontier(c) - 1
    BY <1>1, StartOverHolds
  <2> HIDE DEF d
  <2>3. AsksNoMore(c, d)
    BY <1>1, <1>4, <2>2 DEF AsksNoMore, Larger, Frontier, LowestNeededHeight
  <2> QED
    BY <2>1, <2>2, <2>3 DEF Moves
<1> QED
  BY <1>2, <1>3

(* Asking for filter headers, from any tip.                                *)
LEMMA RequestNextHolds ==
  ASSUME NEW c, NEW ev, Holds(c, ev), NEW t, NEW floor \in 1..(MaxHeight + 1), NEW busy
  PROVE  LET d == RequestNextCFHeaders(c, t, floor, busy)
         IN /\ Holds(d, ev) /\ Later(c, d) /\ d.judged = c.judged
            /\ Moves(c, d) /\ AsksNoMore(c, d)
            /\ Fresh(c) /\ floor <= Frontier(c) => Fresh(d)
<1>1. RequestNextCFHeaders(c, t, floor, busy) \in {c, RestartAtFloor(c, floor)}
  BY DEF RequestNextCFHeaders
<1> DEFINE d == RequestNextCFHeaders(c, t, floor, busy)
<1> HIDE DEF d
<1>2. CASE d = c
  BY <1>2, LaterSelf DEF Moves, d
<1>3. CASE d = RestartAtFloor(c, floor)
  BY <1>3, RestartAtFloorHolds DEF d
<1> QED
  BY <1>1, <1>2, <1>3 DEF d

(* A forced re-anchor.  It keeps the chain or drops it.                    *)
LEMMA ReanchorHolds ==
  ASSUME NEW c, NEW ev, Holds(c, ev), NEW t, NEW floor \in 1..(MaxHeight + 1), NEW busy
  PROVE  LET d == ReanchorAtFloor(c, t, floor, busy)
         IN /\ Holds(d, ev) /\ Later(c, d) /\ d.judged = c.judged
            /\ Moves(c, d) /\ AsksNoMore(c, d)
            /\ c.chain = NoChain => d = c
            /\ d.chain # NoChain => Onwards(c.ledger, d.ledger)
<1> DEFINE over == StartOver(c, Larger(Frontier(c), floor))
<1>1. /\ Frontier(c) \in 1..(MaxHeight + 1) /\ Frontier(c) \in Nat /\ floor \in Nat
      /\ Settles(ev, c.surfacedBelow, Birth, Frontier(c) - 1)
  BY FrontierSettles, HoldsNumbers
<1>5. /\ c.ledger.requestedThrough \in Nat /\ c.ledger.scannedThrough \in Nat
      /\ c.ledger.scannedThrough <= c.ledger.requestedThrough
      /\ c.ledger.abandonedBelow \in Nat /\ c.ledger.abandonedBelow <= c.surfacedBelow
      /\ c.surfacedBelow \in Nat
  BY HoldsNumbers
<1>2. CASE c.chain = NoChain
  <2>1. ReanchorAtFloor(c, t, floor, busy) = c
    BY <1>2 DEF ReanchorAtFloor
  <2> QED
    BY <1>2, <2>1, LaterSelf DEF Moves
<1>3. CASE c.chain # NoChain /\ Frontier(c) < floor
  <2> DEFINE s == Surface(c, Frontier(c), floor)
  <2>1. /\ Holds(s, ev) /\ Later(c, s) /\ s.judged = c.judged
        /\ s.ledger.start = c.ledger.start
        /\ s.ledger.scannedThrough >= c.ledger.scannedThrough
        /\ s.ledger.requestedThrough = c.ledger.requestedThrough
    BY <1>1, SurfaceHolds, ZenonT(60)
  <2>2. ReanchorAtFloor(c, t, floor, busy) = s
    BY <1>3 DEF ReanchorAtFloor
  <2> HIDE DEF s
  <2>3. s.surfacedBelow \in Nat
    BY <2>1, HoldsNumbers
  <2>4. Onwards(c.ledger, s.ledger) /\ Moves(c, s) /\ AsksNoMore(c, s)
    BY <1>5, <2>1, <2>3 DEF Moves, Onwards, AsksNoMore, Larger
  <2> QED
    BY <1>3, <2>1, <2>2, <2>4
<1>4. CASE c.chain # NoChain /\ ~ (Frontier(c) < floor)
  <2>1. Larger(Frontier(c), floor) = Frontier(c)
    BY <1>1, <1>4 DEF Larger
  <2>2. /\ Holds(over, ev) /\ Later(c, over) /\ over.judged = c.judged
        /\ Fresh(over) /\ over.chain = NoChain /\ over.surfacedBelow = c.surfacedBelow
        /\ over.ledger.requestedThrough = Frontier(c) - 1 /\ Frontier(over) = Frontier(c)
    BY <1>1, <2>1, StartOverHolds
  <2> DEFINE asked == RequestNextCFHeaders(over, t, floor, busy)
  <2>3. ReanchorAtFloor(c, t, floor, busy) = IF connected = {} THEN over ELSE asked
    BY <1>4 DEF ReanchorAtFloor
  <2> HIDE DEF over
  <2>6. floor <= Frontier(over)
    BY <1>1, <1>4, <2>2
  <2>4. /\ Holds(asked, ev) /\ Later(over, asked) /\ asked.judged = over.judged
        /\ AsksNoMore(over, asked) /\ Fresh(asked)
    BY <2>2, <2>6, RequestNextHolds
  <2> HIDE DEF asked
  <2>5. Later(c, asked)
    BY <2>2, <2>4, LaterComposes
  <2>7. AsksNoMore(c, over)
    BY <1>1, <1>5, <2>2 DEF AsksNoMore, Larger, Frontier, LowestNeededHeight
  <2>8. AsksNoMore(c, asked)
    BY <2>2, <2>4, <2>7, AsksNoMoreComposes
  <2>9. asked.chain = NoChain
    BY <2>2, <2>4 DEF Later
  <2> QED
    BY <1>4, <2>2, <2>3, <2>4, <2>5, <2>7, <2>8, <2>9 DEF Moves
<1> QED
  BY <1>2, <1>3, <1>4

-----------------------------------------------------------------------------
(* The cursor of the forward fetch.                                        *)

(* The cursor may be aimed at any height up to which all is settled or     *)
(* asked for.                                                              *)
LEMMA AimedHolds ==
  ASSUME NEW c, NEW ev, Holds(c, ev), NEW d, IsRecord(d),
         d.ledger = c.ledger, d.chain = c.chain, d.solicited = c.solicited,
         d.buffered = c.buffered, d.judged = c.judged, d.surfacedBelow = c.surfacedBelow,
         d.autoStart \in 1..(MaxHeight + 1), d.autoThrough \in 0..MaxHeight,
         Settles(ev, c.surfacedBelow, c.ledger.requestedThrough + 1, NextForward(d) - 1)
  PROVE  Holds(d, ev)
  BY DEF Holds

(* The cursor is brought back to what was requested and to the frontier:   *)
(* in KeepAlive and in Snap, with the cursor x, y they start from.         *)
LEMMA LoweredHolds ==
  ASSUME NEW c, NEW ev, Holds(c, ev), NEW d, IsRecord(d),
         d.ledger = c.ledger, d.chain = c.chain, d.solicited = c.solicited,
         d.buffered = c.buffered, d.judged = c.judged, d.surfacedBelow = c.surfacedBelow,
         NEW x \in 1..(MaxHeight + 1), NEW y \in 0..MaxHeight,
         d.autoStart = Smaller(x, Frontier(c)),
         d.autoThrough = Larger(Smaller(y, c.ledger.requestedThrough), Frontier(c) - 1)
  PROVE  /\ Holds(d, ev) /\ Tight(d)
         /\ Anchored(c) /\ c.chain # NoChain => Anchored(d)
<1>1. /\ MaxHeight \in Nat /\ x \in Nat /\ y \in Nat /\ 1 <= x /\ y <= MaxHeight
      /\ Frontier(c) \in Nat /\ 1 <= Frontier(c) /\ Frontier(c) <= MaxHeight + 1
      /\ c.ledger.scannedThrough \in Nat /\ c.ledger.requestedThrough \in Nat
      /\ c.ledger.scannedThrough <= c.ledger.requestedThrough
      /\ c.ledger.requestedThrough <= MaxHeight
      /\ c.ledger.abandonedBelow \in Nat /\ c.surfacedBelow \in Nat
      /\ c.ledger.abandonedBelow <= c.surfacedBelow /\ c.chain.next \in Nat
  BY HoldsNumbers, FrontierSettles
<1>2. /\ d.autoStart \in 1..(MaxHeight + 1) /\ d.autoThrough \in 0..MaxHeight
      /\ d.autoStart <= Frontier(c)
      /\ d.autoThrough + 1 <= Larger(c.ledger.requestedThrough + 1, Frontier(c))
  BY <1>1 DEF Smaller, Larger
<1>3. /\ NextForward(d) \in Nat
      /\ NextForward(d) <= Larger(c.ledger.requestedThrough + 1, Frontier(c))
  BY <1>1, <1>2 DEF NextForward, Larger
<1>4. Settles(ev, c.surfacedBelow, c.ledger.requestedThrough + 1, Frontier(c) - 1)
  <2>1. \A h \in (c.ledger.requestedThrough + 1)..(Frontier(c) - 1) : h < c.surfacedBelow
    BY <1>1 DEF Frontier, LowestNeededHeight, Larger
  <2> QED
    BY <2>1 DEF Settles
<1>5. Settles(ev, c.surfacedBelow, c.ledger.requestedThrough + 1, NextForward(d) - 1)
  BY <1>1, <1>3, <1>4 DEF Settles, Larger
<1>6. Holds(d, ev)
  BY <1>2, <1>5, AimedHolds
<1>7. Frontier(c) <= Larger(c.ledger.scannedThrough + 1, c.surfacedBelow)
  BY <1>1 DEF Frontier, LowestNeededHeight, Larger
<1>8. Tight(d)
  <2>1. d.autoStart \in Nat /\ d.autoThrough \in Nat
    BY <1>1, <1>2
  <2> QED
    BY <1>1, <1>2, <1>7, <2>1 DEF Tight, Larger
<1>9. ASSUME Anchored(c), c.chain # NoChain PROVE Anchored(d)
  BY <1>1, <1>3, <1>7, <1>9 DEF Anchored, Anchor, Larger
<1> QED
  BY <1>6, <1>8, <1>9

(* Verdicts on filters and blocks.                                         *)
LEMMA JudgeHolds ==
  ASSUME NEW c, NEW ev, Holds(c, ev), NEW S \in SUBSET Heights, NEW d, IsRecord(d),
         d.ledger = MarkAllEvaluated(c.ledger, S), d.judged = c.judged \cup S,
         d.autoStart = c.autoStart, d.autoThrough = c.autoThrough, d.chain = c.chain,
         d.solicited \subseteq Heights, d.buffered \subseteq Heights,
         c.chain = NoChain => d.solicited = {}, d.surfacedBelow = c.surfacedBelow
  PROVE  Holds(d, ev \cup S) /\ Later(c, d) /\ Onwards(c.ledger, d.ledger)
<1>1. Safe(d.ledger, ev \cup S, c.surfacedBelow) /\ Follows(c.ledger, d.ledger)
  BY MarkEvaluatedIsSafe DEF Holds
<1>2. c.surfacedBelow <= d.surfacedBelow
  BY HoldsNumbers
<1>3. d.judged \subseteq Heights
  BY DEF Holds
<1> QED
  BY <1>1, <1>2, <1>3, FollowingHolds

(* What is on its way, or waits for its block, is no part of the scan.     *)
LEMMA MessagesHold ==
  ASSUME NEW c, NEW ev, Holds(c, ev), NEW d, IsRecord(d),
         d.ledger = c.ledger, d.autoStart = c.autoStart, d.autoThrough = c.autoThrough,
         d.chain = c.chain, d.solicited \subseteq Heights, d.buffered \subseteq Heights,
         d.judged \subseteq Heights,
         c.chain = NoChain => d.solicited = {}, d.surfacedBelow = c.surfacedBelow
  PROVE  Holds(d, ev) /\ Later(c, d) /\ Onwards(c.ledger, d.ledger)
<1>1. Safe(d.ledger, ev, c.surfacedBelow) /\ Follows(c.ledger, d.ledger)
  BY FollowsOnwards DEF Holds, Safe
<1>2. c.surfacedBelow <= d.surfacedBelow
  BY HoldsNumbers
<1> QED
  BY <1>1, <1>2, FollowingHolds

(* One forward fetch.  What it asks for starts at the cursor and ends at   *)
(* the filter headers.                                                     *)
LEMMA ForwardFetchHolds ==
  ASSUME NEW c, NEW ev, Holds(c, ev), NEW p \in Peers
  PROVE  LET d == ForwardFetch(c, p)
         IN /\ Holds(d, ev) /\ Later(c, d) /\ d.judged = c.judged /\ d.chain = c.chain
            /\ Onwards(c.ledger, d.ledger)
<1> DEFINE start == NextForward(c)
           stop == Smaller(c.chain.next - 1, start + MaxRange - 1)
           l == RecordRequested(c.ledger, start, stop, p)
           d == [c EXCEPT !.autoThrough = stop, !.ledger = l]
<1>1. SUFFICES ASSUME c.chain.next > 0, Cardinality(DOMAIN c.ledger.outstanding) < LowWater,
                      start <= c.chain.next - 1
               PROVE  /\ Holds(d, ev) /\ Later(c, d) /\ d.judged = c.judged /\ d.chain = c.chain
                      /\ Onwards(c.ledger, d.ledger)
  BY LaterSelf DEF ForwardFetch
<1>2. /\ MaxHeight \in Nat /\ c.autoStart \in Nat /\ 1 <= c.autoStart /\ c.autoThrough \in Nat
      /\ c.chain.next \in Nat /\ c.chain.next <= MaxHeight + 1
      /\ c.ledger.requestedThrough \in Nat /\ c.ledger.scannedThrough \in Nat
      /\ c.surfacedBelow \in Nat
      /\ c.ledger.abandonedBelow \in Nat /\ c.ledger.abandonedBelow <= c.surfacedBelow
      /\ Birth \in Nat
  BY HoldsNumbers
<1>3. MaxRange \in Nat /\ MaxRange >= 1 /\ LowWater \in Nat /\ LowWater + MaxRange <= OutstandingMax + 1
  BY LedgerConstants, ScanConstants
<1>4. /\ start \in Nat /\ 1 <= start /\ c.autoStart <= start /\ c.autoThrough + 1 <= start
      /\ start = c.autoStart \/ start = c.autoThrough + 1
  BY <1>2 DEF NextForward, Larger
<1> HIDE DEF start
<1>5. stop \in Nat /\ start <= stop /\ stop <= start + MaxRange - 1 /\ stop <= c.chain.next - 1
  BY <1>1, <1>2, <1>3, <1>4 DEF Smaller
<1> HIDE DEF stop
<1>6. start \in Heights /\ stop \in Heights /\ stop \in start..(start + MaxRange - 1)
  BY <1>2, <1>3, <1>4, <1>5 DEF Heights
<1>7. \A h \in Nat : c.ledger.requestedThrough < h /\ h < start => h \in ev \/ h < c.surfacedBelow
  BY <1>2, <1>4 DEF Holds, Settles, start
<1>8. /\ Safe(l, ev, c.surfacedBelow) /\ Onwards(c.ledger, l)
      /\ l.requestedThrough = IF stop < c.ledger.abandonedBelow THEN c.ledger.requestedThrough
                              ELSE Larger(c.ledger.requestedThrough, stop)
  <2>1. Safe(c.ledger, ev, c.surfacedBelow)
    BY DEF Holds
  <2> QED
    BY <1>1, <1>3, <1>6, <1>7, <2>1, RecordRequestedIsSafe
<1> HIDE DEF l
<1>9. /\ IsRecord(d) /\ d.ledger = l /\ d.autoThrough = stop
      /\ d.autoStart = c.autoStart /\ d.chain = c.chain
      /\ d.solicited = c.solicited /\ d.buffered = c.buffered
      /\ d.judged = c.judged /\ d.surfacedBelow = c.surfacedBelow
  BY DEF Holds, IsRecord, Fields
<1> HIDE DEF d
<1>10. /\ l.requestedThrough \in Nat /\ l.scannedThrough \in Nat
       /\ l.start = c.ledger.start /\ l.scannedThrough >= c.ledger.scannedThrough
       /\ c.ledger.requestedThrough <= l.requestedThrough
       /\ stop < c.surfacedBelow \/ stop <= l.requestedThrough
       /\ l.requestedThrough = c.ledger.requestedThrough \/ l.requestedThrough = stop
  <2>1. l.requestedThrough \in Nat /\ l.scannedThrough \in Nat
    BY <1>8, LedgerConstants DEF Safe, IsLedger
  <2> QED
    BY <1>2, <1>5, <1>8, <2>1 DEF Onwards, Larger
<1>11. NextForward(d) = stop + 1
  BY <1>2, <1>4, <1>5, <1>9 DEF NextForward, Larger
<1>12. Settles(ev, d.surfacedBelow, d.ledger.requestedThrough + 1, NextForward(d) - 1)
  BY <1>2, <1>5, <1>9, <1>10, <1>11 DEF Settles
<1>13. Settles(ev, d.surfacedBelow, Birth, d.ledger.start - 1)
  BY <1>9, <1>10 DEF Holds
<1>14. Holds(d, ev)
  <2>1. d.autoThrough \in 0..MaxHeight
    BY <1>2, <1>5, <1>9
  <2>2. d.ledger.start >= 1
    BY <1>9, <1>10 DEF Holds
  <2> QED
    BY <1>8, <1>9, <1>12, <1>13, <2>1, <2>2 DEF Holds
<1>15. Tight(c) => Tight(d)
  BY <1>2, <1>5, <1>9, <1>10 DEF Tight, Larger
<1>16. c.chain # NoChain
  BY <1>1 DEF NoChain
<1>17. Anchored(c) => Anchored(d)
  <2>1. Anchor(c) = c.chain.next /\ Anchor(d) = c.chain.next
    BY <1>9, <1>16 DEF Anchor
  <2> QED
    BY <1>2, <1>5, <1>9, <1>10, <1>11, <1>16, <2>1 DEF Anchored, Larger
<1> QED
  BY <1>2, <1>8, <1>9, <1>10, <1>14, <1>15, <1>17 DEF Later

-----------------------------------------------------------------------------
(* The parts of a tick.  What they need of the rest of the state is that   *)
(* the tip and the lowest block in memory are heights and that those       *)
(* connected are peers.                                                    *)
Surroundings == tip \in Heights /\ blockFloor \in 1..tip /\ connected \subseteq Peers

LEMMA FloorIsHeight ==
  Surroundings => /\ blockFloor \in Heights /\ blockFloor \in 1..(MaxHeight + 1)
                  /\ blockFloor \in Nat /\ tip \in Nat /\ tip <= MaxHeight
                  /\ 1 <= blockFloor /\ blockFloor <= tip
  BY LedgerConstants DEF Surroundings, Heights

(* A choice of who is due, or of nobody.                                   *)
LEMMA DueHolds ==
  ASSUME NEW c, NEW ev, Holds(c, ev), NEW due
  PROVE  /\ LET d == [c EXCEPT !.ledger = WithDue(@, due)]
            IN /\ Holds(d, ev) /\ Later(c, d) /\ d.judged = c.judged /\ d.chain = c.chain
               /\ Onwards(c.ledger, d.ledger) /\ (Fresh(c) => Fresh(d))
         /\ LET d == [c EXCEPT !.ledger = Undue(@)]
            IN /\ Holds(d, ev) /\ Later(c, d) /\ d.judged = c.judged /\ d.chain = c.chain
               /\ Onwards(c.ledger, d.ledger) /\ (Fresh(c) => Fresh(d))
<1> DEFINE o == c.ledger.outstanding
           f == [h \in DOMAIN o |-> [o[h] EXCEPT !.due = h \in due]]
           g == [h \in DOMAIN o |-> [o[h] EXCEPT !.due = FALSE]]
<1>1. Safe(c.ledger, ev, c.surfacedBelow)
  BY DEF Holds
<1>2. f \in [DOMAIN o -> Hole] /\ g \in [DOMAIN o -> Hole]
  <2>1. \A h \in DOMAIN o : o[h] \in Hole
    BY <1>1 DEF Safe, IsLedger, HolesIn
  <2> HIDE DEF o
  <2>2. \A e \in Hole, b \in BOOLEAN : [e EXCEPT !.due = b] \in Hole
    BY DEF Hole
  <2>3. ASSUME NEW h \in DOMAIN o PROVE [o[h] EXCEPT !.due = h \in due] \in Hole
    <3> DEFINE b == h \in due
    <3>1. b \in BOOLEAN
      OBVIOUS
    <3> HIDE DEF b
    <3>2. [o[h] EXCEPT !.due = b] \in Hole
      BY <2>1, <2>2, <3>1
    <3> QED
      BY <3>2 DEF b
  <2>4. \A h \in DOMAIN o : [o[h] EXCEPT !.due = FALSE] \in Hole
    BY <2>1, <2>2
  <2> QED
    BY <2>3, <2>4
<1> HIDE DEF f, g
<1>3. \A k : k \in [DOMAIN c.ledger.outstanding -> Hole] =>
         LET d == [c EXCEPT !.ledger = [c.ledger EXCEPT !.outstanding = k]]
         IN /\ Holds(d, ev) /\ Later(c, d) /\ d.judged = c.judged /\ d.chain = c.chain
            /\ Onwards(c.ledger, d.ledger) /\ (Fresh(c) => Fresh(d))
  <2> SUFFICES ASSUME NEW k \in [DOMAIN c.ledger.outstanding -> Hole]
               PROVE  LET d == [c EXCEPT !.ledger = [c.ledger EXCEPT !.outstanding = k]]
                      IN /\ Holds(d, ev) /\ Later(c, d) /\ d.judged = c.judged /\ d.chain = c.chain
               /\ Onwards(c.ledger, d.ledger) /\ (Fresh(c) => Fresh(d))
    OBVIOUS
  <2> DEFINE l == [c.ledger EXCEPT !.outstanding = k]
  <2>1. Safe(l, ev, c.surfacedBelow) /\ Follows(c.ledger, l)
    BY <1>1, AskingIsSafe
  <2>4. l.start = c.ledger.start /\ l.scannedThrough = c.ledger.scannedThrough
    BY <1>1 DEF Safe, IsLedger
  <2> HIDE DEF l
  <2>2. LET d == [c EXCEPT !.ledger = l]
        IN Holds(d, ev) /\ Later(c, d) /\ Onwards(c.ledger, d.ledger)
    BY <2>1, LedgerStepHolds
  <2>3. LET d == [c EXCEPT !.ledger = l]
        IN d.judged = c.judged /\ d.chain = c.chain /\ (Fresh(c) => Fresh(d))
    BY <2>4, WithLedger DEF Holds, Fresh
  <2> QED
    BY <2>2, <2>3 DEF l
<1>4. /\ WithDue(c.ledger, due) = [c.ledger EXCEPT !.outstanding = f]
      /\ Undue(c.ledger) = [c.ledger EXCEPT !.outstanding = g]
  BY DEF WithDue, Undue, f, g
<1>5. /\ [c EXCEPT !.ledger = WithDue(@, due)] = [c EXCEPT !.ledger = WithDue(c.ledger, due)]
      /\ [c EXCEPT !.ledger = Undue(@)] = [c EXCEPT !.ledger = Undue(c.ledger)]
  OBVIOUS
<1> QED
  BY <1>2, <1>3, <1>4, <1>5

(* Reporting the holes that have left the memory.                          *)
LEMMA SurfaceBelowFloorHolds ==
  ASSUME NEW c, NEW ev, Holds(c, ev), Surroundings
  PROVE  LET d == SurfaceBelowFloor(c)
         IN /\ Holds(d, ev) /\ Later(c, d) /\ d.judged = c.judged /\ d.chain = c.chain
            /\ Onwards(c.ledger, d.ledger)
<1> DEFINE s == Surface(c, Frontier(c), blockFloor)
           d == [s EXCEPT !.autoStart = Smaller(@, Frontier(s)),
                          !.autoThrough = Larger(Smaller(s.autoThrough, s.ledger.requestedThrough),
                                                 Frontier(s) - 1)]
<1>1. CASE SurfaceBelowFloor(c) = c
  BY <1>1, LaterSelf
<1>2. CASE SurfaceBelowFloor(c) # c
  <2>1. SurfaceBelowFloor(c) = d /\ HolesOf(c.ledger) # {}
    BY <1>2 DEF SurfaceBelowFloor
  <2>2. Frontier(c) \in Nat
    BY FrontierSettles, HoldsNumbers
  <2>3. /\ Holds(s, ev) /\ Later(c, s)
        /\ s.autoStart = c.autoStart /\ s.autoThrough = c.autoThrough /\ s.chain = c.chain
        /\ s.solicited = c.solicited /\ s.buffered = c.buffered /\ s.judged = c.judged
        /\ s.ledger.requestedThrough = c.ledger.requestedThrough
        /\ s.ledger.start = c.ledger.start
        /\ s.ledger.scannedThrough >= c.ledger.scannedThrough
    BY <2>2, SurfaceHolds, FloorIsHeight, ZenonT(60)
  <2> HIDE DEF s
  <2>4. /\ IsRecord(d) /\ d.ledger = s.ledger /\ d.chain = s.chain /\ d.solicited = s.solicited
        /\ d.buffered = s.buffered /\ d.judged = s.judged /\ d.surfacedBelow = s.surfacedBelow
        /\ d.autoStart = Smaller(s.autoStart, Frontier(s))
        /\ d.autoThrough = Larger(Smaller(s.autoThrough, s.ledger.requestedThrough), Frontier(s) - 1)
    <3>1. IsRecord(s)
      BY <2>3 DEF Holds
    <3> QED
      BY <3>1 DEF IsRecord, Fields
  <2> HIDE DEF d
  <2>5. s.autoStart \in 1..(MaxHeight + 1) /\ s.autoThrough \in 0..MaxHeight
    BY <2>3 DEF Holds
  <2>6. Holds(d, ev) /\ Tight(d) /\ (Anchored(s) /\ s.chain # NoChain => Anchored(d))
    BY <2>3, <2>4, <2>5, LoweredHolds
  <2>7. Anchored(c) => Anchored(d)
    BY <2>1, <2>3, <2>6 DEF Anchored, Later
  <2>8. c.ledger.requestedThrough \in Nat
    BY HoldsNumbers
  <2>9. Later(c, d)
    BY <2>3, <2>4, <2>6, <2>7, <2>8 DEF Later
  <2> QED
    BY <2>1, <2>3, <2>4, <2>6, <2>9 DEF Onwards
<1> QED
  BY <1>1, <1>2

(* Filters whose block has arrived: only those that do not match are       *)
(* judged.                                                                 *)
LEMMA DrainBufferHolds ==
  ASSUME NEW c, NEW ev, Holds(c, ev), Surroundings, NEW aged
  PROVE  LET d == DrainBuffer(c, aged)
         IN \E S \in SUBSET (Heights \ Hits) :
              /\ Holds(d, ev \cup S) /\ Later(c, d) /\ d.judged = c.judged \cup S
              /\ d.chain = c.chain /\ Onwards(c.ledger, d.ledger)
<1> DEFINE ready == {h \in c.buffered : Resident(h) /\ h < c.chain.next}
           done == IF connected = {} THEN ready \ Hits ELSE ready
           good == {h \in done : h >= c.chain.start}
           S == good \ Hits
           j == Judge(c, S)
           d == [j EXCEPT !.solicited = @ \cup (good \cap Hits), !.buffered = @ \ (done \cup aged)]
<1>1. d = DrainBuffer(c, aged)
  BY DEF DrainBuffer
<1>2. good \subseteq Heights /\ c.solicited \subseteq Heights /\ c.buffered \subseteq Heights
  BY DEF Holds
<1>3. c.chain = NoChain => good = {}
  BY <1>2 DEF NoChain, Heights
<1>4. /\ IsRecord(d) /\ d.ledger = MarkAllEvaluated(c.ledger, S) /\ d.judged = c.judged \cup S
      /\ d.autoStart = c.autoStart /\ d.autoThrough = c.autoThrough /\ d.chain = c.chain
      /\ d.solicited = c.solicited \cup (good \cap Hits)
      /\ d.buffered = c.buffered \ (done \cup aged)
      /\ d.surfacedBelow = c.surfacedBelow
  <2> HIDE DEF done, good, S
  <2>1. /\ IsRecord(j) /\ j.ledger = MarkAllEvaluated(c.ledger, S) /\ j.judged = c.judged \cup S
        /\ j.autoStart = c.autoStart /\ j.autoThrough = c.autoThrough /\ j.chain = c.chain
        /\ j.solicited = c.solicited /\ j.buffered = c.buffered
        /\ j.surfacedBelow = c.surfacedBelow
    BY DEF Judge, Holds, IsRecord, Fields
  <2> HIDE DEF j
  <2> QED
    BY <2>1 DEF IsRecord, Fields
<1>5. S \in SUBSET (Heights \ Hits)
  BY <1>2
<1> HIDE DEF d, S, good, done
<1>6. /\ d.solicited \subseteq Heights /\ d.buffered \subseteq Heights
      /\ c.chain = NoChain => d.solicited = {}
  BY <1>2, <1>3, <1>4 DEF Holds
<1>7. Holds(d, ev \cup S) /\ Later(c, d) /\ Onwards(c.ledger, d.ledger)
  BY <1>4, <1>5, <1>6, JudgeHolds
<1> QED
  BY <1>1, <1>4, <1>5, <1>7

(* Parking the holes that were asked for often enough.                     *)
LEMMA RetireHolds ==
  ASSUME NEW c, NEW ev, Holds(c, ev)
  PROVE  LET d == Retire(c)
         IN /\ Holds(d, ev) /\ Later(c, d) /\ d.judged = c.judged
            /\ Onwards(c.ledger, d.ledger)
<1> DEFINE l == RetireCapped(c.ledger)
<1>1. Safe(l, ev, c.surfacedBelow) /\ Follows(c.ledger, l)
  BY RetireCappedIsSafe DEF Holds
<1>2. Retire(c) = [c EXCEPT !.ledger = l]
  BY DEF Retire
<1> HIDE DEF l
<1>3. IsRecord(c)
  BY DEF Holds
<1> QED
  BY <1>1, <1>2, <1>3, LedgerStepHolds, WithLedger

(* The valve: what is written off is noted, what is re-armed stays a hole. *)
LEMMA ValveHolds ==
  ASSUME NEW c, NEW ev, Holds(c, ev)
  PROVE  LET d == Valve(c)
         IN /\ Holds(d, ev) /\ Later(c, d) /\ d.judged = c.judged
            /\ Onwards(c.ledger, d.ledger)
<1> DEFINE pins == {pin \in PinningHole(c.ledger) : ~ pin.offerable}
           pin == CHOOSE pin \in pins : TRUE
           run == AbandonableRunFrom(c.ledger, pin.height, MaxRange, RearmMax)
           gone == AbandonGaveUpBelow(c.ledger, Max(run) + 1)
           again == ReArmParkedRun(c.ledger, pin.height, MaxRange)
<1>1. CASE pins = {} \/ Valve(c) = c
  <2>1. Valve(c) = c
    BY <1>1 DEF Valve
  <2> QED
    BY <2>1, LaterSelf
<1>2. CASE pins # {} /\ Valve(c) # c
  <2>1. \/ run # {} /\ Valve(c) = Noted([c EXCEPT !.ledger = gone])
        \/ run # {} /\ Valve(c) = Surface(c, pin.height, Max(run) + 1)
        \/ Valve(c) = [c EXCEPT !.ledger = again]
    BY <1>2 DEF Valve
  <2>2. /\ Safe(c.ledger, ev, c.surfacedBelow) /\ IsRecord(c)
        /\ HolesOf(c.ledger) \subseteq Heights /\ HolesOf(c.ledger) \subseteq Nat
    BY DEF Holds, Safe, IsLedger, HolesIn, HolesOf, Heights
  <2>3. pin.height \in Heights
    <3>1. pin \in PinningHole(c.ledger)
      BY <1>2
    <3> HIDE DEF pin
    <3>2. HolesOf(c.ledger) # {} /\ pin.height = Min(HolesOf(c.ledger))
      BY <3>1 DEF PinningHole
    <3> DEFINE H == HolesOf(c.ledger)
    <3>3. H \in SUBSET Nat /\ H # {}
      BY <2>2, <3>2
    <3> HIDE DEF H
    <3>4. Min(H) \in H
      BY <3>3, MinIsLeast
    <3> QED
      BY <2>2, <3>2, <3>4 DEF H
  <2> HIDE DEF pin, pins
  <2>4. run \subseteq Heights
    <3>1. MaxRange \in Nat /\ pin.height \in Nat
      BY <2>3, LedgerConstants DEF Heights
    <3>2. \A h \in run : h \in pin.height..h /\ Abandonable(c.ledger, h, RearmMax)
      BY <3>1 DEF AbandonableRunFrom
    <3>3. \A h \in run : h \in HolesOf(c.ledger)
      BY <3>2 DEF Abandonable, HolesOf
    <3> QED
      BY <2>2, <3>3
  <2>5. run # {} => Max(run) + 1 \in Nat /\ Max(run) + 1 \in 1..(MaxHeight + 1)
    <3>1. run # {} => Max(run) \in Heights
      BY <2>4, MaxIsGreatest
    <3> QED
      BY <3>1, LedgerConstants DEF Heights
  <2>6. CASE run # {} /\ Valve(c) = Noted([c EXCEPT !.ledger = gone])
    <3>1. Safe(gone, ev, Larger(c.surfacedBelow, gone.abandonedBelow)) /\ Follows(c.ledger, gone)
      BY <2>2, <2>5, <2>6, AbandonGaveUpIsSafe
    <3> HIDE DEF gone
    <3> QED
      BY <2>2, <2>6, <3>1, NotedHolds, NotedFields
  <2>7. CASE run # {} /\ Valve(c) = Surface(c, pin.height, Max(run) + 1)
    <3>1. pin.height \in Nat
      BY <2>3 DEF Heights
    <3> HIDE DEF run
    <3> QED
      BY <2>5, <2>7, <3>1, SurfaceHolds DEF Onwards
  <2>8. CASE Valve(c) = [c EXCEPT !.ledger = again]
    <3>1. Safe(again, ev, c.surfacedBelow) /\ Follows(c.ledger, again)
      BY <2>2, <2>3, LedgerConstants, ReArmParkedRunIsSafe
    <3> HIDE DEF again
    <3> QED
      BY <2>2, <2>8, <3>1, LedgerStepHolds, WithLedger
  <2> QED
    BY <2>1, <2>6, <2>7, <2>8
<1> QED
  BY <1>1, <1>2

(* A request goes to a connected peer.                                     *)
LEMMA PeerForIsConnected ==
  ASSUME NEW last, NEW pick \in connected
  PROVE  PeerFor(last, pick) \in connected
<1>1. CASE PeerFor(last, pick) = pick
  BY <1>1
<1>2. CASE PeerFor(last, pick) # pick
  <2>1. pick = last /\ connected # {last}
    BY <1>2 DEF PeerFor
  <2>2. \E p \in connected : p # last
    BY <2>1
  <2> QED
    BY <2>1, <2>2 DEF PeerFor
<1> QED
  BY <1>1, <1>2

(* What an offer does to the holes it is made for.                         *)
LEMMA OfferIsHoles ==
  ASSUME NEW c, NEW ev, Holds(c, ev), Surroundings, NEW pick, connected # {} => pick \in connected,
         NEW run, \A h \in run : h \in DOMAIN c.ledger.outstanding /\ ~ Capped(c.ledger.outstanding[h])
  PROVE  Offer(c, run, pick).outstanding \in [DOMAIN c.ledger.outstanding -> Hole]
<1> DEFINE sendable == {h \in run : h <= tip}
           p == PeerFor(c.ledger.outstanding[Min(run)].peer, pick)
           l == c.ledger
<1>1. Safe(l, ev, c.surfacedBelow) /\ IsLedger(l)
  BY DEF Holds, Safe
<1>2. \/ \E S : Offer(c, run, pick) = MarkOffersMissedLivePeer(l, S)
      \/ connected # {} /\ Offer(c, run, pick) = CommitRerequest(l, sendable, p)
  BY DEF Offer
<1>3. ASSUME NEW S PROVE MarkOffersMissedLivePeer(l, S).outstanding \in [DOMAIN l.outstanding -> Hole]
  <2>1. Safe(MarkOffersMissedLivePeer(l, S), ev, c.surfacedBelow)
    BY <1>1, OffersMissedIsSafe
  <2>2. HolesIn(MarkOffersMissedLivePeer(l, S).outstanding, Hole)
    BY <2>1 DEF Safe, IsLedger
  <2>3. DOMAIN MarkOffersMissedLivePeer(l, S).outstanding = DOMAIN l.outstanding
    BY <1>1 DEF MarkOffersMissedLivePeer, IsLedger
  <2> QED
    BY <2>2, <2>3 DEF HolesIn
<1>4. ASSUME connected # {}
      PROVE  CommitRerequest(l, sendable, p).outstanding \in [DOMAIN l.outstanding -> Hole]
  <2>1. p \in Peers
    BY <1>4, PeerForIsConnected DEF Surroundings
  <2> HIDE DEF p
  <2>2. \A h \in sendable : h \in DOMAIN l.outstanding /\ ~ Capped(l.outstanding[h])
    OBVIOUS
  <2> HIDE DEF sendable
  <2>3. Safe(CommitRerequest(l, sendable, p), ev, c.surfacedBelow)
    BY <1>1, <2>1, <2>2, CommitIsSafe
  <2>4. HolesIn(CommitRerequest(l, sendable, p).outstanding, Hole)
    BY <2>3 DEF Safe, IsLedger
  <2>5. DOMAIN CommitRerequest(l, sendable, p).outstanding = DOMAIN l.outstanding
    BY <1>1 DEF CommitRerequest, IsLedger
  <2> QED
    BY <2>4, <2>5 DEF HolesIn
<1> QED
  BY <1>2, <1>3, <1>4

(* Offering the runs that are due: no hole appears and none goes.          *)
LEMMA RerequestHolds ==
  ASSUME NEW c, NEW ev, Holds(c, ev), Surroundings, NEW pick, connected # {} => pick \in connected
  PROVE  LET d == Rerequest(c, pick)
         IN /\ Holds(d, ev) /\ Later(c, d) /\ d.judged = c.judged
            /\ Onwards(c.ledger, d.ledger)
<1> DEFINE runs == OfferedRuns(c)
           RunOf(h) == CHOOSE run \in runs : h \in run
           o == c.ledger.outstanding
           f == [h \in DOMAIN o |->
                   IF h \in UNION runs THEN Offer(c, RunOf(h), pick).outstanding[h] ELSE o[h]]
           l == [c.ledger EXCEPT !.outstanding = f]
<1>1. Safe(c.ledger, ev, c.surfacedBelow) /\ IsLedger(c.ledger) /\ IsRecord(c)
  BY DEF Holds, Safe
<1>2. \A run \in runs : \A h \in run : h \in DOMAIN o /\ ~ Capped(o[h])
  <2> SUFFICES ASSUME NEW run \in runs, NEW h \in run PROVE h \in DOMAIN o /\ ~ Capped(o[h])
    OBVIOUS
  <2>1. PICK m \in Heights : run = PeekRerequestRange(c.ledger, m)
    BY DEF OfferedRuns
  <2> QED
    BY <1>1, <2>1, PeekedAreOfferable
<1> HIDE DEF runs
<1>3. \A h \in UNION runs : RunOf(h) \in runs /\ h \in RunOf(h)
  OBVIOUS
<1> HIDE DEF RunOf
<1>4. \A h \in UNION runs : h \in DOMAIN o /\ Offer(c, RunOf(h), pick).outstanding[h] \in Hole
  <2> SUFFICES ASSUME NEW h \in UNION runs
               PROVE  h \in DOMAIN o /\ Offer(c, RunOf(h), pick).outstanding[h] \in Hole
    OBVIOUS
  <2>1. RunOf(h) \in runs /\ h \in RunOf(h)
    BY <1>3
  <2>2. h \in DOMAIN o
    BY <1>2, <2>1
  <2>3. \A k \in RunOf(h) : k \in DOMAIN o /\ ~ Capped(o[k])
    BY <1>2, <2>1
  <2>4. Offer(c, RunOf(h), pick).outstanding \in [DOMAIN o -> Hole]
    BY <2>3, OfferIsHoles
  <2> QED
    BY <2>2, <2>4
<1>5. \A h \in DOMAIN o : o[h] \in Hole
  BY <1>1 DEF IsLedger, HolesIn
<1>6. f \in [DOMAIN o -> Hole]
  BY <1>4, <1>5
<1>7. Rerequest(c, pick) = [c EXCEPT !.ledger = l]
  BY DEF Rerequest, RunOf, runs
<1> HIDE DEF f
<1>8. Safe(l, ev, c.surfacedBelow) /\ Follows(c.ledger, l)
  BY <1>1, <1>6, AskingIsSafe
<1> HIDE DEF l
<1> QED
  BY <1>1, <1>7, <1>8, LedgerStepHolds, WithLedger

(* A whole tick judges only filters that do not match.                     *)
LEMMA TickedHolds ==
  ASSUME NEW c, c = cf, NEW ev, Holds(c, ev), Surroundings, NEW due, NEW aged, NEW busy,
         NEW pick, connected # {} => pick \in connected
  PROVE  LET d == Ticked(due, pick, aged, busy)
         IN \E S \in SUBSET (Heights \ Hits) :
              Holds(d, ev \cup S) /\ Later(c, d) /\ Moves(c, d) /\ d.judged = c.judged \cup S
<1> DEFINE started == [c EXCEPT !.ledger = WithDue(@, due)]
           surfaced == SurfaceBelowFloor(started)
           drained == DrainBuffer(surfaced, aged)
           retired == Retire(drained)
           settled == Valve(retired)
           asked == Rerequest(settled, pick)
           fetched == IF connected = {} THEN asked ELSE ForwardFetch(asked, pick)
           kicked == IF connected = {} THEN fetched
                     ELSE RequestNextCFHeaders(fetched, tip, blockFloor, busy)
           done == [kicked EXCEPT !.ledger = Undue(@)]
<1>1. Ticked(due, pick, aged, busy) = done
  BY DEF Ticked
<1>2. /\ Holds(started, ev) /\ Later(c, started) /\ started.judged = c.judged
      /\ Onwards(c.ledger, started.ledger)
  <2>1. Holds(c, ev)
    OBVIOUS
  <2> QED
    BY <2>1, DueHolds, ZenonT(60)
<1> HIDE DEF started
<1>3. /\ Holds(surfaced, ev) /\ Later(started, surfaced) /\ surfaced.judged = started.judged
      /\ Onwards(started.ledger, surfaced.ledger)
  BY <1>2, SurfaceBelowFloorHolds
<1> HIDE DEF surfaced
<1>4. PICK S \in SUBSET (Heights \ Hits) :
         /\ Holds(drained, ev \cup S) /\ Later(surfaced, drained)
         /\ drained.judged = surfaced.judged \cup S
         /\ Onwards(surfaced.ledger, drained.ledger)
  <2>1. \E S \in SUBSET (Heights \ Hits) :
           /\ Holds(drained, ev \cup S) /\ Later(surfaced, drained)
           /\ drained.judged = surfaced.judged \cup S /\ drained.chain = surfaced.chain
           /\ Onwards(surfaced.ledger, drained.ledger)
    BY <1>3, DrainBufferHolds
  <2> HIDE DEF drained
  <2> QED
    BY <2>1
<1> HIDE DEF drained
<1> DEFINE es == ev \cup S
<1>5. /\ Holds(retired, es) /\ Later(drained, retired) /\ retired.judged = drained.judged
      /\ Onwards(drained.ledger, retired.ledger)
  BY <1>4, RetireHolds
<1> HIDE DEF retired
<1>6. /\ Holds(settled, es) /\ Later(retired, settled) /\ settled.judged = retired.judged
      /\ Onwards(retired.ledger, settled.ledger)
  BY <1>5, ValveHolds
<1> HIDE DEF settled
<1>7. /\ Holds(asked, es) /\ Later(settled, asked) /\ asked.judged = settled.judged
      /\ Onwards(settled.ledger, asked.ledger)
  BY <1>6, RerequestHolds
<1> HIDE DEF asked
<1>8. /\ Holds(fetched, es) /\ Later(asked, fetched) /\ fetched.judged = asked.judged
      /\ Onwards(asked.ledger, fetched.ledger)
  <2>1. CASE connected = {}
    BY <1>7, <2>1, LaterSelf
  <2>2. CASE connected # {}
    <3>1. pick \in Peers
      BY <2>2 DEF Surroundings
    <3> QED
      BY <1>7, <2>2, <3>1, ForwardFetchHolds
  <2> QED
    BY <2>1, <2>2
<1> HIDE DEF fetched
<1>9. /\ Holds(kicked, es) /\ Later(fetched, kicked) /\ kicked.judged = fetched.judged
      /\ Moves(fetched, kicked)
  BY <1>8, LaterSelf, RequestNextHolds, FloorIsHeight DEF Moves
<1> HIDE DEF kicked
<1>10. /\ Holds(done, es) /\ Later(kicked, done) /\ done.judged = kicked.judged
       /\ Onwards(kicked.ledger, done.ledger) /\ (Fresh(kicked) => Fresh(done))
  BY <1>9, DueHolds
<1> HIDE DEF done, es
<1>11. Later(c, drained)
  <2>1. Later(c, surfaced)
    BY <1>2, <1>3, LaterComposes
  <2> QED
    BY <1>3, <1>4, <2>1, LaterComposes DEF es
<1>12. Later(c, settled)
  <2>1. Later(c, retired)
    BY <1>4, <1>5, <1>11, LaterComposes DEF es
  <2> QED
    BY <1>5, <1>6, <2>1, LaterComposes
<1>13. Later(c, fetched)
  <2>1. Later(c, asked)
    BY <1>6, <1>7, <1>12, LaterComposes
  <2> QED
    BY <1>7, <1>8, <2>1, LaterComposes
<1>14. Later(c, done)
  <2>1. Later(c, kicked)
    BY <1>8, <1>9, <1>13, LaterComposes
  <2> QED
    BY <1>9, <1>10, <2>1, LaterComposes
<1>15. done.judged = c.judged \cup S
  BY <1>2, <1>3, <1>4, <1>5, <1>6, <1>7, <1>8, <1>9, <1>10
<1>16. Onwards(c.ledger, settled.ledger)
  <2>1. Onwards(c.ledger, surfaced.ledger)
    BY <1>2, <1>3, OnwardsComposes
  <2>2. Onwards(c.ledger, drained.ledger)
    BY <1>3, <1>4, <2>1, OnwardsComposes DEF es
  <2>3. Onwards(c.ledger, retired.ledger)
    BY <1>4, <1>5, <2>2, OnwardsComposes DEF es
  <2> QED
    BY <1>5, <1>6, <2>3, OnwardsComposes
<1>17. Onwards(c.ledger, fetched.ledger)
  <2>1. Onwards(c.ledger, asked.ledger)
    BY <1>6, <1>7, <1>16, OnwardsComposes
  <2> QED
    BY <1>7, <1>8, <2>1, OnwardsComposes
<1>18. Moves(c, done)
  <2>1. Moves(fetched, done)
    <3>1. CASE Onwards(fetched.ledger, kicked.ledger)
      BY <1>8, <1>9, <1>10, <3>1, OnwardsComposes DEF Moves
    <3>2. CASE Fresh(kicked)
      BY <1>10, <3>2 DEF Moves
    <3> QED
      BY <1>9, <3>1, <3>2 DEF Moves
  <2> QED
    BY <1>8, <1>10, <1>17, <2>1, OnwardsComposes
<1> QED
  BY <1>1, <1>10, <1>14, <1>15, <1>18 DEF es

-----------------------------------------------------------------------------
(* What is written to disk.                                                *)

(* A saved ledger counts nothing from the lowest height on whose           *)
(* confirmation is held in memory only.                                    *)
LEMMA SavedLedgerHolds ==
  ASSUME NEW c, NEW ev, Holds(c, ev), NEW hs, \A e \in hs : e.height \in Heights
  PROVE  LET l == SavedLedger(c, hs)
             kept == ev \ {e.height : e \in hs}
         IN /\ Safe(l, kept, c.surfacedBelow) /\ l.start >= 1
            /\ Settles(kept, c.surfacedBelow, Birth, l.start - 1)
            /\ l.requestedThrough <= c.ledger.requestedThrough
<1> DEFINE unsaved == {e.height : e \in hs}
           kept == ev \ unsaved
           clamped == IF hs = {} THEN c.ledger ELSE RewindTo(c.ledger, Min(unsaved))
           l == Undue(Serialized(clamped))
<1>1. /\ Safe(c.ledger, ev, c.surfacedBelow) /\ c.ledger.start >= 1
      /\ Settles(ev, c.surfacedBelow, Birth, c.ledger.start - 1)
      /\ c.surfacedBelow \in 0..(MaxHeight + 1) /\ ev \subseteq Heights
  BY DEF Holds, Safe
<1>2. /\ c.ledger.start \in Nat /\ c.ledger.requestedThrough \in Nat /\ c.surfacedBelow \in Nat
      /\ Birth \in Nat
  BY HoldsNumbers
<1>3. /\ Safe(clamped, kept, c.surfacedBelow) /\ clamped.start >= 1
      /\ Settles(kept, c.surfacedBelow, Birth, clamped.start - 1)
      /\ clamped.requestedThrough <= c.ledger.requestedThrough
  <2>1. CASE hs = {}
    <3>1. kept = ev /\ clamped = c.ledger
      BY <2>1
    <3> HIDE DEF kept, clamped
    <3>2. c.ledger.requestedThrough <= c.ledger.requestedThrough
      BY <1>2
    <3> QED
      BY <1>1, <3>1, <3>2
  <2>2. CASE hs # {}
    <3> DEFINE m == Min(unsaved)
               below == {h \in ev : h < m}
    <3>1. m \in Heights /\ \A y \in unsaved : m <= y
      <4>1. unsaved \in SUBSET Nat /\ unsaved # {} /\ unsaved \subseteq Heights
        BY <2>2 DEF Heights
      <4> QED
        BY <4>1, MinIsLeast
    <3>2. m \in Nat /\ 1 <= m /\ \A y \in unsaved : y \in Nat
      BY <3>1 DEF Heights
    <3> HIDE DEF m
    <3>3. clamped = RewindTo(c.ledger, m)
      BY <2>2 DEF m
    <3>4. /\ Safe(clamped, below, c.surfacedBelow)
          /\ clamped.start = Smaller(c.ledger.start, m)
          /\ clamped.requestedThrough = Smaller(c.ledger.requestedThrough, m - 1)
      BY <1>1, <3>1, <3>3, RewindToIsSafe
    <3>5. below \subseteq kept /\ kept \subseteq Heights
      <4>1. \A h \in below : h \in Nat /\ h < m
        BY <1>1 DEF Heights
      <4>2. \A h \in below : h \notin unsaved
        BY <3>1, <3>2, <4>1
      <4> QED
        BY <1>1, <4>2
    <3> HIDE DEF clamped, kept
    <3>6. Safe(clamped, kept, c.surfacedBelow)
      <4>1. c.surfacedBelow <= c.surfacedBelow
        BY <1>2
      <4> QED
        BY <1>1, <3>4, <3>5, <4>1, SafeIsMonotone
    <3>7. clamped.start \in Nat /\ clamped.start >= 1 /\ clamped.start <= c.ledger.start /\ clamped.start <= m
      BY <1>1, <1>2, <3>2, <3>4 DEF Smaller
    <3>8. Settles(kept, c.surfacedBelow, Birth, clamped.start - 1)
      BY <1>1, <1>2, <3>2, <3>5, <3>7 DEF Settles
    <3>9. clamped.requestedThrough <= c.ledger.requestedThrough
      BY <1>2, <3>2, <3>4 DEF Smaller
    <3> QED
      BY <3>6, <3>7, <3>8, <3>9
  <2> QED
    BY <2>1, <2>2
<1> HIDE DEF clamped, kept
<1>4. Safe(Serialized(clamped), kept, c.surfacedBelow) /\ Follows(clamped, Serialized(clamped))
  BY <1>3, SerializedIsSafe
<1>5. \A m : Safe(m, kept, c.surfacedBelow) =>
         Safe(Undue(m), kept, c.surfacedBelow) /\ Follows(m, Undue(m))
  <2> SUFFICES ASSUME NEW m, Safe(m, kept, c.surfacedBelow)
               PROVE  Safe(Undue(m), kept, c.surfacedBelow) /\ Follows(m, Undue(m))
    OBVIOUS
  <2> DEFINE f == [h \in DOMAIN m.outstanding |-> [m.outstanding[h] EXCEPT !.due = FALSE]]
  <2>1. \A h \in DOMAIN m.outstanding : m.outstanding[h] \in Hole
    BY DEF Safe, IsLedger, HolesIn
  <2>2. \A e \in Hole : [e EXCEPT !.due = FALSE] \in Hole
    BY DEF Hole
  <2>3. f \in [DOMAIN m.outstanding -> Hole]
    BY <2>1, <2>2
  <2>4. Undue(m) = [m EXCEPT !.outstanding = f]
    BY DEF Undue
  <2> HIDE DEF f
  <2> QED
    BY <2>3, <2>4, AskingIsSafe
<1>6. Safe(l, kept, c.surfacedBelow) /\ Follows(Serialized(clamped), l)
  BY <1>4, <1>5
<1>7. l.start = clamped.start /\ l.requestedThrough = clamped.requestedThrough
  BY <1>4, <1>6 DEF Follows, Onwards
<1>8. l = SavedLedger(c, hs)
  BY DEF SavedLedger, clamped
<1> QED
  BY <1>3, <1>6, <1>7, <1>8 DEF kept

-----------------------------------------------------------------------------
(* Reorganisations.                                                        *)

(* The scan forgets f and above, and its cursor is brought back to f.      *)
LEMMA RewoundHolds ==
  ASSUME NEW c, NEW ev, Holds(c, ev), NEW f \in Heights, NEW d, IsRecord(d),
         d.ledger = RewindTo(c.ledger, f),
         d.solicited \subseteq c.solicited, d.buffered = c.buffered, d.judged = c.judged,
         d.surfacedBelow = c.surfacedBelow,
         d.autoStart \in 1..(MaxHeight + 1), d.autoThrough \in 0..MaxHeight, IsChain(d.chain),
         d.autoStart <= f, d.autoStart <= c.autoStart, d.autoThrough + 1 <= f,
         d.autoThrough <= c.autoThrough \/ d.autoThrough + 1 <= c.autoStart,
         d.chain = NoChain => c.chain = NoChain /\ d.autoStart = f,
         d.chain # NoChain => f <= d.chain.next,
         NEW ev2, ev2 \subseteq Heights, \A h \in ev : h < f => h \in ev2
  PROVE  /\ Holds(d, ev2)
         /\ Tight(c) => Tight(d)
         /\ Anchored(c) => Anchored(d)
         /\ d.ledger.start = Smaller(c.ledger.start, f)
         /\ d.ledger.scannedThrough >= Smaller(c.ledger.scannedThrough, f - 1)
         /\ d.ledger.requestedThrough + 1 <= f
<1> DEFINE l == c.ledger
           m == d.ledger
           below == {h \in ev : h < f}
<1>1. /\ MaxHeight \in Nat /\ f \in Nat /\ 1 <= f
      /\ c.autoStart \in Nat /\ c.autoThrough \in Nat /\ c.surfacedBelow \in Nat /\ Birth \in Nat
      /\ l.start \in Nat /\ 1 <= l.start /\ l.scannedThrough \in Nat /\ l.requestedThrough \in Nat
      /\ l.scannedThrough <= l.requestedThrough
      /\ d.autoStart \in Nat /\ d.autoThrough \in Nat
  <2>1. MaxHeight \in Nat
    BY LedgerConstants
  <2>2. d.autoStart \in Nat /\ d.autoThrough \in Nat /\ f \in Nat /\ 1 <= f
    BY <2>1 DEF Heights
  <2> QED
    BY <2>1, <2>2, HoldsNumbers
<1>2. /\ Safe(l, ev, c.surfacedBelow)
      /\ Settles(ev, c.surfacedBelow, Birth, l.start - 1)
      /\ Settles(ev, c.surfacedBelow, l.requestedThrough + 1, NextForward(c) - 1)
      /\ c.solicited \subseteq Heights /\ c.buffered \subseteq Heights /\ c.judged \subseteq Heights
      /\ c.chain = NoChain => c.solicited = {}
  BY DEF Holds
<1>3. /\ Safe(m, below, c.surfacedBelow)
      /\ m.start = Smaller(l.start, f)
      /\ m.scannedThrough >= Smaller(l.scannedThrough, f - 1)
      /\ m.requestedThrough = Smaller(l.requestedThrough, f - 1)
      /\ HolesOf(m) \subseteq HolesOf(l)
  <2>1. m = RewindTo(l, f)
    OBVIOUS
  <2> HIDE DEF m, l
  <2>2. /\ Safe(RewindTo(l, f), below, c.surfacedBelow)
        /\ RewindTo(l, f).start = Smaller(l.start, f)
        /\ RewindTo(l, f).scannedThrough >= Smaller(l.scannedThrough, f - 1)
        /\ RewindTo(l, f).requestedThrough = Smaller(l.requestedThrough, f - 1)
        /\ HolesOf(RewindTo(l, f)) \subseteq HolesOf(l)
    BY <1>2, RewindToIsSafe
  <2> QED
    BY <2>1, <2>2
<1>4. m.scannedThrough \in Nat /\ m.requestedThrough \in Nat /\ m.start \in Nat
  BY <1>3, LedgerConstants DEF Safe, IsLedger
<1> HIDE DEF l, m
<1>5. Safe(m, ev2, c.surfacedBelow)
  <2>1. c.surfacedBelow <= c.surfacedBelow /\ c.surfacedBelow \in 0..(MaxHeight + 1)
    BY <1>1, <1>2 DEF Safe
  <2> QED
    BY <1>3, <2>1, SafeIsMonotone
<1>6. /\ NextForward(c) \in Nat /\ NextForward(d) \in Nat
      /\ NextForward(d) <= f /\ NextForward(d) <= NextForward(c)
  BY <1>1 DEF NextForward, Larger
<1>7. Settles(ev2, c.surfacedBelow, Birth, m.start - 1)
  BY <1>1, <1>2, <1>3 DEF Settles, Smaller
<1>8. Settles(ev2, c.surfacedBelow, m.requestedThrough + 1, NextForward(d) - 1)
  BY <1>1, <1>2, <1>3, <1>6 DEF Settles, Smaller
<1>9. m.start >= 1
  BY <1>1, <1>3 DEF Smaller
<1>10. Holds(d, ev2)
  <2>1. d.solicited \subseteq Heights /\ (d.chain = NoChain => d.solicited = {})
    BY <1>2
  <2> QED
    BY <1>2, <1>5, <1>7, <1>8, <1>9, <2>1 DEF Holds, m
<1>11. ASSUME Tight(c) PROVE Tight(d)
  <2>1. /\ c.autoStart <= Larger(l.scannedThrough + 1, c.surfacedBelow)
        /\ c.autoThrough + 1 <= Larger(l.requestedThrough + 1, c.surfacedBelow)
    BY <1>11 DEF Tight, l
  <2>2. d.autoStart <= Larger(m.scannedThrough + 1, c.surfacedBelow)
    BY <1>1, <1>3, <1>4, <2>1 DEF Larger, Smaller
  <2>3. d.autoThrough + 1 <= Larger(m.requestedThrough + 1, c.surfacedBelow)
    BY <1>1, <1>3, <1>4, <2>1 DEF Larger, Smaller
  <2> QED
    BY <2>2, <2>3 DEF Tight, m
<1>12. ASSUME Anchored(c) PROVE Anchored(d)
  <2>1. f <= Anchor(d) /\ Anchor(d) \in Nat
    <3>1. d.chain # NoChain => d.chain.next \in Nat
      BY <1>1 DEF IsChain, Chain
    <3> QED
      BY <1>1, <3>1 DEF Anchor
  <2>2. m.requestedThrough + 1 <= f
    BY <1>1, <1>3 DEF Smaller
  <2>3. d.chain = NoChain => HolesOf(m) = {}
    BY <1>3, <1>12 DEF Anchored, l
  <2> QED
    BY <1>1, <1>4, <1>6, <2>1, <2>2, <2>3 DEF Anchored, Larger, m
<1>13. m.requestedThrough + 1 <= f
  BY <1>1, <1>3 DEF Smaller
<1> QED
  BY <1>3, <1>10, <1>11, <1>12, <1>13 DEF l, m

(* What is counted is below the anchor, so a fork at or above it voids     *)
(* nothing that was.                                                       *)
LEMMA AnchoredLosesNothing ==
  ASSUME NEW c, NEW ev, Holds(c, ev), Anchored(c), NEW f \in Nat, Anchor(c) <= f,
         NEW ev2, ev2 \subseteq Heights, \A h \in ev : h < f => h \in ev2
  PROVE  Holds(c, ev2)
<1>1. /\ MaxHeight \in Nat
      /\ c.autoStart \in Nat /\ c.autoThrough \in Nat /\ c.surfacedBelow \in Nat /\ Birth \in Nat
      /\ c.ledger.start \in Nat /\ c.ledger.requestedThrough \in Nat
      /\ c.ledger.start <= c.ledger.requestedThrough + 1 /\ c.chain.next \in Nat
  BY HoldsNumbers
<1>2. NextForward(c) \in Nat /\ Anchor(c) \in Nat
  BY <1>1 DEF NextForward, Anchor, Larger
<1>3. /\ NextForward(c) <= f \/ NextForward(c) <= c.surfacedBelow
      /\ c.ledger.requestedThrough + 1 <= f \/ c.ledger.requestedThrough + 1 <= c.surfacedBelow
  BY <1>1, <1>2 DEF Anchored, Larger
<1>4. Safe(c.ledger, ev2, c.surfacedBelow)
  <2>1. c.surfacedBelow <= c.surfacedBelow /\ c.surfacedBelow \in 0..(MaxHeight + 1)
    BY <1>1 DEF Holds, Safe
  <2>2. \A h \in c.ledger.start..c.ledger.requestedThrough : h \in ev => h \in ev2 \/ h < c.surfacedBelow
    BY <1>1, <1>3
  <2>3. Safe(c.ledger, ev, c.surfacedBelow)
    BY DEF Holds
  <2> QED
    BY <2>1, <2>2, <2>3, SafeIsMonotone
<1>5. Settles(ev2, c.surfacedBelow, Birth, c.ledger.start - 1)
  BY <1>1, <1>3 DEF Holds, Settles
<1>6. Settles(ev2, c.surfacedBelow, c.ledger.requestedThrough + 1, NextForward(c) - 1)
  BY <1>1, <1>2, <1>3 DEF Holds, Settles
<1> QED
  BY <1>4, <1>5, <1>6 DEF Holds

(* The fields of a scan state that forgets.                                *)
LEMMA ForgetFields ==
  ASSUME NEW c, IsRecord(c), NEW f
  PROVE  LET d == Forget(c, f)
         IN /\ IsRecord(d) /\ d.ledger = RewindTo(c.ledger, f)
            /\ d.solicited \subseteq c.solicited
            /\ d.autoStart = c.autoStart /\ d.autoThrough = c.autoThrough /\ d.chain = c.chain
            /\ d.buffered = c.buffered /\ d.judged = c.judged /\ d.surfacedBelow = c.surfacedBelow
  BY DEF Forget, IsRecord, Fields

(* The fields of a scan state whose cursor is aimed.                       *)
LEMMA AimFields ==
  ASSUME NEW c, IsRecord(c), NEW x, NEW y
  PROVE  LET d == [c EXCEPT !.autoStart = x, !.autoThrough = y]
         IN /\ IsRecord(d) /\ d.autoStart = x /\ d.autoThrough = y
            /\ d.ledger = c.ledger /\ d.solicited = c.solicited /\ d.chain = c.chain
            /\ d.buffered = c.buffered /\ d.judged = c.judged /\ d.surfacedBelow = c.surfacedBelow
  BY DEF IsRecord, Fields

(* Below the filter-header chain the scan is rebuilt at the floor: first   *)
(* what is below is reported, then the scan starts over.                   *)
Rebuilt(c, t, floor) ==
    LET first == ReanchorAtFloor(c, t, floor, FALSE)
        second == ReanchorAtFloor(first, t, floor, FALSE)
        surfaced == first.ledger.abandonedBelow
    IN IF first.chain # NoChain /\ second.chain = NoChain
          /\ surfaced > second.ledger.abandonedBelow
          /\ surfaced <= second.ledger.start
       THEN [second EXCEPT !.ledger.abandonedBelow = surfaced] ELSE second

LEMMA RebuiltHolds ==
  ASSUME NEW c, NEW ev, Holds(c, ev), NEW t, NEW floor \in 1..(MaxHeight + 1)
  PROVE  LET d == Rebuilt(c, t, floor)
         IN /\ Holds(d, ev) /\ Later(c, d) /\ d.judged = c.judged
            /\ Moves(c, d) /\ AsksNoMore(c, d)
<1> DEFINE first == ReanchorAtFloor(c, t, floor, FALSE)
           second == ReanchorAtFloor(first, t, floor, FALSE)
           surfaced == first.ledger.abandonedBelow
           l == [second.ledger EXCEPT !.abandonedBelow = surfaced]
           d == [second EXCEPT !.ledger = l]
<1>1. /\ Holds(first, ev) /\ Later(c, first) /\ first.judged = c.judged
      /\ Moves(c, first) /\ AsksNoMore(c, first)
      /\ first.chain # NoChain => Onwards(c.ledger, first.ledger)
  BY ReanchorHolds, ZenonT(60)
<1> HIDE DEF first
<1>2. /\ Holds(second, ev) /\ Later(first, second) /\ second.judged = first.judged
      /\ Moves(first, second) /\ AsksNoMore(first, second)
      /\ first.chain = NoChain => second = first
  <2>1. /\ Holds(second, ev) /\ Later(first, second) /\ second.judged = first.judged
        /\ Moves(first, second) /\ AsksNoMore(first, second)
    <3>1. Holds(first, ev)
      BY <1>1
    <3> QED
      BY <3>1, ReanchorHolds, ZenonT(60)
  <2>2. first.chain = NoChain => second = first
    BY DEF ReanchorAtFloor
  <2> QED
    BY <2>1, <2>2
<1> HIDE DEF second
<1>3. Later(c, second) /\ Moves(c, second) /\ AsksNoMore(c, second)
  <2>1. Later(c, second) /\ AsksNoMore(c, second)
    BY <1>1, <1>2, LaterComposes, AsksNoMoreComposes
  <2>2. Moves(c, second)
    BY <1>1, <1>2, OnwardsComposes
  <2> QED
    BY <2>1, <2>2
<1>4. Safe(second.ledger, ev, second.surfacedBelow) /\ IsLedger(second.ledger)
  BY <1>2 DEF Holds, Safe
<1>5. surfaced \in 0..(MaxHeight + 1) /\ surfaced <= second.surfacedBelow
  <2>1. surfaced \in 0..(MaxHeight + 1)
    BY <1>1 DEF Holds, Safe, IsLedger
  <2>2. surfaced \in Nat /\ surfaced <= first.surfacedBelow /\ first.surfacedBelow \in Nat
        /\ second.surfacedBelow \in Nat
    BY <1>1, <1>2, HoldsNumbers
  <2> QED
    BY <1>2, <2>1, <2>2 DEF Later
<1> HIDE DEF surfaced
<1>6. /\ IsLedger(l) /\ l.start = second.ledger.start /\ l.scannedThrough = second.ledger.scannedThrough
      /\ l.requestedThrough = second.ledger.requestedThrough /\ l.abandonedBelow = surfaced
      /\ HolesOf(l) = HolesOf(second.ledger)
  <2> DEFINE k == second.ledger
             m == Ledger(k.start, k.scannedThrough, k.requestedThrough, surfaced, k.outstanding, k.gaveUp)
  <2>1. l = m
    <3>1. k = Ledger(k.start, k.scannedThrough, k.requestedThrough, k.abandonedBelow,
                     k.outstanding, k.gaveUp)
      BY <1>4, LedgerOf
    <3> QED
      BY <3>1, LedgerWithAbandoned
  <2>2. /\ k.start \in 0..(MaxHeight + 1) /\ k.scannedThrough \in 0..MaxHeight
        /\ k.requestedThrough \in 0..MaxHeight
        /\ HolesIn(k.outstanding, Hole) /\ HolesIn(k.gaveUp, ParkedHole)
    BY <1>4 DEF IsLedger
  <2>3. IsLedger(m)
    BY <1>5, <2>2, LedgerIsLedger
  <2> HIDE DEF l
  <2> QED
    BY <2>1, <2>3, LedgerFields DEF HolesOf
<1> HIDE DEF l
<1>7. Safe(l, ev, second.surfacedBelow)
  BY <1>4, <1>5, <1>6 DEF Safe
<1>8. Follows(second.ledger, l)
  <2>1. second.ledger.scannedThrough \in Nat
    BY <1>2, HoldsNumbers
  <2> QED
    BY <1>6, <2>1 DEF Follows, Onwards
<1>9. Holds(d, ev) /\ Later(second, d) /\ d.judged = second.judged
  BY <1>2, <1>7, <1>8, LedgerStepHolds, WithLedger DEF Holds
<1>12. /\ d.ledger.start = second.ledger.start
       /\ d.ledger.scannedThrough = second.ledger.scannedThrough
       /\ d.ledger.requestedThrough = second.ledger.requestedThrough
  <2>1. d.ledger = l
    BY <1>2, WithLedger DEF Holds
  <2> QED
    BY <1>6, <2>1
<1> HIDE DEF d
<1>10. Later(c, d)
  BY <1>2, <1>3, <1>9, LaterComposes
<1>13. Moves(c, d)
  BY <1>3, <1>12 DEF Moves, Onwards, Fresh
<1>14. AsksNoMore(c, d)
  <2>1. /\ c.ledger.requestedThrough \in Nat /\ d.ledger.requestedThrough \in Nat
        /\ second.surfacedBelow \in Nat /\ d.surfacedBelow \in Nat
    BY <1>2, <1>9, HoldsNumbers
  <2> QED
    BY <1>3, <1>9, <1>12, <2>1 DEF AsksNoMore, Later, Larger
<1>11. Rebuilt(c, t, floor) \in {second, d}
  BY DEF Rebuilt, first, second, surfaced, l, d
<1> QED
  BY <1>1, <1>2, <1>3, <1>9, <1>10, <1>11, <1>13, <1>14

(* What a reorganisation makes of a scan state, and of what it saves.      *)
Refollowed(c, ev, r) ==
    /\ Holds(r.cf, ev) /\ r.cf.judged = c.judged /\ c.surfacedBelow <= r.cf.surfacedBelow
    /\ Tight(c) => Tight(r.cf)
    /\ Anchored(c) => Anchored(r.cf)
    /\ \A s \in r.saved : Holds(s, ev) /\ s.surfacedBelow <= r.cf.surfacedBelow

(* A step that forgets, is saved, and may be followed by another.          *)
LEMMA SavedThenLater ==
  ASSUME NEW c, NEW s, NEW d, NEW ev, NEW eo, Holds(c, eo), Holds(s, ev), Holds(d, ev),
         Later(s, d), s.surfacedBelow = c.surfacedBelow,
         s.judged = c.judged, d.judged = s.judged,
         Tight(c) => Tight(s), Anchored(c) => Anchored(s)
  PROVE  Refollowed(c, ev, [cf |-> d, saved |-> {s}])
  BY DEF Refollowed, Later

(* A fork at f, above the lowest block in memory.  What was counted from f *)
(* on is forgotten; where nothing is forgotten, either nothing is void     *)
(* (ev2 keeps every verdict) or nothing from f on was counted.             *)
LEMMA FollowReorgHolds ==
  ASSUME NEW c, NEW ev, Holds(c, ev), NEW t, NEW floor \in 1..(MaxHeight + 1),
         NEW f \in Heights, floor < f,
         NEW ev2, ev2 \subseteq Heights, \A h \in ev : h < f => h \in ev2,
         ev \subseteq ev2 \/ Anchored(c)
  PROVE  /\ Refollowed(c, ev2, FollowReorg(c, f, t, floor))
         /\ Rewinds(c, FollowReorg(c, f, t, floor).cf, f)
<1> DEFINE Kicked(d) == IF connected = {} THEN d ELSE RequestNextCFHeaders(d, t, floor, FALSE)
           forgot == Forget(c, f)
           chainless == [forgot EXCEPT !.autoStart = f, !.autoThrough = f - 1]
           rewound == [forgot EXCEPT !.autoThrough = Smaller(@, f - 1), !.autoStart = Smaller(@, f)]
           truncated == [rewound EXCEPT !.chain.next = f]
           r == FollowReorg(c, f, t, floor)
<1>1. Larger(f, floor) = f /\ f \in Nat /\ 1 <= f /\ MaxHeight \in Nat /\ f <= MaxHeight
  BY LedgerConstants, SMTT(60) DEF Larger, Heights
<1>2. \/ /\ (c.chain = NoChain /\ f >= c.autoStart) \/ (c.chain # NoChain /\ c.chain.next <= f)
         /\ r = [cf |-> c, saved |-> {}]
      \/ /\ c.chain = NoChain /\ ~ (f >= c.autoStart)
         /\ r = [cf |-> Kicked(chainless), saved |-> {chainless}]
      \/ /\ c.chain # NoChain /\ ~ (c.chain.next <= f) /\ f >= c.chain.start
         /\ r = [cf |-> Kicked(truncated), saved |-> {truncated}]
      \/ /\ c.chain # NoChain /\ ~ (c.chain.next <= f)
         /\ r = [cf |-> Rebuilt(rewound, t, floor), saved |-> {Rebuilt(rewound, t, floor)}]
  BY <1>1 DEF FollowReorg, Rebuilt
<1> HIDE DEF r
<1>3. /\ c.autoStart \in Nat /\ 1 <= c.autoStart /\ c.autoStart <= MaxHeight + 1
      /\ c.autoThrough \in Nat /\ c.autoThrough <= MaxHeight
      /\ c.chain.start \in Nat /\ c.chain.next \in Nat /\ c.chain.next <= MaxHeight + 1
      /\ c.chain # NoChain => 1 <= c.chain.start
      /\ c.surfacedBelow \in Nat
  BY HoldsNumbers
<1>4. /\ IsRecord(forgot) /\ forgot.ledger = RewindTo(c.ledger, f)
      /\ forgot.solicited \subseteq c.solicited
      /\ forgot.autoStart = c.autoStart /\ forgot.autoThrough = c.autoThrough
      /\ forgot.chain = c.chain /\ forgot.buffered = c.buffered /\ forgot.judged = c.judged
      /\ forgot.surfacedBelow = c.surfacedBelow
  BY ForgetFields DEF Holds
<1> HIDE DEF forgot
<1>5. /\ IsRecord(chainless) /\ chainless.autoStart = f /\ chainless.autoThrough = f - 1
      /\ chainless.ledger = RewindTo(c.ledger, f) /\ chainless.solicited \subseteq c.solicited
      /\ chainless.chain = c.chain /\ chainless.buffered = c.buffered
      /\ chainless.judged = c.judged /\ chainless.surfacedBelow = c.surfacedBelow
  BY <1>4 DEF IsRecord, Fields
<1>6. /\ IsRecord(rewound) /\ rewound.autoStart = Smaller(c.autoStart, f)
      /\ rewound.autoThrough = Smaller(c.autoThrough, f - 1)
      /\ rewound.ledger = RewindTo(c.ledger, f) /\ rewound.solicited \subseteq c.solicited
      /\ rewound.chain = c.chain /\ rewound.buffered = c.buffered
      /\ rewound.judged = c.judged /\ rewound.surfacedBelow = c.surfacedBelow
  BY <1>4 DEF IsRecord, Fields
<1> HIDE DEF chainless, rewound
<1>7. /\ IsRecord(truncated) /\ truncated.autoStart = rewound.autoStart
      /\ truncated.autoThrough = rewound.autoThrough
      /\ truncated.ledger = RewindTo(c.ledger, f) /\ truncated.solicited \subseteq c.solicited
      /\ truncated.chain = [c.chain EXCEPT !.next = f] /\ truncated.buffered = c.buffered
      /\ truncated.judged = c.judged /\ truncated.surfacedBelow = c.surfacedBelow
  BY <1>6 DEF IsRecord, Fields
<1> HIDE DEF truncated
<1>8. IsChain(c.chain) /\ c.chain \in Chain
  BY DEF Holds, IsChain
<1>9. /\ rewound.autoStart \in 1..(MaxHeight + 1) /\ rewound.autoThrough \in 0..MaxHeight
      /\ rewound.autoStart <= f /\ rewound.autoStart <= c.autoStart
      /\ rewound.autoThrough + 1 <= f /\ rewound.autoThrough <= c.autoThrough
  BY <1>1, <1>3, <1>6 DEF Smaller
<1>10. \A d, e : Holds(d, e) => /\ Holds(Kicked(d), e) /\ Later(d, Kicked(d))
                                /\ Kicked(d).judged = d.judged
                                /\ Moves(d, Kicked(d)) /\ AsksNoMore(d, Kicked(d))
  <2> SUFFICES ASSUME NEW d, NEW e, Holds(d, e)
               PROVE  /\ Holds(Kicked(d), e) /\ Later(d, Kicked(d)) /\ Kicked(d).judged = d.judged
                      /\ Moves(d, Kicked(d)) /\ AsksNoMore(d, Kicked(d))
    OBVIOUS
  <2>1. Kicked(d) = d \/ Kicked(d) = RequestNextCFHeaders(d, t, floor, FALSE)
    OBVIOUS
  <2> HIDE DEF Kicked
  <2> DEFINE b == FALSE
             k == RequestNextCFHeaders(d, t, floor, b)
  <2> HIDE DEF b
  <2>2. /\ Holds(k, e) /\ Later(d, k) /\ k.judged = d.judged
        /\ Moves(d, k) /\ AsksNoMore(d, k)
    BY RequestNextHolds
  <2> QED
    BY <2>1, <2>2, LaterSelf DEF b, Moves
<1> HIDE DEF Kicked
<1>11. CASE /\ (c.chain = NoChain /\ f >= c.autoStart) \/ (c.chain # NoChain /\ c.chain.next <= f)
            /\ r = [cf |-> c, saved |-> {}]
  <2>1. Anchor(c) <= f
    BY <1>3, <1>11 DEF Anchor
  <2>4. Rewinds(c, c, f)
    <3>1. c.ledger.scannedThrough \in Nat
      BY HoldsNumbers
    <3> QED
      BY <1>1, <3>1 DEF Rewinds, Smaller
  <2>2. CASE Anchored(c)
    <3>1. Holds(c, ev2)
      BY <1>1, <2>1, <2>2, AnchoredLosesNothing
    <3> QED
      BY <1>3, <1>11, <2>4, <3>1 DEF Refollowed, r
  <2>3. CASE ev \subseteq ev2
    <3>1. Safe(c.ledger, ev2, c.surfacedBelow)
      <4>1. c.surfacedBelow <= c.surfacedBelow /\ c.surfacedBelow \in 0..(MaxHeight + 1)
        BY <1>3 DEF Holds, Safe
      <4>2. Safe(c.ledger, ev, c.surfacedBelow)
        BY DEF Holds
      <4> QED
        BY <2>3, <4>1, <4>2, SafeIsMonotone
    <3>2. /\ Settles(ev2, c.surfacedBelow, Birth, c.ledger.start - 1)
          /\ Settles(ev2, c.surfacedBelow, c.ledger.requestedThrough + 1, NextForward(c) - 1)
      BY <2>3 DEF Holds, Settles
    <3>3. Holds(c, ev2)
      BY <3>1, <3>2 DEF Holds
    <3> QED
      BY <1>3, <1>11, <2>4, <3>3 DEF Refollowed, r
  <2> QED
    BY <2>2, <2>3
<1>12. CASE /\ c.chain = NoChain /\ ~ (f >= c.autoStart)
            /\ r = [cf |-> Kicked(chainless), saved |-> {chainless}]
  <2>1. /\ chainless.autoStart \in 1..(MaxHeight + 1) /\ chainless.autoThrough \in 0..MaxHeight
        /\ chainless.autoStart <= f /\ chainless.autoStart <= c.autoStart
        /\ chainless.autoThrough + 1 <= f /\ chainless.autoThrough + 1 <= c.autoStart
    BY <1>1, <1>3, <1>5, <1>12
  <2>2. /\ Holds(chainless, ev2) /\ (Tight(c) => Tight(chainless)) /\ (Anchored(c) => Anchored(chainless))
        /\ chainless.ledger.start = Smaller(c.ledger.start, f)
        /\ chainless.ledger.scannedThrough >= Smaller(c.ledger.scannedThrough, f - 1)
        /\ chainless.ledger.requestedThrough + 1 <= f
    BY <1>5, <1>8, <1>12, <2>1, RewoundHolds
  <2> DEFINE d == Kicked(chainless)
  <2>3. /\ Holds(d, ev2) /\ Later(chainless, d) /\ d.judged = chainless.judged
        /\ Moves(chainless, d) /\ AsksNoMore(chainless, d)
    BY <1>10, <2>2
  <2> HIDE DEF d
  <2>4. Rewinds(c, d, f)
    BY <1>1, <2>2, <2>3, RewindsThenMoves
  <2>5. Refollowed(c, ev2, [cf |-> d, saved |-> {chainless}])
    BY <1>5, <2>2, <2>3, SavedThenLater
  <2> QED
    BY <1>12, <2>4, <2>5 DEF r, d
<1>13. CASE /\ c.chain # NoChain /\ ~ (c.chain.next <= f) /\ f >= c.chain.start
            /\ r = [cf |-> Kicked(truncated), saved |-> {truncated}]
  <2>1. /\ IsChain(truncated.chain) /\ truncated.chain # NoChain /\ truncated.chain.next = f
    <3>1. /\ truncated.chain \in Chain /\ truncated.chain.start = c.chain.start
          /\ truncated.chain.next = f
      BY <1>1, <1>7, <1>8 DEF Chain
    <3>2. truncated.chain # NoChain
      BY <1>1, <3>1 DEF NoChain
    <3> QED
      BY <1>3, <1>13, <3>1, <3>2 DEF IsChain
  <2>2. f <= truncated.chain.next
    BY <1>1, <2>1
  <2>3. /\ truncated.autoStart \in 1..(MaxHeight + 1) /\ truncated.autoThrough \in 0..MaxHeight
        /\ truncated.autoStart <= f /\ truncated.autoStart <= c.autoStart
        /\ truncated.autoThrough + 1 <= f /\ truncated.autoThrough <= c.autoThrough
    BY <1>7, <1>9
  <2>4. /\ Holds(truncated, ev2) /\ (Tight(c) => Tight(truncated)) /\ (Anchored(c) => Anchored(truncated))
        /\ truncated.ledger.start = Smaller(c.ledger.start, f)
        /\ truncated.ledger.scannedThrough >= Smaller(c.ledger.scannedThrough, f - 1)
        /\ truncated.ledger.requestedThrough + 1 <= f
    <3>1. /\ IsRecord(truncated) /\ truncated.ledger = RewindTo(c.ledger, f)
          /\ truncated.solicited \subseteq c.solicited /\ truncated.buffered = c.buffered
          /\ truncated.judged = c.judged /\ truncated.surfacedBelow = c.surfacedBelow
          /\ IsChain(truncated.chain) /\ truncated.chain # NoChain
      BY <1>7, <2>1
    <3> QED
      BY <2>2, <2>3, <3>1, RewoundHolds
  <2> DEFINE d == Kicked(truncated)
  <2>5. /\ Holds(d, ev2) /\ Later(truncated, d) /\ d.judged = truncated.judged
        /\ Moves(truncated, d) /\ AsksNoMore(truncated, d)
    BY <1>10, <2>4
  <2> HIDE DEF d
  <2>6. Rewinds(c, d, f)
    BY <1>1, <2>4, <2>5, RewindsThenMoves
  <2>7. Refollowed(c, ev2, [cf |-> d, saved |-> {truncated}])
    BY <1>7, <2>4, <2>5, SavedThenLater
  <2> QED
    BY <1>13, <2>6, <2>7 DEF r, d
<1>14. CASE /\ c.chain # NoChain /\ ~ (c.chain.next <= f)
            /\ r = [cf |-> Rebuilt(rewound, t, floor), saved |-> {Rebuilt(rewound, t, floor)}]
  <2>1. f <= rewound.chain.next
    BY <1>1, <1>3, <1>6, <1>14
  <2>2. /\ Holds(rewound, ev2) /\ (Tight(c) => Tight(rewound)) /\ (Anchored(c) => Anchored(rewound))
        /\ rewound.ledger.start = Smaller(c.ledger.start, f)
        /\ rewound.ledger.scannedThrough >= Smaller(c.ledger.scannedThrough, f - 1)
        /\ rewound.ledger.requestedThrough + 1 <= f
    <3>1. IsChain(rewound.chain) /\ rewound.chain # NoChain
      BY <1>6, <1>8, <1>14
    <3> QED
      BY <1>6, <1>9, <2>1, <3>1, RewoundHolds
  <2> DEFINE d == Rebuilt(rewound, t, floor)
  <2>3. /\ Holds(d, ev2) /\ Later(rewound, d) /\ d.judged = rewound.judged
        /\ Moves(rewound, d) /\ AsksNoMore(rewound, d)
    BY <2>2, RebuiltHolds
  <2> HIDE DEF d
  <2>4. d.surfacedBelow \in Nat
    BY <2>3, HoldsNumbers
  <2>5. Refollowed(c, ev2, [cf |-> d, saved |-> {d}])
    BY <1>6, <2>2, <2>3, <2>4 DEF Refollowed, Later
  <2>6. Rewinds(c, d, f)
    BY <1>1, <2>2, <2>3, RewindsThenMoves
  <2> QED
    BY <1>14, <2>5, <2>6 DEF r, d
<1> QED
  BY <1>2, <1>11, <1>12, <1>13, <1>14

-----------------------------------------------------------------------------
(* A grown address set, and starting up.                                   *)

(* The scan goes back to `from`, and the cursor with it, except that a     *)
(* cursor aimed above `from` stays: ev2 must settle what it skips.         *)
LEMMA RescanHolds ==
  ASSUME NEW c, NEW ev, Holds(c, ev), NEW from \in Heights, from <= c.ledger.requestedThrough,
         NEW ev2, ev2 \subseteq Heights, \A h \in ev : h < from => h \in ev2 \/ h < c.surfacedBelow,
         Settles(ev2, c.surfacedBelow, from, c.autoStart - 1)
  PROVE  LET d == [c EXCEPT !.ledger = RewindTo(@, from), !.autoThrough = Smaller(@, from - 1)]
         IN /\ Holds(d, ev2) /\ d.judged = c.judged /\ d.chain = c.chain
            /\ d.surfacedBelow = c.surfacedBelow /\ d.autoStart = c.autoStart
            /\ Anchored(c) => Anchored(d)
            /\ d.ledger.start = Smaller(c.ledger.start, from)
            /\ d.ledger.scannedThrough >= Smaller(c.ledger.scannedThrough, from - 1)
<1> DEFINE l == c.ledger
           m == RewindTo(l, from)
           below == {h \in ev : h < from}
           d == [c EXCEPT !.ledger = m, !.autoThrough = Smaller(@, from - 1)]
<1>1. /\ MaxHeight \in Nat /\ from \in Nat /\ 1 <= from
      /\ c.autoStart \in Nat /\ c.autoThrough \in Nat /\ c.surfacedBelow \in Nat /\ Birth \in Nat
      /\ c.autoThrough <= MaxHeight
      /\ l.start \in Nat /\ 1 <= l.start /\ l.requestedThrough \in Nat /\ c.chain.next \in Nat
  <2>1. from \in Nat /\ 1 <= from
    BY DEF Heights
  <2> QED
    BY <2>1, HoldsNumbers
<1>2. Safe(l, ev, c.surfacedBelow) /\ Settles(ev, c.surfacedBelow, Birth, l.start - 1)
  BY DEF Holds
<1> HIDE DEF l
<1>3. /\ Safe(m, below, c.surfacedBelow)
      /\ m.start = Smaller(l.start, from)
      /\ m.scannedThrough >= Smaller(l.scannedThrough, from - 1)
      /\ m.requestedThrough = Smaller(l.requestedThrough, from - 1)
      /\ HolesOf(m) \subseteq HolesOf(l)
  BY <1>2, RewindToIsSafe
<1> HIDE DEF m
<1>4. /\ IsRecord(d) /\ d.ledger = m /\ d.autoThrough = Smaller(c.autoThrough, from - 1)
      /\ d.autoStart = c.autoStart /\ d.chain = c.chain /\ d.solicited = c.solicited
      /\ d.buffered = c.buffered /\ d.judged = c.judged /\ d.surfacedBelow = c.surfacedBelow
  BY DEF Holds, IsRecord, Fields
<1> HIDE DEF d
<1>5. Safe(m, ev2, c.surfacedBelow)
  <2>1. c.surfacedBelow <= c.surfacedBelow /\ c.surfacedBelow \in 0..(MaxHeight + 1)
    BY <1>1, <1>2 DEF Safe
  <2> QED
    BY <1>3, <2>1, SafeIsMonotone
<1>6. m.requestedThrough = from - 1 /\ m.start \in Nat /\ 1 <= m.start /\ m.start <= l.start /\ m.start <= from
  BY <1>1, <1>3 DEF Smaller, l
<1>7. Settles(ev2, c.surfacedBelow, Birth, m.start - 1)
  BY <1>1, <1>2, <1>6 DEF Settles
<1>8. d.autoThrough \in Nat /\ d.autoThrough <= MaxHeight /\ d.autoThrough + 1 <= from
      /\ d.autoThrough <= c.autoThrough
  BY <1>1, <1>4 DEF Smaller
<1>9. NextForward(d) \in Nat /\ (NextForward(d) <= from \/ NextForward(d) = c.autoStart)
  BY <1>1, <1>4, <1>8 DEF NextForward, Larger
<1>10. Settles(ev2, c.surfacedBelow, m.requestedThrough + 1, NextForward(d) - 1)
  BY <1>1, <1>6, <1>9 DEF Settles
<1>11. Holds(d, ev2)
  <2>1. d.autoThrough \in 0..MaxHeight
    BY <1>1, <1>8
  <2> QED
    BY <1>4, <1>5, <1>6, <1>7, <1>10, <2>1 DEF Holds
<1>12. ASSUME Anchored(c) PROVE Anchored(d)
  <2>1. NextForward(d) <= NextForward(c) /\ NextForward(c) \in Nat
    BY <1>1, <1>4, <1>8 DEF NextForward, Larger
  <2>2. Anchor(c) \in Nat /\ Anchor(d) = Anchor(c)
    BY <1>1, <1>4 DEF Anchor
  <2>3. m.requestedThrough <= l.requestedThrough
    BY <1>1, <1>6 DEF l
  <2> QED
    BY <1>1, <1>3, <1>4, <1>6, <1>9, <1>12, <2>1, <2>2, <2>3 DEF Anchored, Larger, l
<1> QED
  BY <1>3, <1>4, <1>11, <1>12 DEF d, m, l

(* The fields of a scan state with the band below `floor` reported.        *)
LEMMA SurfaceFields ==
  ASSUME NEW c, IsRecord(c), NEW lo, NEW floor
  PROVE  LET d == Surface(c, lo, floor)
             l == AbandonUnscannableBelow(c.ledger, lo, floor)
         IN /\ IsRecord(d) /\ d.ledger = l
            /\ d.surfacedBelow = Larger(c.surfacedBelow, l.abandonedBelow)
            /\ d.autoStart = c.autoStart /\ d.autoThrough = c.autoThrough /\ d.chain = c.chain
            /\ d.solicited = c.solicited /\ d.buffered = c.buffered /\ d.judged = c.judged
<1> DEFINE l == AbandonUnscannableBelow(c.ledger, lo, floor)
<1>1. Surface(c, lo, floor) = Noted([c EXCEPT !.ledger = l])
  BY DEF Surface
<1> HIDE DEF l
<1> QED
  BY <1>1, NotedFields DEF l

(* Snap, with the cursor where the start put it, counts nothing it should  *)
(* not as long as the restored ledger does not.                            *)
LEMMA SnapHolds ==
  ASSUME NEW r, NEW ev, NEW floor \in 1..(MaxHeight + 1),
         IsRecord(r), r.autoStart \in 1..(MaxHeight + 1), r.autoThrough \in 0..MaxHeight,
         Holds([r EXCEPT !.autoStart = 1, !.autoThrough = 0], ev)
  PROVE  LET d == Snap(r, floor)
         IN /\ Holds(d, ev) /\ Tight(d) /\ d.judged = r.judged /\ d.chain = r.chain
            /\ r.surfacedBelow <= d.surfacedBelow
            /\ d.ledger.requestedThrough = r.ledger.requestedThrough
<1> DEFINE c == [r EXCEPT !.autoStart = 1, !.autoThrough = 0]
           lo == IF r.ledger.start > Birth THEN Birth ELSE Frontier(r)
           s == Surface(r, lo, floor)
           t == Surface(c, lo, floor)
           low == [s EXCEPT !.autoStart = lo, !.autoThrough = lo - 1]
           back == [r EXCEPT !.autoStart = Smaller(@, Frontier(r)),
                             !.autoThrough = Larger(Smaller(r.autoThrough, r.ledger.requestedThrough),
                                                    Frontier(r) - 1)]
<1>1. Snap(r, floor) = IF lo < floor THEN low ELSE back
  BY DEF Snap
<1>2. /\ IsRecord(c) /\ c.ledger = r.ledger /\ c.chain = r.chain /\ c.solicited = r.solicited
      /\ c.buffered = r.buffered /\ c.judged = r.judged /\ c.surfacedBelow = r.surfacedBelow
  BY DEF IsRecord, Fields
<1>3. Holds(c, ev)
  OBVIOUS
<1>4. /\ IsRecord(back) /\ back.ledger = r.ledger /\ back.chain = r.chain
      /\ back.solicited = r.solicited /\ back.buffered = r.buffered /\ back.judged = r.judged
      /\ back.surfacedBelow = r.surfacedBelow
      /\ back.autoStart = Smaller(r.autoStart, Frontier(r))
      /\ back.autoThrough = Larger(Smaller(r.autoThrough, r.ledger.requestedThrough), Frontier(r) - 1)
  BY DEF IsRecord, Fields
<1> HIDE DEF c, back
<1>5. Frontier(c) = Frontier(r)
  BY <1>2 DEF Frontier
<1>6. /\ MaxHeight \in Nat /\ Birth \in Nat /\ 1 <= Birth /\ Birth <= MaxHeight
      /\ r.ledger.start \in Nat /\ r.ledger.requestedThrough \in Nat
      /\ r.ledger.start <= r.ledger.requestedThrough + 1
      /\ r.ledger.scannedThrough \in Nat /\ r.ledger.scannedThrough <= r.ledger.requestedThrough
      /\ r.ledger.abandonedBelow \in Nat /\ r.ledger.abandonedBelow <= r.surfacedBelow
      /\ r.surfacedBelow \in Nat
      /\ Frontier(r) \in Nat /\ 1 <= Frontier(r) /\ Frontier(r) <= MaxHeight + 1
  BY <1>2, <1>3, <1>5, HoldsNumbers, FrontierSettles
<1>7. CASE ~ (lo < floor)
  <2>1. Holds(back, ev) /\ Tight(back)
    BY <1>2, <1>3, <1>4, <1>5, LoweredHolds
  <2> HIDE DEF lo, low
  <2> QED
    BY <1>1, <1>4, <1>6, <1>7, <2>1
<1>8. CASE lo < floor
  <2>1. /\ IsRecord(s) /\ s.ledger = t.ledger /\ s.surfacedBelow = t.surfacedBelow
        /\ s.chain = r.chain /\ s.solicited = r.solicited /\ s.buffered = r.buffered
        /\ s.judged = r.judged
    <3> HIDE DEF lo
    <3> QED
      BY <1>2, SurfaceFields
  <2>2. lo \in Nat /\ 1 <= lo /\ lo <= MaxHeight + 1
    BY <1>6
  <2>3. \A h \in (r.ledger.requestedThrough + 1)..(lo - 1) : h < r.surfacedBelow
    BY <1>6 DEF Frontier, LowestNeededHeight, Larger
  <2> HIDE DEF lo
  <2>4. /\ Holds(t, ev) /\ Later(c, t) /\ t.chain = c.chain /\ t.solicited = c.solicited
        /\ t.buffered = c.buffered /\ t.judged = c.judged
        /\ t.ledger.requestedThrough = c.ledger.requestedThrough
        /\ lo <= Frontier(t)
    BY <1>3, <1>8, <2>2, SurfaceHolds, ZenonT(60)
  <2> HIDE DEF s, t
  <2>5. /\ IsRecord(low) /\ low.ledger = s.ledger /\ low.surfacedBelow = s.surfacedBelow
        /\ low.chain = s.chain /\ low.solicited = s.solicited /\ low.buffered = s.buffered
        /\ low.judged = s.judged /\ low.autoStart = lo /\ low.autoThrough = lo - 1
    BY <2>1 DEF IsRecord, Fields
  <2> HIDE DEF low
  <2>6. /\ low.autoStart \in 1..(MaxHeight + 1) /\ low.autoThrough \in 0..MaxHeight
        /\ NextForward(low) = lo
    BY <1>6, <2>2, <2>5 DEF NextForward, Larger
  <2>7. /\ t.surfacedBelow \in Nat /\ r.surfacedBelow <= t.surfacedBelow
        /\ t.ledger.scannedThrough \in Nat
        /\ t.ledger.scannedThrough <= t.ledger.requestedThrough
        /\ t.ledger.requestedThrough \in Nat
        /\ t.ledger.abandonedBelow \in Nat /\ t.ledger.abandonedBelow <= t.surfacedBelow
    <3>1. c.surfacedBelow <= t.surfacedBelow
      BY <2>4 DEF Later
    <3> QED
      BY <1>2, <2>4, <3>1, HoldsNumbers
  <2>8. Settles(ev, t.surfacedBelow, t.ledger.requestedThrough + 1, NextForward(low) - 1)
    BY <1>2, <1>6, <2>2, <2>3, <2>4, <2>6, <2>7 DEF Settles
  <2>9. /\ low.ledger = t.ledger /\ low.chain = t.chain /\ low.solicited = t.solicited
        /\ low.buffered = t.buffered /\ low.judged = t.judged
        /\ low.surfacedBelow = t.surfacedBelow
    BY <1>2, <2>1, <2>4, <2>5
  <2>10. Holds(low, ev)
    BY <2>4, <2>5, <2>6, <2>8, <2>9, AimedHolds
  <2>11. Tight(low)
    BY <2>2, <2>4, <2>5, <2>7, <2>9 DEF Tight, Larger, Frontier, LowestNeededHeight
  <2> QED
    BY <1>1, <1>2, <1>8, <2>4, <2>7, <2>9, <2>10, <2>11
<1> QED
  BY <1>7, <1>8

(* A start below the blocks in memory is moved up to one that is.          *)
LEMMA ClampedStartIsHeight ==
  ASSUME NEW t \in Heights, NEW floor \in 1..t
  PROVE  ClampedStart(t, floor) \in Heights
<1>1. MaxHeight \in Nat /\ Birth \in Heights /\ HdrBatch \in Nat /\ HdrBatch >= 1
  BY LedgerConstants, ScanConstants
<1> QED
  BY <1>1 DEF ClampedStart, Heights

(* Starting up counts no height it should not, if the ledger on disk does  *)
(* not; without one nothing below the start may count.                     *)
LEMMA StartedHolds ==
  ASSUME NEW t \in Heights, NEW floor \in 1..t, NEW chain, IsChain(chain),
         NEW judged, judged \subseteq Heights, NEW sb \in 0..(MaxHeight + 1),
         NEW ev, ev \subseteq Heights, NEW ledgers,
         \A l \in ledgers : Safe(l, ev, sb) /\ l.start >= 1 /\ Settles(ev, sb, Birth, l.start - 1),
         ledgers = {} => Settles(ev, sb, Birth, ClampedStart(t, floor) - 1)
  PROVE  LET d == Started(t, floor, ledgers, chain, judged, sb)
         IN /\ Holds(d, ev) /\ Tight(d) /\ d.judged = judged /\ d.chain = chain
            /\ sb <= d.surfacedBelow
            /\ ledgers # {} => \E l \in ledgers : d.ledger.requestedThrough = l.requestedThrough
<1> DEFINE start == ClampedStart(t, floor)
           l == IF ledgers = {} THEN NewLedger(start) ELSE CHOOSE l \in ledgers : TRUE
           r == [ledger |-> l, autoStart |-> start, autoThrough |-> start - 1,
                 chain |-> chain, solicited |-> {}, buffered |-> {},
                 judged |-> judged, surfacedBelow |-> sb]
           c == [r EXCEPT !.autoStart = 1, !.autoThrough = 0]
           d == Snap(r, floor)
<1>1. start \in Heights /\ MaxHeight \in Nat /\ floor \in 1..(MaxHeight + 1) /\ Birth \in Nat
  <2>1. MaxHeight \in Nat /\ Birth \in Nat
    BY LedgerConstants, ScanConstants DEF Heights
  <2> QED
    BY <2>1, ClampedStartIsHeight DEF Heights
<1> HIDE DEF start
<1>2. start \in Nat /\ 1 <= start /\ start <= MaxHeight
  BY <1>1 DEF Heights
<1>3. Started(t, floor, ledgers, chain, judged, sb) = d
  <2> DEFINE enabled == [ledger |-> NewLedger(start), autoStart |-> start,
                         autoThrough |-> start - 1, chain |-> chain, solicited |-> {},
                         buffered |-> {}, judged |-> judged, surfacedBelow |-> sb]
             restored == IF ledgers = {} THEN enabled
                         ELSE [enabled EXCEPT !.ledger = CHOOSE k \in ledgers : TRUE]
  <2>1. Started(t, floor, ledgers, chain, judged, sb) = Snap(restored, floor)
    BY DEF Started, start
  <2>2. CASE ledgers = {}
    <3>1. restored = r
      BY <2>2
    <3> QED
      BY <2>1, <3>1
  <2>3. CASE ledgers # {}
    <3>1. l = CHOOSE k \in ledgers : TRUE
      BY <2>3
    <3>2. restored = [enabled EXCEPT !.ledger = l]
      BY <2>3
    <3> HIDE DEF l
    <3>3. [enabled EXCEPT !.ledger = l] = r
      <4> DEFINE e == [enabled EXCEPT !.ledger = l]
      <4>1. IsRecord(enabled)
        BY RecordOfFields
      <4>2. /\ IsRecord(e) /\ e.ledger = l /\ e.autoStart = start /\ e.autoThrough = start - 1
            /\ e.chain = chain /\ e.solicited = {} /\ e.buffered = {} /\ e.judged = judged
            /\ e.surfacedBelow = sb
        BY <4>1 DEF IsRecord, Fields
      <4> HIDE DEF e
      <4>3. e = [ledger |-> e.ledger, autoStart |-> e.autoStart, autoThrough |-> e.autoThrough,
                 chain |-> e.chain, solicited |-> e.solicited, buffered |-> e.buffered,
                 judged |-> e.judged, surfacedBelow |-> e.surfacedBelow]
        BY <4>2, RecordOfFields
      <4> QED
        BY <4>2, <4>3 DEF e
    <3> QED
      BY <2>1, <3>2, <3>3
  <2> QED
    BY <2>2, <2>3
<1>4. ledgers # {} => l \in ledgers
  OBVIOUS
<1>5. Safe(l, ev, sb) /\ l.start >= 1 /\ Settles(ev, sb, Birth, l.start - 1)
  <2>1. CASE ledgers # {}
    BY <1>4, <2>1
  <2>2. CASE ledgers = {}
    <3> DEFINE n == NewLedger(start)
    <3>1. Safe(n, ev, sb) /\ n.start = start
      <4>1. start \in 1..(MaxHeight + 1)
        BY <1>1, <1>2
      <4> QED
        BY <4>1, NewLedgerIsSafe
    <3>2. l = n
      BY <2>2
    <3> HIDE DEF n, l
    <3> QED
      BY <1>2, <2>2, <3>1, <3>2 DEF start
  <2> QED
    BY <2>1, <2>2
<1> HIDE DEF l
<1>6. /\ IsRecord(r) /\ r.ledger = l /\ r.autoStart = start /\ r.autoThrough = start - 1
      /\ r.chain = chain /\ r.solicited = {} /\ r.buffered = {} /\ r.judged = judged
      /\ r.surfacedBelow = sb
  BY RecordOfFields
<1> HIDE DEF r
<1>7. /\ IsRecord(c) /\ c.ledger = l /\ c.autoStart = 1 /\ c.autoThrough = 0
      /\ c.chain = chain /\ c.solicited = {} /\ c.buffered = {} /\ c.judged = judged
      /\ c.surfacedBelow = sb
  BY <1>6 DEF IsRecord, Fields
<1> HIDE DEF c
<1>8. l.requestedThrough \in Nat /\ NextForward(c) = 1
  <2>1. l.requestedThrough \in Nat
    BY <1>1, <1>5 DEF Safe, IsLedger
  <2> QED
    BY <1>7, <2>1 DEF NextForward, Larger
<1>9. Holds(c, ev)
  <2>1. Settles(ev, c.surfacedBelow, c.ledger.requestedThrough + 1, NextForward(c) - 1)
    BY <1>7, <1>8 DEF Settles
  <2>2. c.autoStart \in 1..(MaxHeight + 1) /\ c.autoThrough \in 0..MaxHeight
    BY <1>1, <1>7
  <2> QED
    BY <1>5, <1>7, <2>1, <2>2 DEF Holds
<1>10. /\ Holds(d, ev) /\ Tight(d) /\ d.judged = r.judged /\ d.chain = r.chain
       /\ r.surfacedBelow <= d.surfacedBelow
       /\ d.ledger.requestedThrough = r.ledger.requestedThrough
  <2>1. r.autoStart \in 1..(MaxHeight + 1) /\ r.autoThrough \in 0..MaxHeight
    BY <1>1, <1>2, <1>6
  <2> QED
    BY <1>1, <1>6, <1>9, <2>1, SnapHolds DEF c
<1> HIDE DEF d
<1> QED
  BY <1>3, <1>4, <1>6, <1>10

-----------------------------------------------------------------------------
(* Typing alone: every height counts as judged.                            *)

LEMMA HeightsSettle ==
  \A sb, lo, hi : lo \in Nat /\ lo >= 1 /\ hi \in Int /\ hi <= MaxHeight => Settles(Heights, sb, lo, hi)
  BY LedgerConstants DEF Settles, Heights

(* More verdicts do not harm a scan state.                                 *)
LEMMA HoldsMore ==
  ASSUME NEW c, NEW ev, Holds(c, ev), NEW ev2, ev \subseteq ev2, ev2 \subseteq Heights
  PROVE  Holds(c, ev2)
<1>1. Safe(c.ledger, ev2, c.surfacedBelow)
  <2>1. c.surfacedBelow <= c.surfacedBelow /\ c.surfacedBelow \in 0..(MaxHeight + 1)
    BY HoldsNumbers DEF Holds, Safe
  <2>2. Safe(c.ledger, ev, c.surfacedBelow)
    BY DEF Holds
  <2> QED
    BY <2>1, <2>2, SafeIsMonotone
<1>2. /\ Settles(ev2, c.surfacedBelow, Birth, c.ledger.start - 1)
      /\ Settles(ev2, c.surfacedBelow, c.ledger.requestedThrough + 1, NextForward(c) - 1)
  BY DEF Holds, Settles
<1> QED
  BY <1>1, <1>2 DEF Holds

(* A cursor parked anywhere keeps the types.                               *)
LEMMA ParkedHolds ==
  ASSUME NEW c, Holds(c, Heights), NEW x \in 1..(MaxHeight + 1)
  PROVE  LET d == [c EXCEPT !.autoStart = x, !.autoThrough = x - 1]
         IN Holds(d, Heights) /\ d.judged = c.judged /\ d.surfacedBelow = c.surfacedBelow
<1> DEFINE d == [c EXCEPT !.autoStart = x, !.autoThrough = x - 1]
<1>1. /\ IsRecord(d) /\ d.autoStart = x /\ d.autoThrough = x - 1
      /\ d.ledger = c.ledger /\ d.solicited = c.solicited /\ d.chain = c.chain
      /\ d.buffered = c.buffered /\ d.judged = c.judged /\ d.surfacedBelow = c.surfacedBelow
  BY DEF Holds, IsRecord, Fields
<1> HIDE DEF d
<1>2. /\ MaxHeight \in Nat /\ x \in Nat /\ 1 <= x /\ x <= MaxHeight + 1
      /\ c.ledger.requestedThrough \in Nat
  <2>1. MaxHeight \in Nat /\ x \in Nat /\ 1 <= x /\ x <= MaxHeight + 1
    BY LedgerConstants
  <2> QED
    BY <2>1, HoldsNumbers
<1>3. NextForward(d) = x
  BY <1>1, <1>2 DEF NextForward, Larger
<1>4. Settles(Heights, c.surfacedBelow, c.ledger.requestedThrough + 1, NextForward(d) - 1)
  BY <1>2, <1>3, HeightsSettle
<1>5. d.autoStart \in 1..(MaxHeight + 1) /\ d.autoThrough \in 0..MaxHeight
  BY <1>1, <1>2
<1>6. Holds(d, Heights)
  BY <1>1, <1>4, <1>5, AimedHolds
<1> QED
  BY <1>1, <1>6 DEF d

(* A batch of filter headers moves the anchor up.                          *)
LEMMA ExtendedHolds ==
  ASSUME NEW c, NEW ev, Holds(c, ev), NEW n \in 1..HdrBatch,
         NEW stop \in Heights, stop = Anchor(c) + n - 1
  PROVE  LET d == [c EXCEPT !.chain =
                      [start |-> IF c.chain = NoChain THEN c.autoStart ELSE @.start, next |-> stop + 1]]
         IN /\ Holds(d, ev) /\ (Tight(c) => Tight(d)) /\ (Anchored(c) => Anchored(d))
            /\ d.chain # NoChain /\ d.judged = c.judged /\ d.surfacedBelow = c.surfacedBelow
            /\ d.ledger = c.ledger
<1> DEFINE from == IF c.chain = NoChain THEN c.autoStart ELSE c.chain.start
           ch == [start |-> from, next |-> stop + 1]
           d == [c EXCEPT !.chain = ch]
<1>1. /\ MaxHeight \in Nat /\ stop \in Nat /\ 1 <= stop /\ stop <= MaxHeight /\ n \in Nat /\ 1 <= n
      /\ c.autoStart \in Nat /\ 1 <= c.autoStart /\ c.autoThrough \in Nat
      /\ c.chain.start \in Nat /\ c.chain.next \in Nat /\ c.chain.start <= c.chain.next
      /\ c.chain # NoChain => 1 <= c.chain.start
      /\ c.ledger.requestedThrough \in Nat /\ c.surfacedBelow \in Nat
  <2>1. stop \in Nat /\ 1 <= stop /\ stop <= MaxHeight /\ n \in Nat /\ 1 <= n
    BY LedgerConstants, ScanConstants DEF Heights
  <2> QED
    BY <2>1, HoldsNumbers
<1>2. /\ from \in Nat /\ 1 <= from /\ from <= stop
      /\ Anchor(c) \in Nat /\ Anchor(c) <= stop + 1
  BY <1>1 DEF Anchor
<1> HIDE DEF from
<1>3. ch \in Chain /\ ch # NoChain /\ ch.start = from /\ ch.next = stop + 1
  BY <1>1, <1>2 DEF Chain, NoChain
<1> HIDE DEF ch
<1>4. /\ IsRecord(d) /\ d.chain = ch /\ d.ledger = c.ledger
      /\ d.autoStart = c.autoStart /\ d.autoThrough = c.autoThrough
      /\ d.solicited = c.solicited /\ d.buffered = c.buffered
      /\ d.judged = c.judged /\ d.surfacedBelow = c.surfacedBelow
  BY DEF Holds, IsRecord, Fields
<1>5. IsChain(ch)
  BY <1>1, <1>2, <1>3 DEF IsChain
<1> HIDE DEF d
<1>6. NextForward(d) = NextForward(c) /\ NextForward(c) \in Nat
  BY <1>1, <1>4 DEF NextForward, Larger
<1>7. Holds(d, ev)
  BY <1>3, <1>4, <1>5, <1>6 DEF Holds
<1>8. Tight(c) => Tight(d)
  BY <1>4 DEF Tight
<1>9. Anchored(c) => Anchored(d)
  <2>1. Anchor(d) = stop + 1
    BY <1>3, <1>4 DEF Anchor
  <2> QED
    BY <1>1, <1>2, <1>3, <1>4, <1>6, <2>1 DEF Anchored, Larger
<1>10. d = [c EXCEPT !.chain = [start |-> IF c.chain = NoChain THEN c.autoStart ELSE @.start,
                                next |-> stop + 1]]
  BY DEF d, ch, from
<1> QED
  BY <1>3, <1>4, <1>7, <1>8, <1>9, <1>10
=============================================================================
