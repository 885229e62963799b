---------------------------- MODULE CFScanLedger ----------------------------
(***************************************************************************)
(* The compact-filter scan ledger (BRCFScanLedger.c): which block heights  *)
(* the wallet has asked filters for, which of them are still holes, and    *)
(* how far the scan has contiguously got.                                  *)
(*                                                                         *)
(* A ledger is a record value; each operation of the C file is an operator *)
(* from ledgers to ledgers, so that a handler that makes several calls     *)
(* under one lock is the composition of them.  The two sorted arrays are   *)
(* functions from heights: a hole is `outstanding` (being asked for) or    *)
(* `gaveUp` (parked after MaxAttempts).                                    *)
(*                                                                         *)
(* The wall clock is abstracted: requestedAt and its backoff delay become  *)
(* `due`, TRUE once the delay has elapsed.  headerRace only shortens that  *)
(* delay and is left out.                                                  *)
(***************************************************************************)
EXTENDS Integers, FiniteSets, FiniteSetsExt, Functions

CONSTANTS
    Peers,            \* addresses a request can be sent to
    NoPeer,           \* the zero address: asked of nobody now
    MaxHeight,        \* the largest block height (UINT32_MAX in the code)
    OutstandingMax,   \* CF_OUTSTANDING_MAX
    GaveUpMax,        \* CF_GAVEUP_MAX
    MaxAttempts,      \* CF_REREQ_MAX_ATTEMPTS
    MaxRange,         \* CF_REREQ_MAX_RANGE
    CyclesMax         \* where the re-arm counter saturates (0xFF)

ASSUME LedgerConstants ==
    /\ NoPeer \notin Peers
    /\ {MaxHeight, OutstandingMax, MaxAttempts, MaxRange} \subseteq Nat \ {0}
    /\ CyclesMax \in Nat
    /\ GaveUpMax \in Nat /\ GaveUpMax >= OutstandingMax

Heights == 1..MaxHeight
Larger(a, b) == IF a < b THEN b ELSE a
Smaller(a, b) == IF a < b THEN a ELSE b

Hole == [peer : Peers \cup {NoPeer}, attempts : 0..MaxAttempts,
         cycles : 0..CyclesMax, live : BOOLEAN, due : BOOLEAN]
ParkedHole == [cycles : 0..CyclesMax, live : BOOLEAN]

HolesIn(f, T) == DOMAIN f \subseteq Heights /\ f \in [DOMAIN f -> T]

IsLedger(l) ==
    /\ l = [start |-> l.start, scannedThrough |-> l.scannedThrough,
            requestedThrough |-> l.requestedThrough, abandonedBelow |-> l.abandonedBelow,
            outstanding |-> l.outstanding, gaveUp |-> l.gaveUp]
    /\ {l.scannedThrough, l.requestedThrough} \subseteq 0..MaxHeight
    /\ {l.start, l.abandonedBelow} \subseteq 0..(MaxHeight + 1)
    /\ HolesIn(l.outstanding, Hole)
    /\ HolesIn(l.gaveUp, ParkedHole)

-----------------------------------------------------------------------------
(* Reading the ledger. *)

HolesOf(l) == DOMAIN l.outstanding \cup DOMAIN l.gaveUp

(* Mutant of Capped: one offer too many. *)
CappedLate(e) == e.attempts > MaxAttempts

Capped(e) == e.attempts >= MaxAttempts

(* The frontier everything else keys on. *)
LowestNeededHeight(l) == Larger(l.scannedThrough + 1, l.abandonedBelow)

(* The hole that holds scannedThrough back, as [height, offerable, cycles, *)
(* live]; the empty set when there is none.  A tie goes to outstanding.    *)
PinningHole(l) ==
    IF HolesOf(l) = {} THEN {}
    ELSE LET h == Min(HolesOf(l))
             asking == h \in DOMAIN l.outstanding
             e == IF asking THEN l.outstanding[h] ELSE l.gaveUp[h]
         IN {[height |-> h, offerable |-> asking /\ ~ Capped(l.outstanding[h]),
              cycles |-> e.cycles, live |-> e.live]}

(* A parked member of either front that has been through minCycles re-arms *)
(* with every offer reaching a live peer.                                  *)
Abandonable(l, h, minCycles) ==
    IF h \in DOMAIN l.outstanding
    THEN /\ Capped(l.outstanding[h])
         /\ l.outstanding[h].cycles >= minCycles /\ l.outstanding[h].live
    ELSE /\ h \in DOMAIN l.gaveUp
         /\ l.gaveUp[h].cycles >= minCycles /\ l.gaveUp[h].live

AbandonableRunFrom(l, from, maxRun, minCycles) ==
    {h \in from..(from + maxRun - 1) : \A k \in from..h : Abandonable(l, k, minCycles)}

Offerable(l, h) ==
    /\ h \in DOMAIN l.outstanding /\ h >= l.abandonedBelow
    /\ ~ Capped(l.outstanding[h]) /\ l.outstanding[h].due

(* The first run of due holes from minH on that were last asked of the     *)
(* same peer: the heights one getcfilters can re-request.                  *)
PeekRerequestRange(l, minH) ==
    LET due == {h \in DOMAIN l.outstanding : h >= minH /\ Offerable(l, h)}
        first == Min(due)
    IN IF due = {} THEN {}
       ELSE {h \in first..(first + MaxRange - 1) : \A k \in first..h :
                k \in due /\ l.outstanding[k].peer = l.outstanding[first].peer}

-----------------------------------------------------------------------------
(* Operations. *)

(* Mutant of Advance: a parked hole no longer pins the frontier. *)
AdvancePastParked(l) ==
    LET ceiling == IF DOMAIN l.outstanding = {} THEN l.requestedThrough
                   ELSE Smaller(l.requestedThrough, Min(DOMAIN l.outstanding) - 1)
    IN [l EXCEPT !.scannedThrough = Larger(@, ceiling)]

(* Mutant of Advance: the frontier follows a new hole down. *)
AdvanceOrRetreat(l) ==
    LET ceiling == IF HolesOf(l) = {} THEN l.requestedThrough
                   ELSE Smaller(l.requestedThrough, Min(HolesOf(l)) - 1)
    IN [l EXCEPT !.scannedThrough = ceiling]

(* scannedThrough follows the lowest hole up to what was requested, and    *)
(* never moves down.                                                       *)
Advance(l) ==
    LET ceiling == IF HolesOf(l) = {} THEN l.requestedThrough
                   ELSE Smaller(l.requestedThrough, Min(HolesOf(l)) - 1)
    IN [l EXCEPT !.scannedThrough = Larger(@, ceiling)]

FreshHole(p) == [peer |-> p, attempts |-> 0, cycles |-> 0, live |-> TRUE, due |-> FALSE]

NewLedger(start) ==
    LET before == IF start > 0 THEN start - 1 ELSE 0
    IN [start |-> start, scannedThrough |-> before, requestedThrough |-> before,
        abandonedBelow |-> 0,
        outstanding |-> [h \in {} |-> FreshHole(NoPeer)],
        gaveUp |-> [h \in {} |-> FreshHole(NoPeer)]]

(* Asking for heights of S: a hole already there is only re-addressed.     *)
AskFor(outstanding, S, p) ==
    [h \in DOMAIN outstanding \cup S |->
        IF h \notin S THEN outstanding[h]
        ELSE IF h \in DOMAIN outstanding
             THEN [outstanding[h] EXCEPT !.peer = p, !.due = FALSE]
             ELSE FreshHole(p)]

(* A full table drops its lowest hole to take a new one. *)
InsertOutstanding(outstanding, h, p) ==
    LET full == h \notin DOMAIN outstanding /\ Cardinality(DOMAIN outstanding) >= OutstandingMax
        kept == IF full THEN Restrict(outstanding, DOMAIN outstanding \ {Min(DOMAIN outstanding)})
                ELSE outstanding
    IN AskFor(kept, {h}, p)

(* One insertion per height in ascending order.  When all of them fit,     *)
(* which the callers' low-water gate is there to ensure, none is dropped.  *)
InsertRange(outstanding, lo, hi, p) ==
    IF Cardinality(DOMAIN outstanding \cup lo..hi) <= OutstandingMax
    THEN AskFor(outstanding, lo..hi, p)
    ELSE LET after[h \in (lo - 1)..hi] ==
                 IF h < lo THEN outstanding ELSE InsertOutstanding(after[h - 1], h, p)
         IN after[hi]

RecordRequested(l, startH, stopH, p) ==
    LET lo == Larger(startH, l.abandonedBelow)
    IN IF stopH < lo THEN l
       ELSE [l EXCEPT !.outstanding = InsertRange(@, lo, stopH, p),
                      !.requestedThrough = Larger(@, stopH)]

(* One MarkEvaluated for each height of S, in any order.                   *)
MarkAllEvaluated(l, S) ==
    IF S = {} THEN l
    ELSE Advance([l EXCEPT !.outstanding = Restrict(@, DOMAIN @ \ S),
                           !.gaveUp = Restrict(@, DOMAIN @ \ S)])

MarkEvaluated(l, h) == MarkAllEvaluated(l, {h})

MarkHeaderRace(l, h) ==
    IF h < l.abandonedBelow \/ h \in DOMAIN l.outstanding THEN l
    ELSE [l EXCEPT !.outstanding =
                       [InsertOutstanding(@, h, NoPeer) EXCEPT ![h].due = TRUE],
                   !.requestedThrough = Larger(@, h)]

(* A lost peer: its requests are nobody's, and their cycle is tainted. *)
ReArmPeer(l, p) ==
    [l EXCEPT !.outstanding = [h \in DOMAIN @ |->
        IF @[h].peer = p THEN [@[h] EXCEPT !.peer = NoPeer, !.live = FALSE] ELSE @[h]]]

(* Capped holes move to gaveUp, lowest first, while it has room.  A hole   *)
(* already there keeps the larger cycle count and the worse verdict.       *)
RetireCapped(l) ==
    LET capped == {h \in DOMAIN l.outstanding : Capped(l.outstanding[h])}
        new == capped \ DOMAIN l.gaveUp
        room == GaveUpMax - Cardinality(DOMAIN l.gaveUp)
        moved == {h \in capped : h \in new => Cardinality({k \in new : k < h}) < room}
        Merge(h) ==
            IF h \in new
            THEN [cycles |-> l.outstanding[h].cycles, live |-> l.outstanding[h].live]
            ELSE [cycles |-> Larger(l.outstanding[h].cycles, l.gaveUp[h].cycles),
                  live |-> l.outstanding[h].live /\ l.gaveUp[h].live]
    IN [l EXCEPT !.outstanding = Restrict(@, DOMAIN @ \ moved),
                 !.gaveUp = [h \in DOMAIN @ \cup moved |->
                                IF h \in moved THEN Merge(h) ELSE @[h]]]

Attempt(e) == [e EXCEPT !.attempts = @ + 1, !.due = FALSE]

(* The single-height driver: the lowest due hole, abandoned or not. *)
NextRerequest(l) ==
    LET r == RetireCapped(l)
        due == {h \in DOMAIN r.outstanding : ~ Capped(r.outstanding[h]) /\ r.outstanding[h].due}
    IN IF due = {} THEN r ELSE [r EXCEPT !.outstanding[Min(due)] = Attempt(@)]

CommitRerequest(l, S, p) ==
    [l EXCEPT !.outstanding = [h \in DOMAIN @ |->
        IF h \in S THEN [Attempt(@[h]) EXCEPT !.peer = p] ELSE @[h]]]

MarkOffersMissedLivePeer(l, S) ==
    [l EXCEPT !.outstanding = [h \in DOMAIN @ |->
        IF h \in S THEN [@[h] EXCEPT !.live = FALSE] ELSE @[h]]]

(* Mutant of Rearmed: the new cycle is not counted. *)
RearmedUncounted(cycles) ==
    [peer |-> NoPeer, attempts |-> 0, cycles |-> cycles, live |-> TRUE, due |-> TRUE]

Rearmed(cycles) ==
    [peer |-> NoPeer, attempts |-> 0, cycles |-> Smaller(cycles + 1, CyclesMax),
     live |-> TRUE, due |-> TRUE]

(* A new cycle for the contiguous parked run from `from`: capped holes in  *)
(* place, parked ones moved back while outstanding has room.  (No hole is  *)
(* above requestedThrough, so the code's raise of it there changes nothing.) *)
ReArmParkedRun(l, from, maxRun) ==
    LET parkedOnly(h) == h \in DOMAIN l.gaveUp \ DOMAIN l.outstanding
        fits(h) == Cardinality({k \in from..(h - 1) : parkedOnly(k)})
                       < OutstandingMax - Cardinality(DOMAIN l.outstanding)
        parked(h) ==
            /\ h >= l.abandonedBelow
            /\ \/ h \in DOMAIN l.outstanding /\ Capped(l.outstanding[h])
               \/ parkedOnly(h) /\ fits(h)
        run == {h \in from..(from + maxRun - 1) : \A k \in from..h : parked(k)}
        back == {h \in run : parkedOnly(h)}
        next == [l EXCEPT
            !.outstanding = [h \in DOMAIN @ \cup back |->
                IF h \in back THEN Rearmed(l.gaveUp[h].cycles)
                ELSE IF h \in run THEN Rearmed(@[h].cycles) ELSE @[h]],
            !.gaveUp = Restrict(@, DOMAIN @ \ back)]
    IN IF run = {} THEN l ELSE Advance(next)

(* Giving the abandoned floor back (only ever lowers it). *)
RetireAbandonedTo(l, newFloor) ==
    IF newFloor < l.abandonedBelow /\ newFloor >= l.start
    THEN [l EXCEPT !.abandonedBelow = newFloor] ELSE l

(* The valve: write parked holes off below the clamp, but none at or above *)
(* a hole that is still being asked for.                                   *)
AbandonGaveUpBelow(l, clamp) ==
    LET target == IF DOMAIN l.outstanding = {} THEN clamp
                  ELSE Smaller(clamp, Min(DOMAIN l.outstanding))
        dropped == {h \in DOMAIN l.gaveUp : h < target}
    IN IF dropped = {} THEN l
       ELSE [l EXCEPT !.gaveUp = Restrict(@, DOMAIN @ \ dropped),
                      !.abandonedBelow = Larger(@, Max(dropped) + 1)]

(* The low edge of a band after what is surfaced or scanned is cut off. *)
UnscannableFrom(l, lo) ==
    LET above == Larger(lo, l.abandonedBelow)
    IN IF above >= l.start /\ above <= l.scannedThrough THEN l.scannedThrough + 1 ELSE above

(* Write off everything below `floor`; the count the caller reports is     *)
(* floor - UnscannableFrom(l, lo), positive exactly when this acts.        *)
AbandonUnscannableBelow(l, lo, floor) ==
    IF lo = 0 \/ floor = 0 \/ UnscannableFrom(l, lo) >= floor THEN l
    ELSE Advance([l EXCEPT
            !.outstanding = Restrict(@, {h \in DOMAIN @ : h >= floor}),
            !.gaveUp = Restrict(@, {h \in DOMAIN @ : h >= floor}),
            !.abandonedBelow = Larger(@, floor)])

(* Mutant of RewindTo: what was requested of the void heights still counts. *)
RewindToKeepsRequested(l, next) ==
    IF next = 0 THEN l
    ELSE Advance([l EXCEPT
            !.start = Smaller(@, next),
            !.scannedThrough = Smaller(@, next - 1),
            !.outstanding = Restrict(@, {h \in DOMAIN @ : h < next}),
            !.gaveUp = Restrict(@, {h \in DOMAIN @ : h < next})])

(* The void heights are forgotten: they will be asked for again. *)
RewindTo(l, next) ==
    IF next = 0 THEN l
    ELSE Advance(
        [start |-> Smaller(l.start, next),
         scannedThrough |-> Smaller(l.scannedThrough, next - 1),
         requestedThrough |-> Smaller(l.requestedThrough, next - 1),
         abandonedBelow |-> l.abandonedBelow,
         outstanding |-> Restrict(l.outstanding, {h \in DOMAIN l.outstanding : h < next}),
         gaveUp |-> Restrict(l.gaveUp, {h \in DOMAIN l.gaveUp : h < next})])

(* Mutant of Serialized: only parked holes are written. *)
SerializedParkedOnly(l) == [l EXCEPT !.outstanding = Restrict(@, {})]

(* What Serialize keeps of a ledger, in the form Parse loads it in: the    *)
(* attempts, the peers and the latch of a running cycle are not written,   *)
(* every outstanding hole comes back due; parked verdicts are kept.        *)
Serialized(l) ==
    [l EXCEPT !.outstanding = [h \in DOMAIN @ |->
        [peer |-> NoPeer, attempts |-> 0, cycles |-> @[h].cycles, live |-> TRUE, due |-> TRUE]]]
=============================================================================
