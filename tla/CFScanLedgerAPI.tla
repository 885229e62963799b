-------------------------- MODULE CFScanLedgerAPI --------------------------
(***************************************************************************)
(* The scan ledger as its callers drive it: one action per call of         *)
(* BRCFScanLedger.h that changes a ledger, in any order, with any          *)
(* arguments the manager's guards let through.  The ledger's own           *)
(* correctness is that no such sequence loses a height.                    *)
(***************************************************************************)
EXTENDS CFScanLedger

CONSTANTS
    LowWater    \* CF_OUTSTANDING_LOWWATER: no new range while this many holes are out

ASSUME GateLeavesRoom == LowWater \in Nat /\ LowWater + MaxRange <= OutstandingMax + 1

VARIABLES
    ledger,         \* the live ledger
    evaluated,      \* history: heights whose filter (and block, on a match) was judged
    surfacedBelow   \* history: everything below it was once reported as abandoned

vars == <<ledger, evaluated, surfacedBelow>>

\* The ledger stays a ledger: both tables within range, the history within the heights.
TypeOK ==
    /\ IsLedger(ledger)
    /\ evaluated \subseteq Heights
    /\ surfacedBelow \in 0..(MaxHeight + 1)

Init ==
    \E s \in Heights :
        /\ ledger = NewLedger(s)
        /\ evaluated = {}
        /\ surfacedBelow = 0

(* What a call does to the ledger, the floor it reached being remembered. *)
Becomes(l) ==
    /\ ledger' = l
    /\ surfacedBelow' = Larger(surfacedBelow, l.abandonedBelow)

Quietly(l) == Becomes(l) /\ UNCHANGED evaluated

-----------------------------------------------------------------------------
(* Forward fetch: the range starts no higher than the first height that    *)
(* was never asked for, and only while few holes are out.                  *)
RequestForward(s, e, p) ==
    /\ Cardinality(DOMAIN ledger.outstanding) < LowWater
    /\ s <= LowestNeededHeight(ledger) \/ s <= ledger.requestedThrough + 1
    /\ s >= ledger.start
    /\ e \in s..(s + MaxRange - 1)
    /\ Quietly(RecordRequested(ledger, s, e, p))

Evaluate(h) ==
    /\ ledger' = MarkEvaluated(ledger, h)
    /\ evaluated' = evaluated \cup {h}
    /\ UNCHANGED surfacedBelow

HeaderRace(h) ==
    /\ Cardinality(DOMAIN ledger.outstanding) < OutstandingMax
    /\ h \in ledger.start..(ledger.requestedThrough + 1)
    /\ Quietly(MarkHeaderRace(ledger, h))

PeerLost(p) == Quietly(ReArmPeer(ledger, p))

(* The backoff of a hole runs out. *)
BackoffElapses(h) ==
    /\ h \in DOMAIN ledger.outstanding /\ ~ ledger.outstanding[h].due
    /\ Quietly([ledger EXCEPT !.outstanding[h].due = TRUE])

Retire == Quietly(RetireCapped(ledger))

DriveOne == Quietly(NextRerequest(ledger))

(* One peek of the residual driver and the outcome of sending its range. *)
Rerequest(minH, p) ==
    LET run == PeekRerequestRange(ledger, minH)
    IN /\ run # {}
       /\ Quietly(CommitRerequest(ledger, run, p))

OfferMissed(minH) ==
    LET run == PeekRerequestRange(ledger, minH)
    IN /\ run # {}
       /\ Quietly(MarkOffersMissedLivePeer(ledger, run))

ReArm(from) == Quietly(ReArmParkedRun(ledger, from, MaxRange))

Abandon(clamp) == Quietly(AbandonGaveUpBelow(ledger, clamp))

Surface(lo, floor) == Quietly(AbandonUnscannableBelow(ledger, lo, floor))

GiveBackFloor(floor) == Quietly(RetireAbandonedTo(ledger, floor))

(* A reorganisation or a grown address set voids the verdicts from `next`  *)
(* on.                                                                     *)
Rewind(next) ==
    /\ Becomes(RewindTo(ledger, next))
    /\ evaluated' = {h \in evaluated : h < next}

ReInit(s) == Quietly(NewLedger(s))

(* A restart that finds the ledger as it was last saved. *)
Reload == Quietly(Serialized(ledger))

Next ==
    \/ \E s, e \in Heights, p \in Peers : RequestForward(s, e, p)
    \/ \E h \in Heights : \/ Evaluate(h)
                          \/ HeaderRace(h)
                          \/ BackoffElapses(h)
                          \/ OfferMissed(h)
                          \/ ReArm(h)
                          \/ GiveBackFloor(h)
                          \/ Rewind(h)
                          \/ ReInit(h)
    \/ \E p \in Peers : \/ PeerLost(p)
                        \/ \E h \in Heights : Rerequest(h, p)
    \/ \E f \in 1..(MaxHeight + 1) : \/ Abandon(f)
                                     \/ \E h \in Heights : Surface(h, f)
    \/ Retire \/ DriveOne \/ Reload

Spec == Init /\ [][Next]_vars

-----------------------------------------------------------------------------
(* h was judged, or reported to the user as a height the scan gave up.     *)
Settled(h) == h \in evaluated \/ h < surfacedBelow

(* Every height from the start through what was requested is settled or is *)
(* still a hole somebody will act on: no call sequence drops one.          *)
Covers(l) == \A h \in l.start..l.requestedThrough : Settled(h) \/ h \in HolesOf(l)

(* scannedThrough never counts a height that was neither judged nor        *)
(* reported, whatever order requests, answers and write-offs came in.      *)
Sound(l) == \A h \in l.start..l.scannedThrough : Settled(h)

(* BRCFScanLedger.c loses no height between its tables.                    *)
NoHeightLost == Covers(ledger)

(* The frontier BRCFScanLedger.c reports counts no unjudged height.         *)
FrontierIsSettled == Sound(ledger)

(* The ledger is a scan whose tables of holes are hidden: scannedThrough   *)
(* goes back only in RewindTo and Init of BRCFScanLedger.c, and what it    *)
(* passes is judged or reported.                                           *)
Scan == INSTANCE GaplessScan WITH
            start <- ledger.start, scanned <- ledger.scannedThrough,
            judged <- evaluated, reported <- surfacedBelow

ImplementsScan == Scan!Spec
=============================================================================
