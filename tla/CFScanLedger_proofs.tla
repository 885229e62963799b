------------------------ MODULE CFScanLedger_proofs ------------------------
(***************************************************************************)
(* No sequence of calls of the scan ledger loses a height: the type        *)
(* invariant and the two safety invariants of CFScanLedgerAPI, for every   *)
(* value of the constants; and the ledger implements a gapless scan, since *)
(* no call but RewindTo and Init takes scannedThrough back.                *)
(*                                                                         *)
(* NoHeightLost and FrontierIsSettled are not inductive by themselves: the *)
(* invariant is Safe, of CFScanLedger_lemmas, and each action is one       *)
(* operation that preserves it.                                            *)
(***************************************************************************)
EXTENDS CFScanLedgerAPI, CFScanLedger_lemmas

(* The inductive invariant of the specification.                           *)
Inv == Safe(ledger, evaluated, surfacedBelow)

(* A call that judges nothing and reports nothing new keeps the invariant. *)
LEMMA QuietStep ==
  ASSUME Inv, NEW m, Quietly(m), Safe(m, evaluated, surfacedBelow)
  PROVE  Inv'
<1>1. m.abandonedBelow <= surfacedBelow /\ m.abandonedBelow \in Nat /\ surfacedBelow \in Nat
  BY LedgerConstants DEF Safe, IsLedger
<1>2. Larger(surfacedBelow, m.abandonedBelow) = surfacedBelow
  BY <1>1 DEF Larger
<1>3. ledger' = m /\ surfacedBelow' = surfacedBelow /\ evaluated' = evaluated
  BY <1>2 DEF Quietly, Becomes
<1> QED
  BY <1>3 DEF Inv

(* The guards of RequestForward are what BRCFScanLedgerRecordRequested     *)
(* needs to lose no height.                                                *)
LEMMA RequestForwardIsSafe ==
  ASSUME Inv, NEW s \in Heights, NEW e \in Heights, NEW p \in Peers, RequestForward(s, e, p)
  PROVE  LET m == RecordRequested(ledger, s, e, p)
         IN Safe(m, evaluated, surfacedBelow) /\ Onwards(ledger, m)
<1>1. /\ ledger.scannedThrough \in Nat /\ ledger.requestedThrough \in Nat /\ s \in Nat
      /\ ledger.abandonedBelow \in Nat /\ surfacedBelow \in Nat
      /\ ledger.scannedThrough <= ledger.requestedThrough
      /\ ledger.abandonedBelow <= surfacedBelow
  BY LedgerConstants DEF Inv, Safe, IsLedger, Heights
<1>2. s <= LowestNeededHeight(ledger) \/ s <= ledger.requestedThrough + 1
  BY DEF RequestForward
<1>3. \A h \in Nat : ledger.requestedThrough < h /\ h < s => h < surfacedBelow
  BY <1>1, <1>2 DEF LowestNeededHeight, Larger
<1>4. /\ Cardinality(DOMAIN ledger.outstanding) < LowWater /\ e \in s..(s + MaxRange - 1)
      /\ LowWater \in Nat /\ LowWater + MaxRange <= OutstandingMax + 1
  BY GateLeavesRoom DEF RequestForward
<1>5. Safe(ledger, evaluated, surfacedBelow)
  BY DEF Inv
<1> QED
  BY <1>3, <1>4, <1>5, RecordRequestedIsSafe

(* The invariant holds of a fresh ledger.                                  *)
LEMMA InitIsSafe == Init => Inv
<1> SUFFICES ASSUME Init PROVE Inv
  OBVIOUS
<1>1. PICK s \in Heights : ledger = NewLedger(s) /\ evaluated = {} /\ surfacedBelow = 0
  BY DEF Init
<1>2. 0 \in 0..(MaxHeight + 1)
  BY LedgerConstants
<1>3. s \in 1..(MaxHeight + 1)
  BY LedgerConstants DEF Heights
<1>4. Safe(NewLedger(s), {}, 0)
  BY <1>2, <1>3, NewLedgerIsSafe
<1> QED
  BY <1>1, <1>4 DEF Inv

(* Every call keeps the invariant.                                         *)
LEMMA NextIsSafe == Inv /\ [Next]_vars => Inv'
<1> SUFFICES ASSUME Inv, [Next]_vars PROVE Inv'
  OBVIOUS
<1>0. Safe(ledger, evaluated, surfacedBelow) /\ IsLedger(ledger) /\ MaxRange \in Nat
  BY LedgerConstants DEF Inv, Safe
<1>1. ASSUME NEW s \in Heights, NEW e \in Heights, NEW p \in Peers, RequestForward(s, e, p)
      PROVE  Inv'
  <2>1. Safe(RecordRequested(ledger, s, e, p), evaluated, surfacedBelow)
    BY <1>0, <1>1, RequestForwardIsSafe
  <2> QED
    BY <1>1, <2>1, QuietStep DEF RequestForward
<1>2. ASSUME NEW h \in Heights, Evaluate(h) PROVE Inv'
  <2>1. Safe(MarkEvaluated(ledger, h), evaluated \cup {h}, surfacedBelow)
    BY <1>0, MarkEvaluatedIsSafe DEF MarkEvaluated
  <2> QED
    BY <1>2, <2>1 DEF Evaluate, Inv
<1>3. ASSUME NEW h \in Heights, HeaderRace(h) PROVE Inv'
  <2>1. h <= ledger.requestedThrough + 1
    BY <1>0, <1>3, LedgerConstants DEF HeaderRace, IsLedger
  <2>2. Safe(MarkHeaderRace(ledger, h), evaluated, surfacedBelow)
    BY <1>0, <1>3, <2>1, MarkHeaderRaceIsSafe DEF HeaderRace
  <2> QED
    BY <1>3, <2>2, QuietStep DEF HeaderRace
<1>4. ASSUME NEW h \in Heights, BackoffElapses(h) PROVE Inv'
  <2>1. Safe([ledger EXCEPT !.outstanding[h].due = TRUE], evaluated, surfacedBelow)
    BY <1>0, <1>4, BackoffIsSafe DEF BackoffElapses
  <2> QED
    BY <1>4, <2>1, QuietStep DEF BackoffElapses
<1>5. ASSUME NEW h \in Heights, OfferMissed(h) PROVE Inv'
  <2> DEFINE run == PeekRerequestRange(ledger, h)
  <2>1. Safe(MarkOffersMissedLivePeer(ledger, run), evaluated, surfacedBelow)
    BY <1>0, OffersMissedIsSafe
  <2> QED
    BY <1>5, <2>1, QuietStep DEF OfferMissed
<1>6. ASSUME NEW h \in Heights, ReArm(h) PROVE Inv'
  <2>1. Safe(ReArmParkedRun(ledger, h, MaxRange), evaluated, surfacedBelow)
    BY <1>0, ReArmParkedRunIsSafe
  <2> QED
    BY <1>6, <2>1, QuietStep DEF ReArm
<1>7. ASSUME NEW h \in Heights, GiveBackFloor(h) PROVE Inv'
  <2>1. Safe(RetireAbandonedTo(ledger, h), evaluated, surfacedBelow)
    BY <1>0, RetireAbandonedToIsSafe
  <2> QED
    BY <1>7, <2>1, QuietStep DEF GiveBackFloor
<1>8. ASSUME NEW h \in Heights, Rewind(h) PROVE Inv'
  <2> DEFINE m == RewindTo(ledger, h)
  <2>1. Safe(m, {k \in evaluated : k < h}, surfacedBelow)
    BY <1>0, RewindToIsSafe
  <2>2. m.abandonedBelow <= surfacedBelow /\ m.abandonedBelow \in Nat /\ surfacedBelow \in Nat
    BY <2>1, LedgerConstants DEF Safe, IsLedger
  <2>3. Larger(surfacedBelow, m.abandonedBelow) = surfacedBelow
    BY <2>2 DEF Larger
  <2>4. ledger' = m /\ surfacedBelow' = surfacedBelow /\ evaluated' = {k \in evaluated : k < h}
    BY <1>8, <2>3 DEF Rewind, Becomes
  <2> QED
    BY <2>1, <2>4 DEF Inv
<1>9. ASSUME NEW s \in Heights, ReInit(s) PROVE Inv'
  <2>1. s \in 1..(MaxHeight + 1)
    BY LedgerConstants DEF Heights
  <2>2. Safe(NewLedger(s), evaluated, surfacedBelow)
    BY <1>0, <2>1, NewLedgerIsSafe DEF Safe
  <2> QED
    BY <1>9, <2>2, QuietStep DEF ReInit
<1>10. ASSUME NEW p \in Peers, PeerLost(p) PROVE Inv'
  <2>1. Safe(ReArmPeer(ledger, p), evaluated, surfacedBelow)
    BY <1>0, ReArmPeerIsSafe
  <2> QED
    BY <1>10, <2>1, QuietStep DEF PeerLost
<1>11. ASSUME NEW h \in Heights, NEW p \in Peers, Rerequest(h, p) PROVE Inv'
  <2> DEFINE run == PeekRerequestRange(ledger, h)
  <2>1. \A k \in run : k \in DOMAIN ledger.outstanding /\ ~ Capped(ledger.outstanding[k])
    BY <1>0, PeekedAreOfferable
  <2> HIDE DEF run
  <2>2. Safe(CommitRerequest(ledger, run, p), evaluated, surfacedBelow)
    BY <1>0, <2>1, CommitIsSafe
  <2> QED
    BY <1>11, <2>2, QuietStep DEF Rerequest, run
<1>12. ASSUME NEW f \in 1..(MaxHeight + 1), Abandon(f) PROVE Inv'
  <2> DEFINE m == AbandonGaveUpBelow(ledger, f)
  <2>1. f \in Nat
    BY LedgerConstants
  <2>2. Safe(m, evaluated, Larger(surfacedBelow, m.abandonedBelow))
    BY <1>0, <2>1, AbandonGaveUpIsSafe
  <2> QED
    BY <1>12, <2>2 DEF Abandon, Quietly, Becomes, Inv
<1>13. ASSUME NEW h \in Heights, NEW f \in 1..(MaxHeight + 1), Surface(h, f) PROVE Inv'
  <2> DEFINE m == AbandonUnscannableBelow(ledger, h, f)
  <2>1. Safe(m, evaluated, Larger(surfacedBelow, m.abandonedBelow))
    BY <1>0, AbandonUnscannableIsSafe
  <2> QED
    BY <1>13, <2>1 DEF Surface, Quietly, Becomes, Inv
<1>14. ASSUME Retire PROVE Inv'
  <2>1. Safe(RetireCapped(ledger), evaluated, surfacedBelow)
    BY <1>0, RetireCappedIsSafe
  <2> QED
    BY <1>14, <2>1, QuietStep DEF Retire
<1>15. ASSUME DriveOne PROVE Inv'
  <2>1. Safe(NextRerequest(ledger), evaluated, surfacedBelow)
    BY <1>0, NextRerequestIsSafe
  <2> QED
    BY <1>15, <2>1, QuietStep DEF DriveOne
<1>16. ASSUME Reload PROVE Inv'
  <2>1. Safe(Serialized(ledger), evaluated, surfacedBelow)
    BY <1>0, SerializedIsSafe
  <2> QED
    BY <1>16, <2>1, QuietStep DEF Reload
<1>17. CASE UNCHANGED vars
  BY <1>0, <1>17 DEF Inv, vars
<1> QED
  BY <1>1, <1>2, <1>3, <1>4, <1>5, <1>6, <1>7, <1>8, <1>9, <1>10, <1>11, <1>12, <1>13,
     <1>14, <1>15, <1>16, <1>17 DEF Next

(* The invariant holds throughout.                                         *)
LEMMA LedgerStaysSafe == Spec => []Inv
  BY InitIsSafe, NextIsSafe, PTL DEF Spec

(* The fields of the ledger stay in their ranges: no counter of attempts   *)
(* or cycles passes its cap and no hole leaves the heights, whatever is    *)
(* called.                                                                 *)
THEOREM TypeCorrect == Spec => []TypeOK
<1>1. Inv => TypeOK
  BY DEF Inv, Safe, TypeOK
<1> QED
  BY <1>1, LedgerStaysSafe, PTL

(* Every height from the start through requestedThrough is judged, was     *)
(* reported as abandoned, or is still a hole: BRCFScanLedger drops none,   *)
(* under the low-water gate and contiguous requests of its callers.        *)
THEOREM NeverLosesAHeight == Spec => []NoHeightLost
<1>1. Inv => NoHeightLost
  BY DEF Inv, Safe, NoHeightLost, Covers, Settled
<1> QED
  BY <1>1, LedgerStaysSafe, PTL

(* scannedThrough never counts a height that was neither judged nor        *)
(* reported.                                                               *)
THEOREM FrontierIsHonest == Spec => []FrontierIsSettled
<1>1. Inv => FrontierIsSettled
  BY DEF Inv, Safe, FrontierIsSettled, Sound, Settled
<1> QED
  BY <1>1, LedgerStaysSafe, PTL

-----------------------------------------------------------------------------
(* A step that keeps the start, the verdicts and the reports, and goes     *)
(* onwards, is one of the abstract scan.                                   *)
LEMMA OnwardsProceeds ==
  ASSUME Inv, Inv', Onwards(ledger, ledger'),
         evaluated \subseteq evaluated', surfacedBelow' >= surfacedBelow
  PROVE  Scan!Proceed
  BY DEF Onwards, Inv, Safe, Scan!Proceed, Scan!Gapless, Scan!Done

(* A call that is a new ledger going onwards is such a step.               *)
LEMMA QuietlyProceeds ==
  ASSUME Inv, Inv', NEW m, Quietly(m), Onwards(ledger, m)
  PROVE  Scan!Proceed
<1>1. ledger' = m /\ evaluated' = evaluated
  BY DEF Quietly, Becomes
<1>2. surfacedBelow' = Larger(surfacedBelow, m.abandonedBelow)
  BY DEF Quietly, Becomes
<1>3. surfacedBelow \in Nat /\ surfacedBelow' \in Nat
  BY LedgerConstants DEF Inv, Safe
<1>4. surfacedBelow' >= surfacedBelow
  <2>1. CASE surfacedBelow < m.abandonedBelow
    BY <1>2, <1>3, <2>1 DEF Larger
  <2>2. CASE ~ (surfacedBelow < m.abandonedBelow)
    BY <1>2, <1>3, <2>2 DEF Larger
  <2> QED
    BY <2>1, <2>2
<1> QED
  BY <1>1, <1>4, OnwardsProceeds

(* A new scan starts as the abstract one does.                             *)
LEMMA InitImplements == Init => Scan!Init
<1> SUFFICES ASSUME NEW s \in Heights, ledger = NewLedger(s),
                    evaluated = {}, surfacedBelow = 0
             PROVE  Scan!Init
  BY DEF Init
<1>1. s \in Nat /\ s > 0
  BY LedgerConstants DEF Heights
<1>2. ledger.start = s /\ ledger.scannedThrough = s - 1
  BY <1>1 DEF NewLedger
<1> QED
  BY <1>2 DEF Scan!Init

(* Every call of the ledger is a step of the abstract scan.                *)
LEMMA NextImplements == Inv /\ Inv' /\ [Next]_vars => [Scan!Next]_(Scan!vars)
<1> SUFFICES ASSUME Inv, Inv', [Next]_vars PROVE [Scan!Next]_(Scan!vars)
  OBVIOUS
<1>0. Safe(ledger, evaluated, surfacedBelow) /\ IsLedger(ledger) /\ MaxRange \in Nat
  BY LedgerConstants DEF Inv, Safe
<1>1. ASSUME NEW s \in Heights, NEW e \in Heights, NEW p \in Peers, RequestForward(s, e, p)
      PROVE  Scan!Proceed
  <2>1. Onwards(ledger, RecordRequested(ledger, s, e, p))
    BY <1>1, RequestForwardIsSafe
  <2> QED
    BY <1>1, <2>1, QuietlyProceeds DEF RequestForward
<1>2. ASSUME NEW h \in Heights, Evaluate(h) PROVE Scan!Proceed
  <2>1. Onwards(ledger, ledger')
    BY <1>0, <1>2, MarkEvaluatedIsSafe DEF Evaluate, MarkEvaluated, Follows
  <2>2. surfacedBelow' >= surfacedBelow
    BY <1>0, <1>2, LedgerConstants DEF Evaluate, Safe
  <2> QED
    BY <1>2, <2>1, <2>2, OnwardsProceeds DEF Evaluate
<1>3. ASSUME NEW h \in Heights, HeaderRace(h) PROVE Scan!Proceed
  <2>1. h <= ledger.requestedThrough + 1
    BY <1>0, <1>3, LedgerConstants DEF HeaderRace, IsLedger
  <2>2. Onwards(ledger, MarkHeaderRace(ledger, h))
    BY <1>0, <1>3, <2>1, MarkHeaderRaceIsSafe DEF HeaderRace
  <2> QED
    BY <1>3, <2>2, QuietlyProceeds DEF HeaderRace
<1>4. ASSUME NEW h \in Heights, BackoffElapses(h) PROVE Scan!Proceed
  <2>1. Onwards(ledger, [ledger EXCEPT !.outstanding[h].due = TRUE])
    BY <1>0, <1>4, BackoffIsSafe DEF BackoffElapses, Follows
  <2> QED
    BY <1>4, <2>1, QuietlyProceeds DEF BackoffElapses
<1>5. ASSUME NEW h \in Heights, OfferMissed(h) PROVE Scan!Proceed
  <2>1. Onwards(ledger, MarkOffersMissedLivePeer(ledger, PeekRerequestRange(ledger, h)))
    BY <1>0, OffersMissedIsSafe DEF Follows
  <2> QED
    BY <1>5, <2>1, QuietlyProceeds DEF OfferMissed
<1>6. ASSUME NEW h \in Heights, ReArm(h) PROVE Scan!Proceed
  <2>1. Onwards(ledger, ReArmParkedRun(ledger, h, MaxRange))
    BY <1>0, ReArmParkedRunIsSafe DEF Follows
  <2> QED
    BY <1>6, <2>1, QuietlyProceeds DEF ReArm
<1>7. ASSUME NEW h \in Heights, GiveBackFloor(h) PROVE Scan!Proceed
  <2>1. Onwards(ledger, RetireAbandonedTo(ledger, h))
    BY <1>0, RetireAbandonedToIsSafe DEF Follows
  <2> QED
    BY <1>7, <2>1, QuietlyProceeds DEF GiveBackFloor
<1>8. ASSUME NEW h \in Heights, Rewind(h) PROVE Scan!ScanAgain(h)
  <2> DEFINE m == RewindTo(ledger, h)
  <2>1. /\ Safe(m, {k \in evaluated : k < h}, surfacedBelow)
        /\ m.start = Smaller(ledger.start, h)
        /\ m.scannedThrough >= Smaller(ledger.scannedThrough, h - 1)
    BY <1>0, RewindToIsSafe
  <2>2. m.abandonedBelow <= surfacedBelow /\ m.abandonedBelow \in Nat /\ surfacedBelow \in Nat
    BY <2>1, LedgerConstants DEF Safe, IsLedger
  <2>3. Larger(surfacedBelow, m.abandonedBelow) = surfacedBelow
    BY <2>2 DEF Larger
  <2>4. ledger' = m /\ surfacedBelow' = surfacedBelow /\ evaluated' = {k \in evaluated : k < h}
    BY <1>8, <2>3 DEF Rewind, Becomes
  <2> HIDE DEF m
  <2>5. \A a, b : Scan!Lower(a, b) = Smaller(a, b)
    BY DEF Scan!Lower, Smaller
  <2>6. Scan!Gapless'
    BY DEF Inv, Safe, Scan!Gapless, Scan!Done
  <2> QED
    BY <2>1, <2>2, <2>4, <2>5, <2>6 DEF Scan!ScanAgain
<1>9. ASSUME NEW s \in Heights, ReInit(s) PROVE Scan!StartAnew
  <2>1. s \in Nat /\ s > 0 /\ surfacedBelow \in Nat
    BY <1>0, LedgerConstants DEF Heights, Safe
  <2>2. /\ NewLedger(s).start = s /\ NewLedger(s).scannedThrough = s - 1
        /\ NewLedger(s).abandonedBelow = 0
    BY <2>1 DEF NewLedger
  <2>3. Larger(surfacedBelow, 0) = surfacedBelow
    BY <2>1 DEF Larger
  <2>4. ledger' = NewLedger(s) /\ evaluated' = evaluated /\ surfacedBelow' = surfacedBelow
    BY <1>9, <2>2, <2>3 DEF ReInit, Quietly, Becomes
  <2> QED
    BY <2>1, <2>2, <2>4 DEF Scan!StartAnew, Scan!Done
<1>10. ASSUME NEW p \in Peers, PeerLost(p) PROVE Scan!Proceed
  <2>1. Onwards(ledger, ReArmPeer(ledger, p))
    BY <1>0, ReArmPeerIsSafe DEF Follows
  <2> QED
    BY <1>10, <2>1, QuietlyProceeds DEF PeerLost
<1>11. ASSUME NEW h \in Heights, NEW p \in Peers, Rerequest(h, p) PROVE Scan!Proceed
  <2> DEFINE run == PeekRerequestRange(ledger, h)
  <2>1. \A k \in run : k \in DOMAIN ledger.outstanding /\ ~ Capped(ledger.outstanding[k])
    BY <1>0, PeekedAreOfferable
  <2> HIDE DEF run
  <2>2. Onwards(ledger, CommitRerequest(ledger, run, p))
    BY <1>0, <2>1, CommitIsSafe DEF Follows
  <2> QED
    BY <1>11, <2>2, QuietlyProceeds DEF Rerequest, run
<1>12. ASSUME NEW f \in 1..(MaxHeight + 1), Abandon(f) PROVE Scan!Proceed
  <2>1. f \in Nat
    BY LedgerConstants
  <2>2. Onwards(ledger, AbandonGaveUpBelow(ledger, f))
    BY <1>0, <2>1, AbandonGaveUpIsSafe DEF Follows
  <2> QED
    BY <1>12, <2>2, QuietlyProceeds DEF Abandon
<1>13. ASSUME NEW h \in Heights, NEW f \in 1..(MaxHeight + 1), Surface(h, f)
       PROVE  Scan!Proceed
  <2>1. Onwards(ledger, AbandonUnscannableBelow(ledger, h, f))
    BY <1>0, AbandonUnscannableIsSafe DEF Follows
  <2> QED
    BY <1>13, <2>1, QuietlyProceeds DEF Surface
<1>14. ASSUME Retire PROVE Scan!Proceed
  <2>1. Onwards(ledger, RetireCapped(ledger))
    BY <1>0, RetireCappedIsSafe DEF Follows
  <2> QED
    BY <1>14, <2>1, QuietlyProceeds DEF Retire
<1>15. ASSUME DriveOne PROVE Scan!Proceed
  <2>1. Onwards(ledger, NextRerequest(ledger))
    BY <1>0, NextRerequestIsSafe DEF Follows
  <2> QED
    BY <1>15, <2>1, QuietlyProceeds DEF DriveOne
<1>16. ASSUME Reload PROVE Scan!Proceed
  <2>1. Onwards(ledger, Serialized(ledger))
    BY <1>0, SerializedIsSafe DEF Follows
  <2> QED
    BY <1>16, <2>1, QuietlyProceeds DEF Reload
<1>17. CASE UNCHANGED vars
  BY <1>17 DEF vars, Scan!vars
<1> QED
  BY <1>1, <1>2, <1>3, <1>4, <1>5, <1>6, <1>7, <1>8, <1>9, <1>10, <1>11, <1>12, <1>13,
     <1>14, <1>15, <1>16, <1>17 DEF Next, Scan!Next

(* With its tables of holes hidden, BRCFScanLedger is a scan that passes   *)
(* only judged or reported heights and goes back only when its verdicts    *)
(* are void or a scan starts.                                              *)
THEOREM LedgerImplementsScan == Spec => ImplementsScan
<1>1. Init => Scan!Init
  BY InitImplements
<1>2. Inv /\ Inv' /\ [Next]_vars => [Scan!Next]_(Scan!vars)
  BY NextImplements
<1> QED
  BY <1>1, <1>2, LedgerStaysSafe, PTL DEF Spec, ImplementsScan, Scan!Spec
=============================================================================
