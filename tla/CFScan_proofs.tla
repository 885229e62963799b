---------------------------- MODULE CFScan_proofs ----------------------------
(***************************************************************************)
(* What holds of the filter scan of BRPeerManager.c for every value of the *)
(* constants.  First the types, whatever faults there are; then ScanInv,   *)
(* for the faults that Followed allows: one lemma for each action, from    *)
(* the lemmas of CFScan_lemmas about the operators that the action         *)
(* composes; at the end, that the scan implements GaplessScan.             *)
(***************************************************************************)
EXTENDS CFScan_lemmas

WalletTyped ==
    /\ txs \in [Wanted -> {"unknown", "known", "confirmed"}]
    /\ held \subseteq [height : Wanted, main : BOOLEAN]
    /\ grown \in BOOLEAN

DiskTyped ==
    /\ disk = [ledger |-> disk.ledger, chain |-> disk.chain]
    /\ IsChain(disk.chain)
    /\ \A l \in disk.ledger : Safe(l, Heights, cf.surfacedBelow) /\ l.start >= 1
    /\ \A l, m \in disk.ledger : l = m

Budgets == reanchors \in 0..ReanchorMax /\ faults \in 0..MaxFaults

(* The types, with what the scan needs of them to keep them: the numbers   *)
(* of the ledger in memory and on disk are ordered as a ledger's are.      *)
TypeInv == Holds(cf, Heights) /\ Surroundings /\ WalletTyped /\ DiskTyped /\ Budgets

(* TypeInv contains the types.                                             *)
LEMMA TypeInvIsTyped == TypeInv => TypeOK
<1> SUFFICES ASSUME TypeInv PROVE TypeOK
  OBVIOUS
<1>1. Holds(cf, Heights) /\ Surroundings /\ WalletTyped /\ DiskTyped /\ Budgets
  BY DEF TypeInv
<1>2. ScanState(cf)
  <2>1. /\ IsRecord(cf) /\ Safe(cf.ledger, Heights, cf.surfacedBelow)
        /\ cf.autoStart \in 1..(MaxHeight + 1) /\ cf.autoThrough \in 0..MaxHeight
        /\ IsChain(cf.chain)
        /\ cf.solicited \subseteq Heights /\ cf.buffered \subseteq Heights /\ cf.judged \subseteq Heights
    BY <1>1 DEF Holds
  <2>2. IsLedger(cf.ledger) /\ cf.surfacedBelow \in 0..(MaxHeight + 1) /\ cf.chain \in Chain
    BY <2>1 DEF Safe, IsChain
  <2>3. cf.autoStart \in Heights \cup {MaxHeight + 1}
    BY <2>1, LedgerConstants DEF Heights
  <2>4. cf = [ledger |-> cf.ledger, autoStart |-> cf.autoStart, autoThrough |-> cf.autoThrough,
              chain |-> cf.chain, solicited |-> cf.solicited, buffered |-> cf.buffered,
              judged |-> cf.judged, surfacedBelow |-> cf.surfacedBelow]
    BY <2>1, RecordOfFields
  <2> HIDE DEF Heights
  <2> QED
    BY <2>1, <2>2, <2>3, <2>4 DEF ScanState
<1>3. disk.chain \in Chain /\ \A l \in disk.ledger : IsLedger(l)
  BY <1>1 DEF DiskTyped, IsChain, Safe
<1> QED
  BY <1>1, <1>2, <1>3 DEF TypeOK, Surroundings, WalletTyped, Budgets

-----------------------------------------------------------------------------
(* The disk, when it is kept and when it is written.                       *)

LEMMA DiskKept ==
  DiskTyped /\ Holds(cf, Heights) /\ Holds(cf', Heights)
    /\ cf.surfacedBelow <= cf'.surfacedBelow /\ disk' = disk => DiskTyped'
<1> SUFFICES ASSUME DiskTyped, Holds(cf, Heights), Holds(cf', Heights),
                    cf.surfacedBelow <= cf'.surfacedBelow, disk' = disk
             PROVE  DiskTyped'
  OBVIOUS
<1>1. cf'.surfacedBelow \in 0..(MaxHeight + 1)
  BY DEF Holds, Safe
<1>2. \A l \in disk.ledger : Safe(l, Heights, cf'.surfacedBelow)
  BY <1>1, SafeIsMonotone DEF DiskTyped
<1> QED
  BY <1>2 DEF DiskTyped

LEMMA DiskWritten ==
  ASSUME NEW c, Holds(c, Heights), NEW hs, hs \subseteq [height : Wanted, main : BOOLEAN],
         NEW sb \in 0..(MaxHeight + 1), c.surfacedBelow <= sb
  PROVE  Safe(SavedLedger(c, hs), Heights, sb) /\ SavedLedger(c, hs).start >= 1
<1>1. \A e \in hs : e.height \in Heights
  BY ScanConstants DEF Wanted
<1> DEFINE l == SavedLedger(c, hs)
           kept == Heights \ {e.height : e \in hs}
<1>2. Safe(l, kept, c.surfacedBelow) /\ l.start >= 1
  BY <1>1, SavedLedgerHolds
<1>3. kept \subseteq Heights
  OBVIOUS
<1> HIDE DEF l, kept
<1>4. Safe(l, Heights, sb)
  BY <1>2, <1>3, SafeIsMonotone
<1> QED
  BY <1>2, <1>4 DEF l

(* A write of the ledger alone, or of both.                                *)
LEMMA DiskPersisted ==
  \A c, hs : /\ DiskTyped /\ Persist(c, hs) /\ Holds(c, Heights) /\ Holds(cf', Heights)
             /\ hs \subseteq [height : Wanted, main : BOOLEAN]
             /\ c.surfacedBelow <= cf'.surfacedBelow
             => DiskTyped'
<1> SUFFICES ASSUME NEW c, NEW hs, DiskTyped, Persist(c, hs), Holds(c, Heights), Holds(cf', Heights),
                    hs \subseteq [height : Wanted, main : BOOLEAN],
                    c.surfacedBelow <= cf'.surfacedBelow
             PROVE  DiskTyped'
  OBVIOUS
<1>1. cf'.surfacedBelow \in 0..(MaxHeight + 1)
  BY DEF Holds, Safe
<1>2. Safe(SavedLedger(c, hs), Heights, cf'.surfacedBelow) /\ SavedLedger(c, hs).start >= 1
  BY <1>1, DiskWritten
<1>3. /\ disk' = [ledger |-> {SavedLedger(c, hs)}, chain |-> disk.chain]
  BY DEF DiskTyped, Persist
<1> QED
  BY <1>2, <1>3 DEF DiskTyped

(* What a step that keeps the types must show.                             *)
LEMMA TypedStep ==
  TypeInv /\ Holds(cf', Heights) /\ Surroundings' /\ WalletTyped' /\ DiskTyped' /\ Budgets'
    => TypeInv'
  BY DEF TypeInv

(* Fault spends the budget of faults within its bound.                     *)
LEMMA FaultCounts ==
  \A kind : faults \in 0..MaxFaults /\ Fault(kind) => faults' \in 0..MaxFaults
  BY ScanConstants DEF Fault

-----------------------------------------------------------------------------
(* Each action keeps the types.                                            *)

LEMMA InitTyped == Init => TypeInv
<1> SUFFICES ASSUME Init PROVE TypeInv
  OBVIOUS
<1> USE DEF Init
<1>1. /\ MaxHeight \in Nat /\ Birth \in Heights /\ Birth \in Nat /\ 1 <= Birth /\ Birth <= MaxHeight
      /\ ReanchorMax \in Nat /\ MaxFaults \in Nat
  BY LedgerConstants, ScanConstants DEF Heights
<1>2. IsChain(NoChain)
  BY <1>1 DEF IsChain, NoChain, Chain
<1>3. Holds(cf, Heights)
  <2>1. ClampedStart(Birth, Birth) = Birth
    BY <1>1 DEF ClampedStart
  <2>2. Settles(Heights, 0, Birth, ClampedStart(Birth, Birth) - 1)
    BY <1>1, <2>1 DEF Settles
  <2>3. 0 \in 0..(MaxHeight + 1) /\ Birth \in 1..Birth
    BY <1>1
  <2> QED
    BY <1>1, <1>2, <2>2, <2>3, StartedHolds
<1>4. Surroundings
  BY <1>1 DEF Surroundings
<1>5. WalletTyped
  BY DEF WalletTyped
<1>6. DiskTyped
  BY <1>2 DEF DiskTyped
<1>7. Budgets
  BY <1>1 DEF Budgets
<1> QED
  BY <1>3, <1>4, <1>5, <1>6, <1>7 DEF TypeInv

LEMMA RestartTyped == TypeInv /\ Restart => TypeInv'
<1> SUFFICES ASSUME TypeInv, Restart PROVE TypeInv'
  OBVIOUS
<1>1. /\ Holds(cf, Heights) /\ Surroundings /\ WalletTyped /\ DiskTyped /\ Budgets
  BY DEF TypeInv
<1>2. /\ Fault("restart")
      /\ tip' \in Larger(tip - 1, 1)..tip
      /\ blockFloor' \in Larger(tip' - SaveCount + 1, 1)..tip'
      /\ connected' = {} /\ held' = {} /\ reanchors' = 0
      /\ UNCHANGED <<txs, grown, disk>>
  BY DEF Restart
<1>3. /\ tip \in Nat /\ 1 <= tip /\ tip <= MaxHeight /\ MaxHeight \in Nat /\ SaveCount \in Nat
      /\ Birth \in Nat /\ 1 <= Birth /\ ReanchorMax \in Nat
  BY <1>1, LedgerConstants, ScanConstants DEF Surroundings, Heights
<1>4. tip' \in Heights /\ tip' \in Nat
  BY <1>2, <1>3 DEF Larger, Heights
<1>5. blockFloor' \in 1..tip'
  <2> DEFINE low == Larger(tip' - SaveCount + 1, 1)
  <2>1. low \in Nat /\ 1 <= low
    <3>1. \A x \in Int : Larger(x, 1) \in Nat /\ 1 <= Larger(x, 1)
      BY DEF Larger
    <3>2. tip' - SaveCount + 1 \in Int
      BY <1>3, <1>4
    <3> QED
      BY <3>1, <3>2
  <2>2. blockFloor' \in low..tip'
    BY <1>2
  <2> HIDE DEF low
  <2> QED
    BY <1>4, <2>1, <2>2
<1>6. PICK chain \in {disk.chain, NoChain}, ledgers \in {disk.ledger, {}} :
         cf' = Started(tip', blockFloor', ledgers, chain,
                       cf.judged \ {e.height : e \in held}, cf.surfacedBelow)
  BY DEF Restart
<1>7. IsChain(chain)
  <2>1. IsChain(NoChain)
    BY <1>3 DEF IsChain, NoChain, Chain
  <2> QED
    BY <1>1, <2>1 DEF DiskTyped
<1>8. Holds(cf', Heights) /\ cf.surfacedBelow <= cf'.surfacedBelow
  <2> DEFINE j == cf.judged \ {e.height : e \in held}
  <2>1. j \subseteq Heights /\ cf.surfacedBelow \in 0..(MaxHeight + 1)
    BY <1>1 DEF Holds, Safe
  <2> HIDE DEF j
  <2>2. \A l \in ledgers : /\ Safe(l, Heights, cf.surfacedBelow) /\ l.start >= 1
                           /\ Settles(Heights, cf.surfacedBelow, Birth, l.start - 1)
    <3> SUFFICES ASSUME NEW l \in ledgers
                 PROVE  /\ Safe(l, Heights, cf.surfacedBelow) /\ l.start >= 1
                        /\ Settles(Heights, cf.surfacedBelow, Birth, l.start - 1)
      OBVIOUS
    <3>1. l \in disk.ledger
      BY <1>6
    <3>2. Safe(l, Heights, cf.surfacedBelow) /\ l.start >= 1
      BY <1>1, <3>1 DEF DiskTyped
    <3>3. l.start \in 0..(MaxHeight + 1)
      BY <3>2 DEF Safe, IsLedger
    <3> QED
      BY <1>3, <3>2, <3>3, HeightsSettle
  <2>3. Settles(Heights, cf.surfacedBelow, Birth, ClampedStart(tip', blockFloor') - 1)
    <3>1. ClampedStart(tip', blockFloor') \in 1..MaxHeight
      BY <1>4, <1>5, ClampedStartIsHeight DEF Heights
    <3> QED
      BY <1>3, <3>1, HeightsSettle
  <2> DEFINE d == Started(tip', blockFloor', ledgers, chain, j, cf.surfacedBelow)
  <2>4. Holds(d, Heights) /\ cf.surfacedBelow <= d.surfacedBelow
    BY <1>4, <1>5, <1>7, <2>1, <2>2, <2>3, StartedHolds
  <2>5. cf' = d
    BY <1>6 DEF j
  <2> HIDE DEF d
  <2> QED
    BY <2>4, <2>5
<1>9. Surroundings'
  BY <1>2, <1>4, <1>5 DEF Surroundings
<1>10. WalletTyped'
  BY <1>1, <1>2 DEF WalletTyped
<1>11. DiskTyped'
  BY <1>1, <1>2, <1>8, DiskKept
<1>12. Budgets'
  BY <1>1, <1>2, <1>3, FaultCounts DEF Budgets
<1> QED
  BY <1>8, <1>9, <1>10, <1>11, <1>12, TypedStep

-----------------------------------------------------------------------------
(* What each action makes of the scan state, whatever counts as judged.    *)

(* Blocks, peers, a forced re-anchor and a floor given back judge nothing. *)
Quiet ==
    \/ \E busy \in BOOLEAN : BlockConnects(busy)
    \/ \E p \in Peers, busy \in BOOLEAN : Connect(p, busy)
    \/ \E p \in Peers : Disconnect(p)
    \/ Reanchor \/ RetireAbandonedBand

LEMMA QuietScan ==
  \A ev : Holds(cf, ev) /\ Surroundings /\ Quiet
            => Holds(cf', ev) /\ Later(cf, cf') /\ Moves(cf, cf') /\ cf'.judged = cf.judged
<1> SUFFICES ASSUME NEW ev, Holds(cf, ev), Surroundings, Quiet
             PROVE  Holds(cf', ev) /\ Later(cf, cf') /\ Moves(cf, cf') /\ cf'.judged = cf.judged
  OBVIOUS
<1>1. blockFloor \in 1..(MaxHeight + 1) /\ blockFloor \in Heights
  BY FloorIsHeight
<1>2. ASSUME NEW busy \in BOOLEAN, NEW t,
             cf' = cf \/ cf' = RequestNextCFHeaders(cf, t, blockFloor, busy)
      PROVE  Holds(cf', ev) /\ Later(cf, cf') /\ Moves(cf, cf') /\ cf'.judged = cf.judged
  BY <1>1, <1>2, LaterSelf, RequestNextHolds DEF Moves
<1>3. ASSUME NEW busy \in BOOLEAN, BlockConnects(busy)
      PROVE  Holds(cf', ev) /\ Later(cf, cf') /\ Moves(cf, cf') /\ cf'.judged = cf.judged
  <2>1. cf' = cf \/ cf' = RequestNextCFHeaders(cf, tip + 1, blockFloor, busy)
    BY <1>3 DEF BlockConnects
  <2> QED
    BY <1>2, <2>1
<1>4. ASSUME NEW p \in Peers, NEW busy \in BOOLEAN, Connect(p, busy)
      PROVE  Holds(cf', ev) /\ Later(cf, cf') /\ Moves(cf, cf') /\ cf'.judged = cf.judged
  <2>1. cf' = RequestNextCFHeaders(cf, tip, blockFloor, busy)
    BY <1>4 DEF Connect
  <2> QED
    BY <1>2, <2>1
<1>5. ASSUME NEW l, Follows(cf.ledger, l), Safe(l, ev, cf.surfacedBelow), cf' = [cf EXCEPT !.ledger = l]
      PROVE  Holds(cf', ev) /\ Later(cf, cf') /\ Moves(cf, cf') /\ cf'.judged = cf.judged
  BY <1>5, LedgerStepHolds, WithLedger DEF Holds, Moves
<1>6. ASSUME NEW p \in Peers, Disconnect(p)
      PROVE  Holds(cf', ev) /\ Later(cf, cf') /\ Moves(cf, cf') /\ cf'.judged = cf.judged
  <2> DEFINE l == ReArmPeer(cf.ledger, p)
  <2>1. Safe(l, ev, cf.surfacedBelow) /\ Follows(cf.ledger, l)
    BY ReArmPeerIsSafe DEF Holds
  <2>2. cf' = [cf EXCEPT !.ledger = l]
    BY <1>6 DEF Disconnect
  <2> HIDE DEF l
  <2> QED
    BY <1>5, <2>1, <2>2
<1>7. ASSUME Reanchor
      PROVE  Holds(cf', ev) /\ Later(cf, cf') /\ Moves(cf, cf') /\ cf'.judged = cf.judged
  <2> DEFINE b == FALSE
             d == ReanchorAtFloor(cf, tip, blockFloor, b)
  <2>1. cf' = d
    BY <1>7 DEF Reanchor
  <2> HIDE DEF b
  <2>2. Holds(d, ev) /\ Later(cf, d) /\ Moves(cf, d) /\ d.judged = cf.judged
    BY <1>1, ReanchorHolds
  <2> HIDE DEF d
  <2> QED
    BY <2>1, <2>2
<1>8. ASSUME RetireAbandonedBand
      PROVE  Holds(cf', ev) /\ Later(cf, cf') /\ Moves(cf, cf') /\ cf'.judged = cf.judged
  <2> DEFINE l == RetireAbandonedTo(cf.ledger, blockFloor)
  <2>1. Safe(l, ev, cf.surfacedBelow) /\ Follows(cf.ledger, l)
    BY <1>1, RetireAbandonedToIsSafe DEF Holds
  <2>2. cf' = [cf EXCEPT !.ledger = l]
    BY <1>8 DEF RetireAbandonedBand
  <2> HIDE DEF l
  <2> QED
    BY <1>5, <2>1, <2>2
<1> QED
  BY <1>3, <1>4, <1>6, <1>7, <1>8 DEF Quiet

(* A batch of filter headers: the chain is saved as it was extended.       *)
LEMMA CFHeadersScan ==
  \A ev, n, p, refund :
    Holds(cf, ev) /\ Surroundings /\ n \in 1..HdrBatch /\ p \in Peers /\ CFHeaders(n, p, refund)
      => \E c : /\ Holds(c, ev) /\ (Tight(cf) => Tight(c)) /\ (Anchored(cf) => Anchored(c))
                /\ c.judged = cf.judged /\ c.surfacedBelow = cf.surfacedBelow
                /\ Holds(cf', ev) /\ Later(c, cf') /\ Moves(cf, cf') /\ cf'.judged = c.judged
                /\ disk' = [ledger |-> {SavedLedger(c, held)}, chain |-> c.chain]
<1> SUFFICES ASSUME NEW ev, NEW n \in 1..HdrBatch, NEW p \in Peers, NEW refund,
                    Holds(cf, ev), Surroundings, CFHeaders(n, p, refund)
             PROVE  \E c : /\ Holds(c, ev) /\ (Tight(cf) => Tight(c)) /\ (Anchored(cf) => Anchored(c))
                           /\ c.judged = cf.judged /\ c.surfacedBelow = cf.surfacedBelow
                           /\ Holds(cf', ev) /\ Later(c, cf') /\ Moves(cf, cf')
                           /\ cf'.judged = c.judged
                           /\ disk' = [ledger |-> {SavedLedger(c, held)}, chain |-> c.chain]
  OBVIOUS
<1> DEFINE stop == Anchor(cf) + n - 1
           c == [cf EXCEPT !.chain =
                   [start |-> IF cf.chain = NoChain THEN cf.autoStart ELSE @.start, next |-> stop + 1]]
           d == ForwardFetch(c, p)
           b == FALSE
           e == RequestNextCFHeaders(d, tip, blockFloor, b)
<1>1. /\ stop \in blockFloor..tip /\ cf' = e
      /\ disk' = [ledger |-> {SavedLedger(c, held)}, chain |-> c.chain]
  <2>1. Anchor(cf) = IF cf.chain = NoChain THEN cf.autoStart ELSE cf.chain.next
    BY DEF Anchor
  <2>2. Resident(stop) /\ cf' = e /\ disk' = [ledger |-> {SavedLedger(c, held)}, chain |-> c.chain]
    <3> HIDE DEF Anchor
    <3> QED
      BY <2>1 DEF CFHeaders
  <2> QED
    BY <2>2 DEF Resident
<1>2. stop \in Heights /\ blockFloor \in 1..(MaxHeight + 1)
  <2> HIDE DEF stop
  <2> QED
    BY <1>1, FloorIsHeight, LedgerConstants DEF Heights
<1> HIDE DEF stop
<1>3. /\ Holds(c, ev) /\ (Tight(cf) => Tight(c)) /\ (Anchored(cf) => Anchored(c))
      /\ c.judged = cf.judged /\ c.surfacedBelow = cf.surfacedBelow /\ c.ledger = cf.ledger
  BY <1>2, ExtendedHolds DEF stop
<1> HIDE DEF c
<1>4. Holds(d, ev) /\ Later(c, d) /\ d.judged = c.judged /\ Onwards(c.ledger, d.ledger)
  BY <1>3, ForwardFetchHolds
<1> HIDE DEF d, b
<1>5. Holds(e, ev) /\ Later(d, e) /\ Moves(d, e) /\ e.judged = d.judged
  BY <1>2, <1>4, RequestNextHolds
<1> HIDE DEF e
<1>6. Later(c, e)
  BY <1>3, <1>4, <1>5, LaterComposes
<1>7. Moves(c, e)
  BY <1>3, <1>4, <1>5, OnwardsComposes
<1>8. Moves(cf, cf')
  BY <1>1, <1>3, <1>7 DEF Moves
<1> QED
  BY <1>1, <1>3, <1>4, <1>5, <1>6, <1>8

(* Filters and blocks judge heights of S.                                  *)
LEMMA CFilterScan ==
  \A ev, h :
    Holds(cf, ev) /\ Surroundings /\ h \in Heights /\ CFilter(h)
      => \E S \in SUBSET (Heights \ Hits) :
            /\ Holds(cf', ev \cup S) /\ Later(cf, cf') /\ Moves(cf, cf')
            /\ cf'.judged = cf.judged \cup S
<1> SUFFICES ASSUME NEW ev, NEW h \in Heights, Holds(cf, ev), Surroundings, CFilter(h)
             PROVE  \E S \in SUBSET (Heights \ Hits) :
                      /\ Holds(cf', ev \cup S) /\ Later(cf, cf') /\ Moves(cf, cf')
                      /\ cf'.judged = cf.judged \cup S
  OBVIOUS
<1>1. cf.solicited \subseteq Heights /\ cf.buffered \subseteq Heights /\ cf.judged \subseteq Heights
      /\ IsRecord(cf)
  BY DEF Holds
<1>2. cf.chain # NoChain
  BY DEF CFilter
<1>3. \/ cf' = [cf EXCEPT !.buffered = @ \cup {h}]
      \/ cf' = [cf EXCEPT !.solicited = @ \cup {h}]
      \/ h \notin Hits /\ cf' = Judge(cf, {h})
  BY DEF CFilter
<1>4. CASE cf' = [cf EXCEPT !.buffered = @ \cup {h}] \/ cf' = [cf EXCEPT !.solicited = @ \cup {h}]
  <2>1. /\ IsRecord(cf') /\ cf'.ledger = cf.ledger /\ cf'.autoStart = cf.autoStart
        /\ cf'.autoThrough = cf.autoThrough /\ cf'.chain = cf.chain
        /\ cf'.solicited \subseteq Heights /\ cf'.buffered \subseteq Heights
        /\ cf'.judged = cf.judged /\ cf'.surfacedBelow = cf.surfacedBelow
    <3>1. CASE cf' = [cf EXCEPT !.buffered = @ \cup {h}]
      <4> DEFINE d == [cf EXCEPT !.buffered = @ \cup {h}]
      <4>1. /\ IsRecord(d) /\ d.ledger = cf.ledger /\ d.autoStart = cf.autoStart
            /\ d.autoThrough = cf.autoThrough /\ d.chain = cf.chain
            /\ d.solicited = cf.solicited /\ d.buffered = cf.buffered \cup {h}
            /\ d.judged = cf.judged /\ d.surfacedBelow = cf.surfacedBelow
        BY <1>1 DEF IsRecord, Fields
      <4>2. cf' = d
        BY <3>1
      <4> HIDE DEF d
      <4> QED
        BY <1>1, <4>1, <4>2
    <3>2. CASE cf' = [cf EXCEPT !.solicited = @ \cup {h}]
      <4> DEFINE d == [cf EXCEPT !.solicited = @ \cup {h}]
      <4>1. /\ IsRecord(d) /\ d.ledger = cf.ledger /\ d.autoStart = cf.autoStart
            /\ d.autoThrough = cf.autoThrough /\ d.chain = cf.chain
            /\ d.solicited = cf.solicited \cup {h} /\ d.buffered = cf.buffered
            /\ d.judged = cf.judged /\ d.surfacedBelow = cf.surfacedBelow
        BY <1>1 DEF IsRecord, Fields
      <4>2. cf' = d
        BY <3>2
      <4> HIDE DEF d
      <4> QED
        BY <1>1, <4>1, <4>2
    <3> QED
      BY <1>4, <3>1, <3>2
  <2>2. Holds(cf', ev) /\ Later(cf, cf') /\ Moves(cf, cf')
    BY <1>1, <1>2, <2>1, MessagesHold DEF Moves
  <2>3. ev \cup {} = ev /\ cf.judged \cup {} = cf.judged /\ {} \in SUBSET (Heights \ Hits)
    OBVIOUS
  <2> QED
    BY <2>1, <2>2, <2>3
<1>5. CASE h \notin Hits /\ cf' = Judge(cf, {h})
  <2> DEFINE d == Judge(cf, {h})
  <2>1. /\ IsRecord(d) /\ d.ledger = MarkAllEvaluated(cf.ledger, {h}) /\ d.judged = cf.judged \cup {h}
        /\ d.autoStart = cf.autoStart /\ d.autoThrough = cf.autoThrough /\ d.chain = cf.chain
        /\ d.solicited = cf.solicited /\ d.buffered = cf.buffered
        /\ d.surfacedBelow = cf.surfacedBelow
    BY <1>1 DEF Judge, IsRecord, Fields
  <2> HIDE DEF d
  <2>2. {h} \in SUBSET Heights
    OBVIOUS
  <2>3. Holds(d, ev \cup {h}) /\ Later(cf, d) /\ Moves(cf, d)
    BY <1>1, <1>2, <2>1, <2>2, JudgeHolds DEF Moves
  <2>4. {h} \in SUBSET (Heights \ Hits)
    BY <1>5
  <2> QED
    BY <1>5, <2>1, <2>3, <2>4 DEF d
<1> QED
  BY <1>3, <1>4, <1>5

(* The transactions of h are in the wallet for good, or held until they    *)
(* can be.                                                                 *)
Paid(h) == txs[h] = "confirmed" \/ [height |-> h, main |-> TRUE] \in held

(* The end of a matched block judges its height if what it pays is safe.   *)
LEMMA BlockTxnsScan ==
  \A ev, h :
    Holds(cf, ev) /\ Surroundings /\ WalletTyped /\ h \in Heights /\ BlockTxns(h)
      => /\ Later(cf, cf') /\ Moves(cf, cf')
         /\ (\A k \in Heights : Paid(k) => Paid(k)') /\ WalletTyped'
         /\ \A r \in Reveals : txs'[r] # "unknown" => txs[r] # "unknown"
         /\ (\A e \in held : txs[e.height] # "unknown") => \A e \in held' : txs'[e.height] # "unknown"
         /\ \/ /\ Holds(cf', ev) /\ cf'.judged = cf.judged
               /\ UNCHANGED <<txs, held, disk>>
            \/ /\ Holds(cf', ev \cup {h}) /\ cf'.judged = cf.judged \cup {h}
               /\ h \in Wanted => Paid(h)'
               /\ Persist(cf', held')
<1> SUFFICES ASSUME NEW ev, NEW h \in Heights, Holds(cf, ev), Surroundings, WalletTyped, BlockTxns(h)
             PROVE  /\ Later(cf, cf') /\ Moves(cf, cf')
                    /\ (\A k \in Heights : Paid(k) => Paid(k)') /\ WalletTyped'
                    /\ \A r \in Reveals : txs'[r] # "unknown" => txs[r] # "unknown"
                    /\ (\A e \in held : txs[e.height] # "unknown")
                          => \A e \in held' : txs'[e.height] # "unknown"
                    /\ \/ /\ Holds(cf', ev) /\ cf'.judged = cf.judged
                          /\ UNCHANGED <<txs, held, disk>>
                       \/ /\ Holds(cf', ev \cup {h}) /\ cf'.judged = cf.judged \cup {h}
                          /\ h \in Wanted => Paid(h)'
                          /\ Persist(cf', held')
  OBVIOUS
<1> DEFINE mine == h \in Wanted
           confirmable == Confirmable(h, tip)
           entry == [height |-> h, main |-> TRUE]
           complete == ~ mine \/ confirmable \/ Cardinality(held \cup {entry}) <= HeldMax
           a == [cf EXCEPT !.solicited = @ \ {h}]
           d == Judge(a, {h})
<1>1. /\ h \in cf.solicited
      /\ mine => txs[h] # "unknown"
      /\ txs' = IF mine /\ confirmable THEN [txs EXCEPT ![h] = "confirmed"] ELSE txs
      /\ held' = IF mine /\ ~ confirmable /\ complete THEN held \cup {entry} ELSE held
      /\ cf' = IF complete THEN d ELSE a
      /\ IF complete THEN Persist(cf', held') ELSE UNCHANGED disk
      /\ grown' = grown
  BY DEF BlockTxns
<1>2. /\ txs \in [Wanted -> {"unknown", "known", "confirmed"}]
      /\ held \subseteq [height : Wanted, main : BOOLEAN]
      /\ grown \in BOOLEAN
  BY DEF WalletTyped
<1>3. cf.solicited \subseteq Heights /\ cf.buffered \subseteq Heights /\ cf.judged \subseteq Heights
      /\ IsRecord(cf) /\ (cf.chain = NoChain => cf.solicited = {})
  BY DEF Holds
<1>4. /\ IsRecord(a) /\ a.ledger = cf.ledger /\ a.autoStart = cf.autoStart
      /\ a.autoThrough = cf.autoThrough /\ a.chain = cf.chain
      /\ a.solicited = cf.solicited \ {h} /\ a.buffered = cf.buffered
      /\ a.judged = cf.judged /\ a.surfacedBelow = cf.surfacedBelow
  BY <1>3 DEF IsRecord, Fields
<1> HIDE DEF a
<1>5. /\ IsRecord(d) /\ d.ledger = MarkAllEvaluated(cf.ledger, {h}) /\ d.judged = cf.judged \cup {h}
      /\ d.autoStart = cf.autoStart /\ d.autoThrough = cf.autoThrough /\ d.chain = cf.chain
      /\ d.solicited = cf.solicited \ {h} /\ d.buffered = cf.buffered
      /\ d.surfacedBelow = cf.surfacedBelow
  BY <1>4 DEF Judge, IsRecord, Fields
<1> HIDE DEF d
<1>6. Holds(a, ev) /\ Later(cf, a) /\ Moves(cf, a)
  <2>1. a.solicited \subseteq Heights /\ (cf.chain = NoChain => a.solicited = {})
    BY <1>3, <1>4
  <2> QED
    BY <1>3, <1>4, <2>1, MessagesHold DEF Moves
<1>7. Holds(d, ev \cup {h}) /\ Later(cf, d) /\ Moves(cf, d)
  <2>1. d.solicited \subseteq Heights /\ (cf.chain = NoChain => d.solicited = {})
    BY <1>3, <1>5
  <2>2. {h} \in SUBSET Heights
    OBVIOUS
  <2> QED
    BY <1>3, <1>5, <2>1, <2>2, JudgeHolds DEF Moves
<1> HIDE DEF confirmable, complete
<1>8. Later(cf, cf') /\ Moves(cf, cf')
  BY <1>1, <1>6, <1>7
<1>9. txs' \in [Wanted -> {"unknown", "known", "confirmed"}]
      /\ held' \subseteq [height : Wanted, main : BOOLEAN]
  <2>1. mine => entry \in [height : Wanted, main : BOOLEAN]
    OBVIOUS
  <2> HIDE DEF entry
  <2> QED
    BY <1>1, <1>2, <2>1
<1>10. \A k \in Wanted : txs'[k] = txs[k] \/ (txs'[k] = "confirmed" /\ txs[k] # "unknown")
  BY <1>1, <1>2
<1>11. held \subseteq held'
  BY <1>1
<1>12. \A k \in Heights : Paid(k) => Paid(k)'
  <2> SUFFICES ASSUME NEW k \in Heights, Paid(k) PROVE Paid(k)'
    OBVIOUS
  <2>1. CASE txs[k] = "confirmed"
    <3>1. txs'[k] = "confirmed"
      BY <1>1, <1>2, <2>1
    <3> QED
      BY <3>1 DEF Paid
  <2>2. CASE [height |-> k, main |-> TRUE] \in held
    <3>1. [height |-> k, main |-> TRUE] \in held'
      BY <1>11, <2>2
    <3> QED
      BY <3>1 DEF Paid
  <2> QED
    BY <2>1, <2>2 DEF Paid
<1>13. \A r \in Reveals : txs'[r] # "unknown" => txs[r] # "unknown"
  BY <1>10, ScanConstants DEF Wanted
<1>14. ASSUME \A e \in held : txs[e.height] # "unknown"
       PROVE  \A e \in held' : txs'[e.height] # "unknown"
  <2> SUFFICES ASSUME NEW e \in held' PROVE txs'[e.height] # "unknown"
    OBVIOUS
  <2>1. e.height \in Wanted
    BY <1>9
  <2>2. txs[e.height] # "unknown"
    <3>1. CASE e \in held
      BY <1>14, <3>1
    <3>2. CASE e \notin held
      <4>1. mine /\ e = entry
        BY <1>1, <3>2
      <4> QED
        BY <1>1, <4>1
    <3> QED
      BY <3>1, <3>2
  <2> QED
    BY <1>10, <2>1, <2>2
<1>15. CASE complete
  <2>1. mine => Paid(h)'
    <3>1. CASE mine /\ confirmable
      <4>1. txs'[h] = "confirmed"
        BY <1>1, <1>2, <3>1
      <4> QED
        BY <4>1 DEF Paid
    <3>2. CASE mine /\ ~ confirmable
      <4>1. entry \in held'
        BY <1>1, <1>15, <3>2
      <4> QED
        BY <4>1 DEF Paid
    <3> QED
      BY <3>1, <3>2
  <2> QED
    BY <1>1, <1>2, <1>5, <1>7, <1>8, <1>9, <1>12, <1>13, <1>14, <1>15, <2>1 DEF WalletTyped
<1>16. CASE ~ complete
  <2>1. UNCHANGED <<txs, held, disk>>
    BY <1>1, <1>16 DEF complete
  <2> QED
    BY <1>1, <1>2, <1>4, <1>6, <1>8, <1>9, <1>12, <1>13, <1>14, <1>16, <2>1 DEF WalletTyped
<1> QED
  BY <1>15, <1>16

-----------------------------------------------------------------------------
(* The types are kept.                                                     *)

(* A prune never takes the tip.                                            *)
LEMMA PruneFloorIsBelow ==
  \A c, ev, t, hs : /\ Holds(c, ev) /\ t \in Heights
                    /\ (\A e \in hs : e.height \in Nat)
                    => PruneFloor(c, t, hs) \in Int /\ PruneFloor(c, t, hs) <= t
<1> SUFFICES ASSUME NEW c, NEW ev, NEW t \in Heights, NEW hs, Holds(c, ev),
                    \A e \in hs : e.height \in Nat
             PROVE  PruneFloor(c, t, hs) \in Int /\ PruneFloor(c, t, hs) <= t
  OBVIOUS
<1> DEFINE Below(h) == IF h > Margin THEN h - Margin ELSE 1
           anchor == IF c.chain = NoChain THEN c.autoStart ELSE c.chain.next
           S == {Below(Smaller(Frontier(c), anchor))} \cup {Below(e.height) : e \in hs}
           spanned == IF t > SpanMax THEN Larger(Min(S), t - SpanMax) ELSE Min(S)
<1>1. t \in Int /\ Margin \in Nat /\ SpanMax \in Nat /\ KeepNewest \in Nat
  BY LedgerConstants, ScanConstants DEF Heights
<1>2. \A x \in Nat : Below(x) \in Nat
  BY <1>1
<1>3. Smaller(Frontier(c), anchor) \in Nat
  <2>1. Frontier(c) \in Nat
    BY FrontierSettles
  <2>2. c.autoStart \in Nat /\ c.chain.next \in Nat
    BY HoldsNumbers
  <2> QED
    BY <2>1, <2>2 DEF Smaller
<1> HIDE DEF Below, anchor
<1>4. S \subseteq Nat /\ S # {}
  BY <1>2, <1>3
<1>5. Min(S) \in Nat
  <2> HIDE DEF S
  <2> QED
    BY <1>4, MinIsLeast
<1>6. spanned \in Int
  <2> HIDE DEF S
  <2> QED
    BY <1>1, <1>5 DEF Larger
<1>7. PruneFloor(c, t, hs) = Smaller(spanned, t - KeepNewest)
  BY DEF PruneFloor, Below, anchor
<1> HIDE DEF spanned
<1> QED
  BY <1>1, <1>6, <1>7 DEF Smaller

LEMMA QuietTyped == TypeInv /\ Quiet => TypeInv'
<1> SUFFICES ASSUME TypeInv, Quiet PROVE TypeInv'
  OBVIOUS
<1>1. Holds(cf, Heights) /\ Surroundings /\ WalletTyped /\ DiskTyped /\ Budgets
  BY DEF TypeInv
<1>2. Holds(cf', Heights) /\ cf.surfacedBelow <= cf'.surfacedBelow
  BY <1>1, QuietScan DEF Later
<1>3. ASSUME NEW busy \in BOOLEAN, BlockConnects(busy) PROVE TypeInv'
  <2>1. /\ tip < MaxHeight /\ tip' = tip + 1
        /\ held' \subseteq held
        /\ txs' = txs \/ \E released : txs' = ConfirmedBy(released)
        /\ disk' = disk \/ Persist(cf, held')
        /\ UNCHANGED <<connected, grown, reanchors, faults>>
    BY <1>3 DEF BlockConnects
  <2>2. held' \subseteq [height : Wanted, main : BOOLEAN]
    BY <1>1, <2>1 DEF WalletTyped
  <2>3. tip \in Nat /\ blockFloor \in Nat /\ 1 <= blockFloor /\ blockFloor <= tip
    BY <1>1, FloorIsHeight
  <2>4. tip' \in Heights
    BY <2>1, <2>3, LedgerConstants DEF Heights
  <2>5. PICK c \in {cf, RequestNextCFHeaders(cf, tip', blockFloor, busy)} :
          \/ blockFloor' = blockFloor
          \/ blockFloor' = Larger(blockFloor, PruneFloor(c, tip', held'))
    BY <1>3 DEF BlockConnects
  <2>6. Holds(c, Heights)
    BY <1>1, FloorIsHeight, RequestNextHolds
  <2>7. PruneFloor(c, tip', held') \in Int /\ PruneFloor(c, tip', held') <= tip'
    <3>1. \A e \in held' : e.height \in Nat
      BY <2>2, ScanConstants, LedgerConstants DEF Wanted, Heights
    <3> QED
      BY <2>4, <2>6, <3>1, PruneFloorIsBelow
  <2>8. blockFloor' \in 1..tip'
    BY <2>1, <2>3, <2>5, <2>7 DEF Larger
  <2>9. Surroundings'
    BY <1>1, <2>1, <2>4, <2>8 DEF Surroundings
  <2>10. WalletTyped'
    <3>1. \A released : ConfirmedBy(released) \in [Wanted -> {"unknown", "known", "confirmed"}]
      BY <1>1 DEF ConfirmedBy, WalletTyped
    <3> QED
      BY <1>1, <2>1, <2>2, <3>1 DEF WalletTyped
  <2>11. DiskTyped'
    <3>1. CASE disk' = disk
      BY <1>1, <1>2, <3>1, DiskKept
    <3>2. CASE Persist(cf, held')
      BY <1>1, <1>2, <2>2, <3>2, DiskPersisted
    <3> QED
      BY <2>1, <3>1, <3>2
  <2>12. Budgets'
    BY <1>1, <2>1 DEF Budgets
  <2> QED
    BY <1>1, <1>2, <2>9, <2>10, <2>11, <2>12, TypedStep
<1>4. ASSUME UNCHANGED <<tip, blockFloor, txs, held, grown, disk>>,
             connected' \subseteq Peers, reanchors' \in 0..ReanchorMax, faults' \in 0..MaxFaults
      PROVE  TypeInv'
  <2>1. Surroundings' /\ WalletTyped' /\ Budgets'
    BY <1>1, <1>4 DEF Surroundings, WalletTyped, Budgets
  <2>2. DiskTyped'
    BY <1>1, <1>2, <1>4, DiskKept
  <2> QED
    BY <1>1, <1>2, <2>1, <2>2, TypedStep
<1>5. connected \subseteq Peers /\ reanchors \in 0..ReanchorMax /\ faults \in 0..MaxFaults
  BY <1>1 DEF Surroundings, Budgets
<1>6. ASSUME NEW p \in Peers, NEW busy \in BOOLEAN, Connect(p, busy) PROVE TypeInv'
  BY <1>4, <1>5, <1>6 DEF Connect
<1>7. ASSUME NEW p \in Peers, Disconnect(p) PROVE TypeInv'
  <2>1. faults' \in 0..MaxFaults
    BY <1>5, <1>7, FaultCounts DEF Disconnect
  <2> QED
    BY <1>4, <1>5, <1>7, <2>1 DEF Disconnect
<1>8. CASE Reanchor
  <2>1. reanchors' \in 0..ReanchorMax
    BY <1>5, <1>8, ScanConstants DEF Reanchor
  <2> QED
    BY <1>4, <1>5, <1>8, <2>1 DEF Reanchor
<1>9. CASE RetireAbandonedBand
  BY <1>4, <1>5, <1>9 DEF RetireAbandonedBand
<1> QED
  BY <1>3, <1>6, <1>7, <1>8, <1>9 DEF Quiet

LEMMA CFHeadersTyped ==
  \A n \in 1..HdrBatch, p \in Peers, refund \in BOOLEAN :
    TypeInv /\ CFHeaders(n, p, refund) => TypeInv'
<1> SUFFICES ASSUME NEW n \in 1..HdrBatch, NEW p \in Peers, NEW refund \in BOOLEAN,
                    TypeInv, CFHeaders(n, p, refund)
             PROVE  TypeInv'
  OBVIOUS
<1>1. Holds(cf, Heights) /\ Surroundings /\ WalletTyped /\ DiskTyped /\ Budgets
  BY DEF TypeInv
<1>2. PICK c : /\ Holds(c, Heights) /\ Holds(cf', Heights) /\ Later(c, cf')
               /\ c.surfacedBelow = cf.surfacedBelow
               /\ disk' = [ledger |-> {SavedLedger(c, held)}, chain |-> c.chain]
  BY <1>1, CFHeadersScan
<1>3. UNCHANGED <<tip, blockFloor, connected, txs, held, grown, faults>>
      /\ (reanchors' = reanchors \/ reanchors' = 0)
  BY DEF CFHeaders
<1>4. Surroundings' /\ WalletTyped' /\ Budgets'
  BY <1>1, <1>3, ScanConstants DEF Surroundings, WalletTyped, Budgets
<1>5. cf'.surfacedBelow \in 0..(MaxHeight + 1) /\ IsChain(c.chain)
  BY <1>2 DEF Holds, Safe
<1>6. Safe(SavedLedger(c, held), Heights, cf'.surfacedBelow) /\ SavedLedger(c, held).start >= 1
  <2>1. held \subseteq [height : Wanted, main : BOOLEAN] /\ c.surfacedBelow <= cf'.surfacedBelow
    BY <1>1, <1>2 DEF WalletTyped, Later
  <2> QED
    BY <1>2, <1>5, <2>1, DiskWritten
<1>7. DiskTyped'
  BY <1>2, <1>5, <1>6 DEF DiskTyped
<1> QED
  BY <1>1, <1>2, <1>4, <1>7, TypedStep

(* A step of the scan, and of nothing else.                                *)
LEMMA ScanOnlyTyped ==
  /\ TypeInv /\ Holds(cf', Heights) /\ cf.surfacedBelow <= cf'.surfacedBelow
  /\ UNCHANGED <<tip, blockFloor, connected, txs, held, grown, disk>>
  /\ reanchors' \in 0..ReanchorMax /\ faults' \in 0..MaxFaults
  => TypeInv'
<1> SUFFICES ASSUME TypeInv, Holds(cf', Heights), cf.surfacedBelow <= cf'.surfacedBelow,
                    UNCHANGED <<tip, blockFloor, connected, txs, held, grown, disk>>,
                    reanchors' \in 0..ReanchorMax, faults' \in 0..MaxFaults
             PROVE  TypeInv'
  OBVIOUS
<1>1. Holds(cf, Heights) /\ Surroundings /\ WalletTyped /\ DiskTyped /\ Budgets
  BY DEF TypeInv
<1>2. Surroundings' /\ WalletTyped' /\ Budgets'
  BY <1>1 DEF Surroundings, WalletTyped, Budgets
<1>3. DiskTyped'
  BY <1>1, DiskKept
<1> QED
  BY <1>1, <1>2, <1>3, TypedStep

LEMMA CFilterTyped == \A h \in Heights : TypeInv /\ CFilter(h) => TypeInv'
<1> SUFFICES ASSUME NEW h \in Heights, TypeInv, CFilter(h) PROVE TypeInv'
  OBVIOUS
<1>1. Holds(cf, Heights) /\ Surroundings /\ Budgets
  BY DEF TypeInv
<1>2. PICK S \in SUBSET (Heights \ Hits) : Holds(cf', Heights \cup S) /\ Later(cf, cf')
  BY <1>1, CFilterScan
<1>3. Heights \cup S = Heights
  OBVIOUS
<1>4. UNCHANGED <<tip, blockFloor, connected, txs, held, grown, disk, reanchors, faults>>
  BY DEF CFilter
<1> QED
  BY <1>1, <1>2, <1>3, <1>4, ScanOnlyTyped DEF Later, Budgets

(* A tick judges filters that do not match, and nothing else.              *)
LEMMA KeepAliveScan ==
  \A ev, due, pick, aged, busy :
    Holds(cf, ev) /\ Surroundings /\ KeepAlive(due, pick, aged, busy)
      => \E S \in SUBSET (Heights \ Hits) :
            /\ Holds(cf', ev \cup S) /\ Later(cf, cf') /\ Moves(cf, cf')
            /\ cf'.judged = cf.judged \cup S
<1> SUFFICES ASSUME NEW ev, NEW due, NEW pick, NEW aged, NEW busy, Holds(cf, ev), Surroundings,
                    KeepAlive(due, pick, aged, busy)
             PROVE  \E S \in SUBSET (Heights \ Hits) :
                      /\ Holds(cf', ev \cup S) /\ Later(cf, cf') /\ Moves(cf, cf')
                      /\ cf'.judged = cf.judged \cup S
  OBVIOUS
<1>1. cf' = Ticked(due, pick, aged, busy) /\ (connected # {} => pick \in connected)
  BY DEF KeepAlive
<1> DEFINE c == cf
<1>2. c = cf /\ Holds(c, ev)
  OBVIOUS
<1> HIDE DEF c
<1>3. LET d == Ticked(due, pick, aged, busy)
      IN \E S \in SUBSET (Heights \ Hits) :
           Holds(d, ev \cup S) /\ Later(c, d) /\ Moves(c, d) /\ d.judged = c.judged \cup S
  BY <1>1, <1>2, TickedHolds
<1> QED
  BY <1>1, <1>2, <1>3

LEMMA KeepAliveTyped ==
  \A due, pick, aged, busy : TypeInv /\ KeepAlive(due, pick, aged, busy) => TypeInv'
<1> SUFFICES ASSUME NEW due, NEW pick, NEW aged, NEW busy, TypeInv, KeepAlive(due, pick, aged, busy)
             PROVE  TypeInv'
  OBVIOUS
<1>1. Holds(cf, Heights) /\ Surroundings /\ Budgets
  BY DEF TypeInv
<1>2. UNCHANGED <<tip, blockFloor, connected, txs, held, grown, disk, reanchors, faults>>
  BY DEF KeepAlive
<1>3. PICK S \in SUBSET (Heights \ Hits) : Holds(cf', Heights \cup S) /\ Later(cf, cf')
  BY <1>1, KeepAliveScan
<1>4. Heights \cup S = Heights
  OBVIOUS
<1> QED
  BY <1>1, <1>2, <1>3, <1>4, ScanOnlyTyped DEF Later, Budgets

LEMMA BlockTxnsTyped == \A h \in Heights : TypeInv /\ BlockTxns(h) => TypeInv'
<1> SUFFICES ASSUME NEW h \in Heights, TypeInv, BlockTxns(h) PROVE TypeInv'
  OBVIOUS
<1>1. Holds(cf, Heights) /\ Surroundings /\ WalletTyped /\ DiskTyped /\ Budgets
  BY DEF TypeInv
<1>2. Heights \cup {h} = Heights
  OBVIOUS
<1>3. /\ Later(cf, cf') /\ WalletTyped' /\ Holds(cf', Heights)
      /\ disk' = disk \/ Persist(cf', held')
  BY <1>1, <1>2, BlockTxnsScan
<1>4. UNCHANGED <<tip, blockFloor, connected, reanchors, faults>>
  BY DEF BlockTxns
<1>5. Surroundings' /\ Budgets'
  BY <1>1, <1>4 DEF Surroundings, Budgets
<1>6. cf.surfacedBelow <= cf'.surfacedBelow /\ cf'.surfacedBelow <= cf'.surfacedBelow
  <2>1. cf'.surfacedBelow \in Nat
    BY <1>3, LedgerConstants DEF Holds, Safe
  <2> QED
    BY <1>3, <2>1 DEF Later
<1>7. DiskTyped'
  <2>1. CASE disk' = disk
    BY <1>1, <1>3, <1>6, <2>1, DiskKept
  <2>2. CASE Persist(cf', held')
    BY <1>1, <1>3, <1>6, <2>2, DiskPersisted DEF WalletTyped
  <2> QED
    BY <1>3, <2>1, <2>2
<1> QED
  BY <1>1, <1>3, <1>5, <1>7, TypedStep

(* Where the rescan after a growth begins.                                 *)
LEMMA RescanFromIsHeight ==
  \A c, ev, h : Holds(c, ev) /\ h \in Heights
    => /\ RescanFrom(c, h) \in Nat
       /\ c.ledger.start <= RescanFrom(c, h) /\ c.ledger.abandonedBelow <= RescanFrom(c, h)
       /\ \A k \in Nat : k < RescanFrom(c, h)
            => k < c.ledger.start \/ k < c.ledger.abandonedBelow
               \/ (k < h /\ k <= c.ledger.scannedThrough)
       /\ RescanFrom(c, h) <= c.ledger.requestedThrough => RescanFrom(c, h) \in Heights
<1> SUFFICES ASSUME NEW c, NEW ev, NEW h \in Heights, Holds(c, ev)
             PROVE  /\ RescanFrom(c, h) \in Nat
                    /\ c.ledger.start <= RescanFrom(c, h) /\ c.ledger.abandonedBelow <= RescanFrom(c, h)
                    /\ \A k \in Nat : k < RescanFrom(c, h)
                         => k < c.ledger.start \/ k < c.ledger.abandonedBelow
                            \/ (k < h /\ k <= c.ledger.scannedThrough)
                    /\ RescanFrom(c, h) <= c.ledger.requestedThrough => RescanFrom(c, h) \in Heights
  OBVIOUS
<1>1. /\ c.ledger.start \in Nat /\ 1 <= c.ledger.start /\ c.ledger.abandonedBelow \in Nat
      /\ c.ledger.scannedThrough \in Nat /\ c.ledger.requestedThrough \in Nat
      /\ c.ledger.requestedThrough <= MaxHeight /\ MaxHeight \in Nat
  BY HoldsNumbers
<1>2. h \in Nat
  BY LedgerConstants DEF Heights
<1>3. \A x, s, st, ab \in Nat : LET r == Larger(Larger(Smaller(x, s + 1), st), ab)
        IN /\ r \in Nat /\ st <= r /\ ab <= r
           /\ \A k \in Nat : k < r => k < st \/ k < ab \/ (k < x /\ k <= s)
  BY DEF Larger, Smaller
<1> DEFINE r == RescanFrom(c, h)
<1>4. /\ r \in Nat /\ c.ledger.start <= r /\ c.ledger.abandonedBelow <= r
      /\ \A k \in Nat : k < r
           => k < c.ledger.start \/ k < c.ledger.abandonedBelow
              \/ (k < h /\ k <= c.ledger.scannedThrough)
  BY <1>1, <1>2, <1>3 DEF RescanFrom
<1> HIDE DEF r
<1>5. r <= c.ledger.requestedThrough => r \in Heights
  BY <1>1, <1>4 DEF Heights
<1> QED
  BY <1>4, <1>5 DEF r

LEMMA BlockTransactionsTyped == \A h \in Heights : TypeInv /\ BlockTransactions(h) => TypeInv'
<1> SUFFICES ASSUME NEW h \in Heights, TypeInv, BlockTransactions(h) PROVE TypeInv'
  OBVIOUS
<1>1. Holds(cf, Heights) /\ Surroundings /\ WalletTyped /\ DiskTyped /\ Budgets
  BY DEF TypeInv
<1> DEFINE from == RescanFrom(cf, h)
           d == [cf EXCEPT !.ledger = RewindTo(@, from), !.autoThrough = Smaller(@, from - 1)]
<1>2. /\ UNCHANGED <<tip, blockFloor, connected, held, reanchors, faults>>
      /\ txs' = [txs EXCEPT ![h] = "known"]
      /\ grown' = grown \/ grown' = TRUE
      /\ \/ UNCHANGED <<cf, disk>>
         \/ from <= cf.ledger.requestedThrough /\ cf' = d /\ Persist(d, held)
  BY <1>1 DEF BlockTransactions, WalletTyped
<1>3. WalletTyped' /\ Surroundings' /\ Budgets'
  BY <1>1, <1>2 DEF WalletTyped, Surroundings, Budgets
<1>4. cf.surfacedBelow \in Nat /\ cf.surfacedBelow <= cf.surfacedBelow
  BY <1>1, HoldsNumbers
<1>5. CASE UNCHANGED <<cf, disk>>
  BY <1>1, <1>3, <1>4, <1>5, DiskKept, TypedStep
<1>6. CASE from <= cf.ledger.requestedThrough /\ cf' = d /\ Persist(d, held)
  <2>1. from \in Heights
    BY <1>1, <1>6, RescanFromIsHeight
  <2> HIDE DEF from
  <2>2. Holds(d, Heights) /\ d.surfacedBelow = cf.surfacedBelow
    <3>1. Settles(Heights, cf.surfacedBelow, from, cf.autoStart - 1)
      <4>1. from \in Nat /\ 1 <= from /\ cf.autoStart \in Nat /\ cf.autoStart - 1 <= MaxHeight
            /\ MaxHeight \in Nat
        BY <1>1, <2>1, HoldsNumbers, LedgerConstants DEF Heights
      <4> QED
        BY <4>1, HeightsSettle
    <3>2. \A k \in Heights : k < from => k \in Heights \/ k < cf.surfacedBelow
      OBVIOUS
    <3> QED
      BY <1>1, <1>6, <2>1, <3>1, <3>2, RescanHolds, ZenonT(60)
  <2> HIDE DEF d
  <2>3. DiskTyped'
    <3>1. d.surfacedBelow <= cf'.surfacedBelow /\ Holds(cf', Heights)
      BY <1>4, <1>6, <2>2
    <3>2. held \subseteq [height : Wanted, main : BOOLEAN]
      BY <1>1 DEF WalletTyped
    <3> QED
      BY <1>1, <1>6, <2>2, <3>1, <3>2, DiskPersisted
  <2> QED
    BY <1>1, <1>3, <1>6, <2>2, <2>3, TypedStep
<1> QED
  BY <1>2, <1>5, <1>6

LEMMA CheckpointDisagreesTyped == \A h \in Heights : TypeInv /\ CheckpointDisagrees(h) => TypeInv'
<1> SUFFICES ASSUME NEW h \in Heights, TypeInv, CheckpointDisagrees(h) PROVE TypeInv'
  OBVIOUS
<1>1. Holds(cf, Heights) /\ Surroundings /\ Budgets
  BY DEF TypeInv
<1> DEFINE from == Larger(h - (CheckptEvery - 1), cf.chain.start)
           surfaced == IF from < blockFloor THEN Surface(cf, from, blockFloor) ELSE cf
           restart == Larger(from, blockFloor)
           over == StartOver(surfaced, restart)
           b == FALSE
           d == RequestNextCFHeaders(over, tip, blockFloor, b)
<1>2. /\ cf' = d /\ cf.chain # NoChain /\ h < cf.chain.next
      /\ reanchors < ReanchorMax /\ reanchors' = reanchors + 1 /\ Fault("checkpoint")
      /\ UNCHANGED <<tip, blockFloor, connected, txs, held, grown, disk>>
  BY <1>1, HoldsNumbers, LedgerConstants DEF CheckpointDisagrees, Heights
<1>3. /\ cf.chain.start \in Nat /\ cf.chain.next \in Nat /\ cf.chain.next <= MaxHeight + 1
      /\ cf.chain.start <= cf.chain.next /\ MaxHeight \in Nat /\ h \in Nat /\ CheckptEvery \in Nat
      /\ 1 <= CheckptEvery
      /\ blockFloor \in Nat /\ 1 <= blockFloor /\ blockFloor <= MaxHeight
      /\ blockFloor \in 1..(MaxHeight + 1) /\ Birth \in Nat /\ 1 <= Birth
  <2>1. /\ cf.chain.start \in Nat /\ cf.chain.next \in Nat /\ cf.chain.next <= MaxHeight + 1
        /\ cf.chain.start <= cf.chain.next /\ MaxHeight \in Nat /\ Birth \in Nat /\ 1 <= Birth
    BY <1>1, HoldsNumbers
  <2>2. h \in Nat /\ CheckptEvery \in Nat /\ 1 <= CheckptEvery
    BY ScanConstants, LedgerConstants DEF Heights
  <2>3. /\ blockFloor \in Nat /\ 1 <= blockFloor /\ blockFloor <= tip /\ tip \in Nat
        /\ tip <= MaxHeight /\ blockFloor \in 1..(MaxHeight + 1)
    BY <1>1, FloorIsHeight
  <2> QED
    BY <2>1, <2>2, <2>3
<1>4. from \in Nat /\ from <= MaxHeight + 1
  BY <1>2, <1>3 DEF Larger
<1> HIDE DEF from
<1>5. Holds(surfaced, Heights) /\ Later(cf, surfaced)
  <2> DEFINE s == Surface(cf, from, blockFloor)
  <2>1. Holds(s, Heights) /\ Later(cf, s)
    BY <1>1, <1>3, <1>4, SurfaceHolds
  <2>2. Later(cf, cf)
    BY <1>1, LaterSelf
  <2> HIDE DEF s
  <2> QED
    BY <1>1, <2>1, <2>2 DEF s
<1> HIDE DEF surfaced
<1>6. restart \in 1..(MaxHeight + 1)
  BY <1>3, <1>4 DEF Larger
<1> HIDE DEF restart
<1>7. Holds(over, Heights) /\ Later(surfaced, over)
  <2>1. Settles(Heights, surfaced.surfacedBelow, Birth, restart - 1)
    BY <1>3, <1>6, HeightsSettle
  <2> QED
    BY <1>5, <1>6, <2>1, StartOverHolds
<1> HIDE DEF over, b
<1>8. Holds(d, Heights) /\ Later(over, d)
  BY <1>3, <1>7, RequestNextHolds
<1> HIDE DEF d
<1>9. cf.surfacedBelow <= d.surfacedBelow
  <2>1. Later(cf, over)
    BY <1>1, <1>5, <1>7, LaterComposes
  <2>2. Later(cf, d)
    BY <1>1, <1>7, <1>8, <2>1, LaterComposes
  <2> QED
    BY <2>2 DEF Later
<1>10. reanchors' \in 0..ReanchorMax /\ faults' \in 0..MaxFaults
  BY <1>1, <1>2, ScanConstants, FaultCounts DEF Budgets
<1> QED
  BY <1>2, <1>8, <1>9, <1>10, ScanOnlyTyped

LEMMA NeverBrickParkTyped == \A b \in BOOLEAN : TypeInv /\ NeverBrickPark(b) => TypeInv'
<1> SUFFICES ASSUME NEW corroborated \in BOOLEAN, TypeInv, NeverBrickPark(corroborated) PROVE TypeInv'
  OBVIOUS
<1>1. Holds(cf, Heights) /\ Surroundings /\ Budgets
  BY DEF TypeInv
<1> DEFINE trusted == {h \in FilterCheckpoints : h < cf.chain.next}
           parkAt == Larger(Max(trusted), cf.chain.start)
           parked == [cf EXCEPT !.autoStart = parkAt, !.autoThrough = parkAt - 1]
           s == Surface(parked, parkAt, cf.chain.next)
<1>2. /\ cf.chain # NoChain /\ trusted # {} /\ Fault("park")
      /\ cf' = parked \/ cf' = s
      /\ UNCHANGED <<tip, blockFloor, connected, txs, held, grown, disk, reanchors>>
  BY DEF NeverBrickPark
<1>3. /\ cf.chain.start \in Nat /\ cf.chain.next \in Nat /\ cf.chain.next <= MaxHeight + 1
      /\ cf.chain.start <= cf.chain.next /\ MaxHeight \in Nat /\ 1 <= cf.chain.start
      /\ cf.surfacedBelow \in Nat
  BY <1>1, <1>2, HoldsNumbers
<1>4. Max(trusted) \in trusted
  <2>1. trusted \in SUBSET Heights
    BY ScanConstants
  <2> HIDE DEF trusted
  <2> QED
    BY <1>2, <2>1, MaxIsGreatest
<1>5. Max(trusted) \in Heights /\ Max(trusted) < cf.chain.next
  BY <1>4, ScanConstants
<1> HIDE DEF trusted
<1>6. parkAt \in 1..(MaxHeight + 1)
  <2>1. Max(trusted) \in Nat /\ Max(trusted) <= MaxHeight
    BY <1>5, LedgerConstants DEF Heights
  <2> QED
    BY <1>3, <2>1 DEF Larger
<1> HIDE DEF parkAt
<1>7. Holds(parked, Heights) /\ parked.surfacedBelow = cf.surfacedBelow
  BY <1>1, <1>6, ParkedHolds
<1> HIDE DEF parked
<1>8. Holds(s, Heights) /\ Later(parked, s)
  <2>1. parkAt \in Nat /\ cf.chain.next \in 1..(MaxHeight + 1)
    BY <1>3, <1>6
  <2> QED
    BY <1>7, <2>1, SurfaceHolds
<1> HIDE DEF s
<1>9. Holds(cf', Heights) /\ cf.surfacedBelow <= cf'.surfacedBelow
  BY <1>2, <1>3, <1>7, <1>8 DEF Later
<1>10. reanchors' \in 0..ReanchorMax /\ faults' \in 0..MaxFaults
  BY <1>1, <1>2, FaultCounts DEF Budgets
<1> QED
  BY <1>1, <1>2, <1>9, <1>10, ScanOnlyTyped

(* A reorganisation voids every verdict from the fork on.                  *)
LEMMA ReorgScan ==
  \A ev, ev2, f :
    /\ Holds(cf, ev) /\ Surroundings /\ f \in Heights /\ Reorg(f)
    /\ ev2 \subseteq Heights /\ (\A h \in ev : h < f => h \in ev2)
    /\ ev \subseteq ev2 \/ Anchored(cf)
    => /\ Holds(cf', ev2) /\ cf'.judged = {h \in cf.judged : h < f}
       /\ cf.surfacedBelow <= cf'.surfacedBelow
       /\ Tight(cf) => Tight(cf')
       /\ Anchored(cf) => Anchored(cf')
       /\ Rewinds(cf, cf', f)
       /\ \/ disk' = disk
          \/ \E c : /\ Holds(c, ev) \/ Holds(c, ev2)
                    /\ c.surfacedBelow <= cf'.surfacedBelow
                    /\ \/ Persist(c, held')
                       \/ disk' = [ledger |-> {SavedLedger(c, held')},
                                   chain |-> IF c.chain = NoChain THEN disk.chain ELSE c.chain]
<1> SUFFICES ASSUME NEW ev, NEW ev2, NEW f \in Heights, Holds(cf, ev), Surroundings, Reorg(f),
                    ev2 \subseteq Heights, \A h \in ev : h < f => h \in ev2,
                    ev \subseteq ev2 \/ Anchored(cf)
             PROVE  /\ Holds(cf', ev2) /\ cf'.judged = {h \in cf.judged : h < f}
                    /\ cf.surfacedBelow <= cf'.surfacedBelow
                    /\ Tight(cf) => Tight(cf')
                    /\ Anchored(cf) => Anchored(cf')
                    /\ Rewinds(cf, cf', f)
                    /\ \/ disk' = disk
                       \/ \E c : /\ Holds(c, ev) \/ Holds(c, ev2)
                                 /\ c.surfacedBelow <= cf'.surfacedBelow
                                 /\ \/ Persist(c, held')
                                    \/ disk' = [ledger |-> {SavedLedger(c, held')},
                                                chain |-> IF c.chain = NoChain THEN disk.chain
                                                          ELSE c.chain]
  OBVIOUS
<1> DEFINE void == [cf EXCEPT !.solicited = {h \in @ : h < f}, !.buffered = {h \in @ : h < f},
                              !.judged = {h \in @ : h < f}]
           follow == FollowReorg(void, f, tip + 1, blockFloor)
<1>1. /\ blockFloor < f /\ cf' = follow.cf
      /\ \/ disk' = disk
         \/ Persist(void, held')
         \/ \E c \in follow.saved :
              disk' = [ledger |-> {SavedLedger(c, held')},
                       chain |-> IF c.chain = NoChain THEN disk.chain ELSE c.chain]
  <2>1. /\ f \in (blockFloor + 1)..tip /\ cf' = follow.cf
        /\ IF follow.saved # {}
           THEN \E c \in follow.saved :
                  disk' = [ledger |-> {SavedLedger(c, held')},
                           chain |-> IF c.chain = NoChain THEN disk.chain ELSE c.chain]
           ELSE disk' = disk \/ Persist(void, held')
    <3> HIDE DEF FollowReorg
    <3> QED
      BY DEF Reorg
  <2> HIDE DEF follow, void
  <2>2. blockFloor < f
    <3>1. f \in (blockFloor + 1)..tip /\ blockFloor \in Nat /\ tip \in Nat
      BY <2>1, FloorIsHeight
    <3> QED
      BY <3>1
  <2> QED
    BY <2>1, <2>2
<1>2. /\ IsRecord(void) /\ void.ledger = cf.ledger /\ void.autoStart = cf.autoStart
      /\ void.autoThrough = cf.autoThrough /\ void.chain = cf.chain
      /\ void.solicited = {h \in cf.solicited : h < f} /\ void.buffered = {h \in cf.buffered : h < f}
      /\ void.judged = {h \in cf.judged : h < f} /\ void.surfacedBelow = cf.surfacedBelow
  BY DEF Holds, IsRecord, Fields
<1> HIDE DEF void
<1>3. Holds(void, ev) /\ Later(cf, void)
  <2>1. /\ void.solicited \subseteq Heights /\ void.buffered \subseteq Heights
        /\ void.judged \subseteq Heights
        /\ cf.chain = NoChain => void.solicited = {}
    BY <1>2 DEF Holds
  <2> QED
    BY <1>2, <2>1, MessagesHold
<1>4. Refollowed(void, ev2, follow) /\ Rewinds(void, follow.cf, f)
  <2>1. blockFloor \in 1..(MaxHeight + 1)
    BY FloorIsHeight
  <2>2. ev \subseteq ev2 \/ Anchored(void)
    BY <1>3 DEF Later
  <2> QED
    BY <1>1, <1>3, <2>1, <2>2, FollowReorgHolds
<1> HIDE DEF follow
<1>5. /\ Holds(cf', ev2) /\ cf'.judged = {h \in cf.judged : h < f}
      /\ cf.surfacedBelow <= cf'.surfacedBelow
      /\ (Tight(cf) => Tight(cf')) /\ (Anchored(cf) => Anchored(cf'))
      /\ \A s \in follow.saved : Holds(s, ev2) /\ s.surfacedBelow <= cf'.surfacedBelow
  BY <1>1, <1>2, <1>3, <1>4 DEF Refollowed, Later
<1>7. Rewinds(cf, cf', f)
  BY <1>1, <1>2, <1>4 DEF Rewinds
<1>6. \/ disk' = disk
      \/ \E c : /\ Holds(c, ev) \/ Holds(c, ev2)
                /\ c.surfacedBelow <= cf'.surfacedBelow
                /\ \/ Persist(c, held')
                   \/ disk' = [ledger |-> {SavedLedger(c, held')},
                               chain |-> IF c.chain = NoChain THEN disk.chain ELSE c.chain]
  <2>1. CASE disk' = disk
    BY <2>1
  <2>2. CASE Persist(void, held')
    BY <1>2, <1>3, <1>5, <2>2
  <2>3. ASSUME NEW c \in follow.saved,
               disk' = [ledger |-> {SavedLedger(c, held')},
                        chain |-> IF c.chain = NoChain THEN disk.chain ELSE c.chain]
        PROVE  \E s : /\ Holds(s, ev) \/ Holds(s, ev2)
                      /\ s.surfacedBelow <= cf'.surfacedBelow
                      /\ \/ Persist(s, held')
                         \/ disk' = [ledger |-> {SavedLedger(s, held')},
                                     chain |-> IF s.chain = NoChain THEN disk.chain ELSE s.chain]
    <3>1. Holds(c, ev2) /\ c.surfacedBelow <= cf'.surfacedBelow
      BY <1>5
    <3> QED
      BY <2>3, <3>1
  <2> QED
    BY <1>1, <2>1, <2>2, <2>3
<1> QED
  BY <1>5, <1>6, <1>7

(* What a reorganisation makes of the wallet: nothing known is forgotten,  *)
(* and what is paid below the fork stays paid.                             *)
LEMMA ReorgWallet ==
  \A f : WalletTyped /\ f \in Heights /\ Reorg(f)
    => /\ WalletTyped'
       /\ \A h \in Wanted : txs[h] # "unknown" => txs'[h] # "unknown"
       /\ \A h \in Wanted : txs'[h] # "unknown"
            => txs[h] # "unknown" \/ \E e \in held : e.height = h
       /\ \A e \in held' : \E e2 \in held : e2.height = e.height
       /\ \A h \in Wanted : h < f /\ Paid(h) => Paid(h)'
<1> SUFFICES ASSUME NEW f \in Heights, WalletTyped, Reorg(f)
             PROVE  /\ WalletTyped'
                    /\ \A h \in Wanted : txs[h] # "unknown" => txs'[h] # "unknown"
                    /\ \A h \in Wanted : txs'[h] # "unknown"
                         => txs[h] # "unknown" \/ \E e \in held : e.height = h
                    /\ \A e \in held' : \E e2 \in held : e2.height = e.height
                    /\ \A h \in Wanted : h < f /\ Paid(h) => Paid(h)'
  OBVIOUS
<1> DEFINE old == [h \in Wanted |-> IF h >= f /\ txs[h] = "confirmed" THEN "known" ELSE txs[h]]
           Stale(e) == [e EXCEPT !.main = @ /\ e.height < f]
           stale == {Stale(e) : e \in held}
           released == Released(stale, tip + 1)
           entry(h) == [height |-> h, main |-> TRUE]
<1>1. /\ held' = stale \ released /\ grown' = grown
      /\ txs' = [h \in Wanted |-> IF entry(h) \in released THEN "confirmed" ELSE old[h]]
  BY DEF Reorg
<1>2. released \subseteq stale
  <2> HIDE DEF stale
  <2> QED
    BY DEF Released
<1> HIDE DEF released
<1>3. /\ txs \in [Wanted -> {"unknown", "known", "confirmed"}]
      /\ held \subseteq [height : Wanted, main : BOOLEAN]
  BY DEF WalletTyped
<1>4. \A e \in held : /\ Stale(e) \in [height : Wanted, main : BOOLEAN]
                      /\ Stale(e).height = e.height
  <2> SUFFICES ASSUME NEW e \in held
               PROVE  Stale(e) \in [height : Wanted, main : BOOLEAN] /\ Stale(e).height = e.height
    OBVIOUS
  <2> DEFINE m == e.main /\ e.height < f
  <2>1. m \in BOOLEAN /\ e \in [height : Wanted, main : BOOLEAN]
    BY <1>3
  <2>2. Stale(e) = [e EXCEPT !.main = m]
    BY <2>1
  <2> HIDE DEF m, Stale
  <2> QED
    BY <2>1, <2>2
<1>5. \A h \in Heights : h < f /\ entry(h) \in held => entry(h) \in stale
  <2> SUFFICES ASSUME NEW h \in Heights, h < f, entry(h) \in held PROVE entry(h) \in stale
    OBVIOUS
  <2>1. Stale(entry(h)) = entry(h)
    OBVIOUS
  <2> HIDE DEF Stale, entry
  <2> QED
    BY <2>1
<1> HIDE DEF Stale
<1>6. stale \subseteq [height : Wanted, main : BOOLEAN]
      /\ \A e \in stale : \E e2 \in held : e2.height = e.height
  BY <1>4
<1> HIDE DEF stale
<1>7. \A h \in Wanted : /\ old[h] \in {"unknown", "known", "confirmed"}
                        /\ old[h] # "unknown" <=> txs[h] # "unknown"
  BY <1>3
<1>8. \A h \in Wanted : txs'[h] = IF entry(h) \in released THEN "confirmed" ELSE old[h]
  BY <1>1
<1>9. WalletTyped'
  <2>1. txs' \in [Wanted -> {"unknown", "known", "confirmed"}]
    <3> HIDE DEF old, entry
    <3> QED
      BY <1>1, <1>7
  <2>2. held' \subseteq [height : Wanted, main : BOOLEAN]
    BY <1>1, <1>6
  <2> QED
    BY <1>1, <2>1, <2>2 DEF WalletTyped
<1>10. \A h \in Wanted : txs[h] # "unknown" => txs'[h] # "unknown"
  <2> HIDE DEF old, entry
  <2> QED
    BY <1>7, <1>8
<1>11. \A h \in Wanted : txs'[h] # "unknown" => txs[h] # "unknown" \/ \E e \in held : e.height = h
  <2> SUFFICES ASSUME NEW h \in Wanted, txs'[h] # "unknown", txs[h] = "unknown"
               PROVE  \E e \in held : e.height = h
    OBVIOUS
  <2>1. entry(h) \in stale
    <3> HIDE DEF old, entry
    <3> QED
      BY <1>2, <1>7, <1>8
  <2>2. entry(h).height = h
    OBVIOUS
  <2> HIDE DEF entry
  <2> QED
    BY <1>6, <2>1, <2>2
<1>12. \A e \in held' : \E e2 \in held : e2.height = e.height
  BY <1>1, <1>6
<1>13. ASSUME NEW h \in Wanted, h < f, Paid(h) PROVE Paid(h)'
  <2>0. h \in Heights
    BY ScanConstants DEF Wanted
  <2>1. CASE entry(h) \in held
    <3>1. entry(h) \in stale
      BY <1>5, <1>13, <2>0, <2>1
    <3>3. CASE entry(h) \in released
      <4>1. txs'[h] = "confirmed"
        BY <1>8, <3>3
      <4> QED
        BY <4>1 DEF Paid
    <3>4. CASE entry(h) \notin released
      <4>1. entry(h) \in held'
        BY <1>1, <3>1, <3>4
      <4> QED
        BY <4>1 DEF Paid
    <3> QED
      BY <3>3, <3>4
  <2>2. CASE txs[h] = "confirmed"
    <3>1. old[h] = "confirmed"
      BY <1>13, <2>0, <2>2, LedgerConstants DEF Heights
    <3>2. txs'[h] = "confirmed"
      BY <1>8, <2>2, <3>1
    <3> QED
      BY <3>2 DEF Paid
  <2> QED
    BY <1>13, <2>1, <2>2 DEF Paid
<1> QED
  BY <1>9, <1>10, <1>11, <1>12, <1>13

LEMMA ReorgTyped == \A f \in Heights : TypeInv /\ Reorg(f) => TypeInv'
<1> SUFFICES ASSUME NEW f \in Heights, TypeInv, Reorg(f) PROVE TypeInv'
  OBVIOUS
<1>1. Holds(cf, Heights) /\ Surroundings /\ WalletTyped /\ DiskTyped /\ Budgets
  BY DEF TypeInv
<1>2. /\ Holds(cf', Heights) /\ cf.surfacedBelow <= cf'.surfacedBelow
      /\ \/ disk' = disk
         \/ \E c : /\ Holds(c, Heights)
                   /\ c.surfacedBelow <= cf'.surfacedBelow
                   /\ \/ Persist(c, held')
                      \/ disk' = [ledger |-> {SavedLedger(c, held')},
                                  chain |-> IF c.chain = NoChain THEN disk.chain ELSE c.chain]
  BY <1>1, ReorgScan
<1>3. /\ Fault("reorg") /\ tip < MaxHeight /\ tip' = tip + 1
      /\ UNCHANGED <<blockFloor, connected, grown, reanchors>>
  BY DEF Reorg
<1>4. WalletTyped'
  BY <1>1, ReorgWallet
<1>5. Surroundings'
  <2>1. /\ tip \in Nat /\ blockFloor \in Nat /\ 1 <= blockFloor /\ blockFloor <= tip
        /\ MaxHeight \in Nat /\ connected \subseteq Peers
    BY <1>1, FloorIsHeight, LedgerConstants DEF Surroundings
  <2>2. tip' \in Heights /\ blockFloor' \in 1..tip' /\ connected' \subseteq Peers
    BY <1>3, <2>1 DEF Heights
  <2> QED
    BY <2>2 DEF Surroundings
<1>6. Budgets'
  BY <1>1, <1>3, FaultCounts DEF Budgets
<1>7. DiskTyped'
  <2>1. CASE disk' = disk
    BY <1>1, <1>2, <2>1, DiskKept
  <2>2. ASSUME NEW c, Holds(c, Heights), c.surfacedBelow <= cf'.surfacedBelow, Persist(c, held')
        PROVE  DiskTyped'
    <3>1. held' \subseteq [height : Wanted, main : BOOLEAN]
      BY <1>4 DEF WalletTyped
    <3> QED
      BY <1>1, <1>2, <2>2, <3>1, DiskPersisted
  <2>3. ASSUME NEW c, Holds(c, Heights), c.surfacedBelow <= cf'.surfacedBelow,
               disk' = [ledger |-> {SavedLedger(c, held')},
                        chain |-> IF c.chain = NoChain THEN disk.chain ELSE c.chain]
        PROVE  DiskTyped'
    <3>1. held' \subseteq [height : Wanted, main : BOOLEAN]
      BY <1>4 DEF WalletTyped
    <3>2. cf'.surfacedBelow \in 0..(MaxHeight + 1)
      BY <1>2 DEF Holds, Safe
    <3> DEFINE l == SavedLedger(c, held')
               ch == IF c.chain = NoChain THEN disk.chain ELSE c.chain
    <3>3. Safe(l, Heights, cf'.surfacedBelow) /\ l.start >= 1
      BY <2>3, <3>1, <3>2, DiskWritten
    <3>4. IsChain(ch)
      BY <1>1, <2>3 DEF Holds, DiskTyped
    <3>5. disk' = [ledger |-> {l}, chain |-> ch]
      BY <2>3
    <3> HIDE DEF l, ch
    <3> QED
      BY <3>3, <3>4, <3>5 DEF DiskTyped
  <2> QED
    BY <1>2, <2>1, <2>2, <2>3
<1> QED
  BY <1>1, <1>2, <1>4, <1>5, <1>6, <1>7, TypedStep

LEMMA NextTyped == TypeInv /\ [Next]_vars => TypeInv'
<1> SUFFICES ASSUME TypeInv, [Next]_vars PROVE TypeInv'
  OBVIOUS
<1>1. CASE UNCHANGED vars
  BY <1>1 DEF vars, TypeInv, Holds, Surroundings, WalletTyped, DiskTyped, Budgets
<1>2. CASE Quiet
  BY <1>2, QuietTyped
<1>3. CASE Deliver
  BY <1>3, CFHeadersTyped, CFilterTyped, BlockTransactionsTyped, BlockTxnsTyped DEF Deliver
<1>4. CASE Tick
  BY <1>4, KeepAliveTyped DEF Tick
<1>5. CASE Next
  BY <1>2, <1>3, <1>4, <1>5, RestartTyped, ReorgTyped, CheckpointDisagreesTyped,
     NeverBrickParkTyped DEF Next, Quiet
<1> QED
  BY <1>1, <1>5


-----------------------------------------------------------------------------
(* The inductive invariant.                                                *)

(* The verdicts that count: once the address set has grown, a height with  *)
(* a late payment counts only if the payment is safe.                      *)
Good == {h \in cf.judged : grown /\ h \in Late /\ Owed(h) => Paid(h)}

HeldHeights == {e.height : e \in held}

(* What the wallet was told: every payment it could see of what was judged, *)
(* and an address only from a block that reveals it.  Until it has grown,  *)
(* the forward cursor is not ahead of the ledger.                          *)
Told ==
    /\ \A h \in Matches \cap cf.judged : Paid(h)
    /\ \A r \in Reveals : txs[r] # "unknown" => grown
    /\ \A e \in held : txs[e.height] # "unknown"
    /\ grown \/ Tight(cf)

(* What is on disk counts only what survives a crash, and no more than the *)
(* ledger in memory was asked for.                                         *)
Durable ==
    \A l \in disk.ledger :
        /\ Safe(l, Good \ HeldHeights, cf.surfacedBelow) /\ l.start >= 1
        /\ Settles(Good \ HeldHeights, cf.surfacedBelow, Birth, l.start - 1)
        /\ cf.chain # NoChain => l.requestedThrough <= cf.ledger.requestedThrough

(* Every height the scan counts is a good verdict or was reported.         *)
ScanInv ==
    /\ Holds(cf, Good) /\ Told
    /\ "reorg" \in FaultKinds => Anchored(cf)
    /\ "reorg" \notin FaultKinds => Durable

(* The runs the invariant is about: peers lost and replaced, blocks pruned, *)
(* branches replaced, or crashes and restarts, with the filter-header chain *)
(* restored or dropped, any number of them.  A dispute at a checkpoint and  *)
(* a parked scan leave heights out on purpose, a start with no ledger to    *)
(* restore does not know them, and a crash after a reorganisation that a    *)
(* scan without a chain did not save brings back the verdicts it voided.    *)
Followed ==
    /\ FaultKinds \cap {"checkpoint", "park", "ledgerloss"} = {}
    /\ ~ ({"reorg", "restart"} \subseteq FaultKinds)

LEMMA GoodIsJudged == TypeInv => Good \subseteq Heights /\ Good \subseteq cf.judged
  BY DEF TypeInv, Holds, Good

(* A good verdict stays good.                                              *)
LEMMA GoodStays ==
  /\ TypeInv /\ TypeInv' /\ grown' = grown /\ cf.surfacedBelow <= cf'.surfacedBelow
  /\ \A k \in Wanted : Paid(k) => Paid(k)'
  => \A h \in Good : h \in cf'.judged => h \in Good'
<1> SUFFICES ASSUME TypeInv, TypeInv', grown' = grown, cf.surfacedBelow <= cf'.surfacedBelow,
                    \A k \in Wanted : Paid(k) => Paid(k)',
                    NEW h \in Good, h \in cf'.judged
             PROVE  h \in Good'
  OBVIOUS
<1>1. cf.surfacedBelow \in Nat /\ cf'.surfacedBelow \in Nat
  BY HoldsNumbers DEF TypeInv
<1>2. \A r \in Reveals : r \in Nat
  BY ScanConstants, LedgerConstants DEF Heights
<1>3. Owed(h)' => Owed(h)
  BY <1>1, <1>2 DEF Owed
<1>4. h \in Late => h \in Wanted
  BY DEF Wanted
<1> QED
  BY <1>3, <1>4 DEF Good

(* What was saved stays durable while the disk is not touched.             *)
LEMMA DurableKept ==
  /\ TypeInv /\ TypeInv' /\ Durable /\ Good \subseteq Good' /\ HeldHeights' \subseteq HeldHeights
  /\ disk' = disk /\ Later(cf, cf')
  => Durable'
<1> SUFFICES ASSUME TypeInv, TypeInv', Durable, Good \subseteq Good', HeldHeights' \subseteq HeldHeights,
                    disk' = disk, Later(cf, cf'), NEW l \in disk.ledger
             PROVE  /\ Safe(l, Good' \ HeldHeights', cf'.surfacedBelow) /\ l.start >= 1
                    /\ Settles(Good' \ HeldHeights', cf'.surfacedBelow, Birth, l.start - 1)
                    /\ cf'.chain # NoChain => l.requestedThrough <= cf'.ledger.requestedThrough
  BY DEF Durable
<1> DEFINE kept == Good \ HeldHeights
           kept2 == Good' \ HeldHeights'
<1>1. kept \subseteq kept2 /\ kept2 \subseteq Heights
  BY GoodIsJudged DEF TypeInv, Holds, Good
<1>2. /\ Safe(l, kept, cf.surfacedBelow) /\ l.start >= 1
      /\ Settles(kept, cf.surfacedBelow, Birth, l.start - 1)
      /\ cf.chain # NoChain => l.requestedThrough <= cf.ledger.requestedThrough
  BY DEF Durable
<1> HIDE DEF kept, kept2
<1>3. /\ cf.surfacedBelow \in Nat /\ cf'.surfacedBelow \in Nat /\ Birth \in Nat
      /\ cf'.surfacedBelow <= MaxHeight + 1 /\ MaxHeight \in Nat
      /\ cf.ledger.requestedThrough \in Nat /\ cf'.ledger.requestedThrough \in Nat
  BY HoldsNumbers DEF TypeInv
<1>4. cf.surfacedBelow <= cf'.surfacedBelow /\ cf'.surfacedBelow \in 0..(MaxHeight + 1)
  BY <1>3 DEF Later
<1>5. l.start \in Nat /\ l.requestedThrough \in Nat
  BY <1>2, LedgerConstants DEF Safe, IsLedger
<1>6. Safe(l, kept2, cf'.surfacedBelow)
  BY <1>1, <1>2, <1>4, SafeIsMonotone
<1>7. Settles(kept2, cf'.surfacedBelow, Birth, l.start - 1)
  BY <1>1, <1>2, <1>3, <1>4, <1>5, SettlesMore
<1>8. cf'.chain # NoChain => l.requestedThrough <= cf'.ledger.requestedThrough
  BY <1>2, <1>3, <1>5 DEF Later
<1> QED
  BY <1>2, <1>6, <1>7, <1>8 DEF kept2

(* What is saved with nothing held back is durable.                        *)
LEMMA DurableWritten ==
  \A c, ev :
  /\ TypeInv' /\ Holds(c, ev) /\ ev \subseteq Good' /\ c.surfacedBelow <= cf'.surfacedBelow
  /\ cf'.chain # NoChain => c.ledger.requestedThrough <= cf'.ledger.requestedThrough
  /\ disk'.ledger = {SavedLedger(c, held')}
  => Durable'
<1> SUFFICES ASSUME NEW c, NEW ev, TypeInv', Holds(c, ev), ev \subseteq Good',
                    c.surfacedBelow <= cf'.surfacedBelow,
                    cf'.chain # NoChain => c.ledger.requestedThrough <= cf'.ledger.requestedThrough,
                    disk'.ledger = {SavedLedger(c, held')}
             PROVE  Durable'
  OBVIOUS
<1> DEFINE l == SavedLedger(c, held')
           hs == {e.height : e \in held'}
           kept == ev \ hs
           kept2 == Good' \ hs
<1>1. \A e \in held' : e.height \in Heights
  BY ScanConstants DEF TypeInv, WalletTyped, Wanted
<1>2. /\ Safe(l, kept, c.surfacedBelow) /\ l.start >= 1
      /\ Settles(kept, c.surfacedBelow, Birth, l.start - 1)
      /\ l.requestedThrough <= c.ledger.requestedThrough
  BY <1>1, SavedLedgerHolds
<1>3. kept \subseteq kept2 /\ kept2 \subseteq Heights /\ HeldHeights' = hs
  BY GoodIsJudged DEF TypeInv, Holds, Good, HeldHeights
<1>4. disk'.ledger = {l}
  OBVIOUS
<1> HIDE DEF l, kept, hs
<1>5. /\ c.surfacedBelow \in Nat /\ cf'.surfacedBelow \in Nat /\ Birth \in Nat
      /\ cf'.surfacedBelow \in 0..(MaxHeight + 1) /\ MaxHeight \in Nat
      /\ c.ledger.requestedThrough \in Nat /\ cf'.ledger.requestedThrough \in Nat
  <2>1. /\ c.surfacedBelow \in Nat /\ Birth \in Nat /\ MaxHeight \in Nat
        /\ c.ledger.requestedThrough \in Nat
    BY HoldsNumbers
  <2>2. /\ cf'.surfacedBelow \in Nat /\ cf'.ledger.requestedThrough \in Nat
        /\ cf'.surfacedBelow <= MaxHeight + 1
    BY HoldsNumbers DEF TypeInv
  <2> QED
    BY <2>1, <2>2
<1>6. l.start \in Nat /\ l.requestedThrough \in Nat
  BY <1>2, LedgerConstants DEF Safe, IsLedger
<1> HIDE DEF kept2
<1>7. Safe(l, kept2, cf'.surfacedBelow)
  BY <1>2, <1>3, <1>5, SafeIsMonotone
<1>8. Settles(kept2, cf'.surfacedBelow, Birth, l.start - 1)
  BY <1>2, <1>3, <1>5, <1>6, SettlesMore
<1>9. cf'.chain # NoChain => l.requestedThrough <= cf'.ledger.requestedThrough
  BY <1>2, <1>5, <1>6
<1> QED
  BY <1>2, <1>3, <1>4, <1>7, <1>8, <1>9 DEF Durable, kept2

(* A step that judges S, and forgets nothing.                              *)
Judges(S) ==
    /\ grown' = grown /\ S \subseteq Heights
    /\ Holds(cf', Good \cup S) /\ cf'.judged = cf.judged \cup S
    /\ cf.surfacedBelow <= cf'.surfacedBelow
    /\ (Tight(cf) => Tight(cf')) /\ (Anchored(cf) => Anchored(cf'))
    /\ \A k \in Wanted : Paid(k) => Paid(k)'
    /\ \A k \in S : k \notin Hits \/ (k \in Wanted => Paid(k)')

LEMMA JudgedAreGood ==
  \A S : TypeInv /\ TypeInv' /\ Judges(S) => Good \cup S \subseteq Good'
<1> SUFFICES ASSUME NEW S, TypeInv, TypeInv', Judges(S) PROVE Good \cup S \subseteq Good'
  OBVIOUS
<1>1. Good \subseteq Good'
  <2>1. Good \subseteq cf'.judged
    BY GoodIsJudged DEF Judges
  <2> QED
    BY <2>1, GoodStays DEF Judges
<1>2. ASSUME NEW k \in S PROVE k \in Good'
  <2>1. k \in cf'.judged /\ grown' = grown
    BY DEF Judges
  <2>2. grown /\ k \in Late => Paid(k)'
    BY DEF Judges, Hits, Wanted
  <2> QED
    BY <2>1, <2>2 DEF Good
<1> QED
  BY <1>1, <1>2

LEMMA Proceeds ==
  \A S :
  /\ TypeInv /\ TypeInv' /\ ScanInv /\ Judges(S)
  /\ \A r \in Reveals : txs'[r] # "unknown" => txs[r] # "unknown" \/ grown
  /\ \A e \in held' : txs'[e.height] # "unknown"
  /\ "reorg" \notin FaultKinds => Durable'
  => ScanInv'
<1> SUFFICES ASSUME NEW S, TypeInv, TypeInv', ScanInv, Judges(S),
                    \A r \in Reveals : txs'[r] # "unknown" => txs[r] # "unknown" \/ grown,
                    \A e \in held' : txs'[e.height] # "unknown",
                    "reorg" \notin FaultKinds => Durable'
             PROVE  ScanInv'
  OBVIOUS
<1>1. Good \cup S \subseteq Good'
  BY JudgedAreGood
<1>2. Holds(cf', Good')
  <2> DEFINE c == cf'
             ev == Good \cup S
             ev2 == Good'
  <2>1. Holds(c, ev) /\ ev \subseteq ev2 /\ ev2 \subseteq Heights
    BY <1>1 DEF Judges, TypeInv, Holds, Good
  <2> HIDE DEF c, ev, ev2
  <2>2. Holds(c, ev2)
    BY <2>1, HoldsMore
  <2> QED
    BY <2>2 DEF c, ev2
<1>3. Told'
  <2>1. \A h \in Matches \cap cf'.judged : Paid(h)'
    <3> SUFFICES ASSUME NEW h \in Matches, h \in cf'.judged PROVE Paid(h)'
      OBVIOUS
    <3>1. h \in Wanted /\ h \in Hits
      BY DEF Wanted, Hits
    <3>2. CASE h \in cf.judged
      BY <3>1, <3>2 DEF ScanInv, Told, Judges
    <3>3. CASE h \in S
      BY <3>1, <3>3 DEF Judges
    <3> QED
      BY <3>2, <3>3 DEF Judges
  <2>2. \A r \in Reveals : txs'[r] # "unknown" => grown'
    BY DEF ScanInv, Told, Judges
  <2>3. grown' \/ Tight(cf')
    BY DEF ScanInv, Told, Judges
  <2> QED
    BY <2>1, <2>2, <2>3 DEF Told
<1>4. "reorg" \in FaultKinds => Anchored(cf')
  BY DEF ScanInv, Judges
<1> QED
  BY <1>2, <1>3, <1>4 DEF ScanInv

(* Steps of the scan alone: peers come and go, filters arrive, ticks.      *)
LEMMA ScanOnlyProceeds ==
  \A S :
  /\ TypeInv /\ TypeInv' /\ ScanInv /\ S \in SUBSET (Heights \ Hits)
  /\ Holds(cf', Good \cup S) /\ Later(cf, cf') /\ cf'.judged = cf.judged \cup S
  /\ UNCHANGED <<txs, held, grown, disk>>
  => ScanInv'
<1> SUFFICES ASSUME NEW S, TypeInv, TypeInv', ScanInv, S \in SUBSET (Heights \ Hits),
                    Holds(cf', Good \cup S), Later(cf, cf'), cf'.judged = cf.judged \cup S,
                    UNCHANGED <<txs, held, grown, disk>>
             PROVE  ScanInv'
  OBVIOUS
<1>1. Judges(S)
  BY DEF Judges, Later, Paid
<1>2. \A r \in Reveals : txs'[r] # "unknown" => txs[r] # "unknown" \/ grown
  OBVIOUS
<1>3. \A e \in held' : txs'[e.height] # "unknown"
  BY DEF ScanInv, Told
<1>4. "reorg" \notin FaultKinds => Durable'
  <2>1. Good \subseteq Good' /\ HeldHeights' \subseteq HeldHeights
    BY <1>1, JudgedAreGood DEF HeldHeights
  <2> QED
    BY <2>1, DurableKept DEF ScanInv
<1> QED
  BY <1>1, <1>2, <1>3, <1>4, Proceeds

LEMMA QuietProceeds == TypeInv /\ TypeInv' /\ ScanInv /\ Quiet => ScanInv'
<1> SUFFICES ASSUME TypeInv, TypeInv', ScanInv, Quiet PROVE ScanInv'
  OBVIOUS
<1> DEFINE none == {}
<1>1. none \in SUBSET (Heights \ Hits) /\ Good \cup none = Good /\ cf.judged \cup none = cf.judged
  OBVIOUS
<1>2. Holds(cf', Good) /\ Later(cf, cf') /\ cf'.judged = cf.judged
  BY QuietScan DEF ScanInv, TypeInv
<1> HIDE DEF none
<1>3. Holds(cf', Good \cup none) /\ cf'.judged = cf.judged \cup none
  BY <1>1, <1>2
<1>4. CASE UNCHANGED <<txs, held, grown, disk>>
  BY <1>1, <1>2, <1>3, <1>4, ScanOnlyProceeds
<1>5. ASSUME NEW busy \in BOOLEAN, BlockConnects(busy) PROVE ScanInv'
  <2>1. PICK released :
          /\ released \subseteq held /\ held' = held \ released /\ txs' = ConfirmedBy(released)
          /\ grown' = grown
          /\ \/ released = {} /\ disk' = disk
             \/ Persist(cf, held')
    <3>1. \A hs, t : Released(hs, t) \subseteq hs
      BY DEF Released
    <3> DEFINE released == IF tip + 1 \in Checkpoints THEN Released(held, tip + 1) ELSE {}
    <3>2. /\ held' = held \ released /\ txs' = ConfirmedBy(released) /\ grown' = grown
          /\ IF released = {} THEN disk' = disk ELSE Persist(cf, held')
      BY <1>5 DEF BlockConnects
    <3>3. released \subseteq held
      BY <3>1
    <3> HIDE DEF released
    <3> QED
      BY <3>2, <3>3
  <2>2. \A k \in Wanted :
          txs'[k] = IF [height |-> k, main |-> TRUE] \in released THEN "confirmed" ELSE txs[k]
    BY <2>1 DEF ConfirmedBy
  <2>3. \A e \in held : e.height \in Wanted /\ txs[e.height] # "unknown"
    BY DEF ScanInv, Told, TypeInv, WalletTyped
  <2>4. Judges(none)
    <3>1. \A k \in Wanted : Paid(k) => Paid(k)'
      BY <2>1, <2>2 DEF Paid
    <3> QED
      BY <1>1, <1>2, <1>3, <2>1, <3>1 DEF Judges, Later, none
  <2>5. \A r \in Reveals : txs'[r] # "unknown" => txs[r] # "unknown" \/ grown
    <3> SUFFICES ASSUME NEW r \in Reveals, txs'[r] # "unknown" PROVE txs[r] # "unknown"
      OBVIOUS
    <3>1. r \in Wanted
      BY ScanConstants DEF Wanted
    <3>2. CASE [height |-> r, main |-> TRUE] \in released
      <4> DEFINE e == [height |-> r, main |-> TRUE]
      <4>1. e \in held /\ e.height = r
        BY <2>1, <3>2
      <4> HIDE DEF e
      <4> QED
        BY <2>3, <4>1
    <3> QED
      BY <2>2, <3>1, <3>2
  <2>6. \A e \in held' : txs'[e.height] # "unknown"
    BY <2>1, <2>2, <2>3
  <2>7. "reorg" \notin FaultKinds => Durable'
    <3> SUFFICES ASSUME "reorg" \notin FaultKinds PROVE Durable'
      OBVIOUS
    <3>1. Good \subseteq Good'
      BY <2>4, JudgedAreGood
    <3>2. CASE released = {} /\ disk' = disk
      <4>1. HeldHeights' \subseteq HeldHeights
        BY <2>1 DEF HeldHeights
      <4> QED
        BY <1>2, <3>1, <3>2, <4>1, DurableKept DEF ScanInv
    <3>3. CASE Persist(cf, held')
      <4>1. disk'.ledger = {SavedLedger(cf, held')}
        BY <3>3 DEF Persist, TypeInv, DiskTyped
      <4>2. Holds(cf, Good)
        BY DEF ScanInv
      <4> QED
        BY <1>2, <3>1, <4>1, <4>2, DurableWritten DEF Later
    <3> QED
      BY <2>1, <3>2, <3>3
  <2> QED
    BY <2>4, <2>5, <2>6, <2>7, Proceeds
<1> QED
  BY <1>4, <1>5 DEF Quiet, Connect, Disconnect, Reanchor, RetireAbandonedBand

LEMMA CFilterProceeds ==
  \A h \in Heights : TypeInv /\ TypeInv' /\ ScanInv /\ CFilter(h) => ScanInv'
<1> SUFFICES ASSUME NEW h \in Heights, TypeInv, TypeInv', ScanInv, CFilter(h) PROVE ScanInv'
  OBVIOUS
<1>1. PICK S \in SUBSET (Heights \ Hits) :
        Holds(cf', Good \cup S) /\ Later(cf, cf') /\ cf'.judged = cf.judged \cup S
  BY CFilterScan DEF TypeInv, ScanInv
<1>2. UNCHANGED <<txs, held, grown, disk>>
  BY DEF CFilter
<1> QED
  BY <1>1, <1>2, ScanOnlyProceeds

LEMMA KeepAliveProceeds ==
  \A due, pick, aged, busy :
    TypeInv /\ TypeInv' /\ ScanInv /\ KeepAlive(due, pick, aged, busy) => ScanInv'
<1> SUFFICES ASSUME NEW due, NEW pick, NEW aged, NEW busy, TypeInv, TypeInv', ScanInv,
                    KeepAlive(due, pick, aged, busy)
             PROVE  ScanInv'
  OBVIOUS
<1>1. PICK S \in SUBSET (Heights \ Hits) :
        Holds(cf', Good \cup S) /\ Later(cf, cf') /\ cf'.judged = cf.judged \cup S
  BY KeepAliveScan DEF TypeInv, ScanInv
<1>2. UNCHANGED <<txs, held, grown, disk>>
  BY DEF KeepAlive
<1> QED
  BY <1>1, <1>2, ScanOnlyProceeds

LEMMA CFHeadersProceeds ==
  \A n \in 1..HdrBatch, p \in Peers, refund \in BOOLEAN :
    TypeInv /\ TypeInv' /\ ScanInv /\ CFHeaders(n, p, refund) => ScanInv'
<1> SUFFICES ASSUME NEW n \in 1..HdrBatch, NEW p \in Peers, NEW refund \in BOOLEAN,
                    TypeInv, TypeInv', ScanInv, CFHeaders(n, p, refund)
             PROVE  ScanInv'
  OBVIOUS
<1>1. UNCHANGED <<txs, held, grown>>
  BY DEF CFHeaders
<1>2. PICK c : /\ Holds(c, Good) /\ (Tight(cf) => Tight(c)) /\ (Anchored(cf) => Anchored(c))
               /\ c.judged = cf.judged /\ c.surfacedBelow = cf.surfacedBelow
               /\ Holds(cf', Good) /\ Later(c, cf') /\ cf'.judged = c.judged
               /\ disk' = [ledger |-> {SavedLedger(c, held)}, chain |-> c.chain]
  BY CFHeadersScan DEF ScanInv, TypeInv
<1> DEFINE none == {}
<1>3. Good \cup none = Good /\ cf.judged \cup none = cf.judged
  OBVIOUS
<1> HIDE DEF none
<1>4. Judges(none)
  BY <1>1, <1>2, <1>3 DEF Judges, Later, Paid, none
<1>5. Good \subseteq Good'
  BY <1>4, JudgedAreGood
<1>6. Durable'
  <2>1. /\ disk'.ledger = {SavedLedger(c, held')} /\ c.surfacedBelow <= cf'.surfacedBelow
        /\ cf'.chain # NoChain => c.ledger.requestedThrough <= cf'.ledger.requestedThrough
    BY <1>1, <1>2 DEF Later
  <2> QED
    BY <1>2, <1>5, <2>1, DurableWritten
<1> QED
  BY <1>1, <1>4, <1>6, Proceeds DEF ScanInv, Told

LEMMA BlockTxnsProceeds ==
  \A h \in Heights : TypeInv /\ TypeInv' /\ ScanInv /\ BlockTxns(h) => ScanInv'
<1> SUFFICES ASSUME NEW h \in Heights, TypeInv, TypeInv', ScanInv, BlockTxns(h) PROVE ScanInv'
  OBVIOUS
<1>1. /\ Later(cf, cf') /\ (\A k \in Heights : Paid(k) => Paid(k)')
      /\ \A r \in Reveals : txs'[r] # "unknown" => txs[r] # "unknown"
      /\ (\A e \in held : txs[e.height] # "unknown") => \A e \in held' : txs'[e.height] # "unknown"
      /\ \/ /\ Holds(cf', Good) /\ cf'.judged = cf.judged
            /\ UNCHANGED <<txs, held, disk>>
         \/ /\ Holds(cf', Good \cup {h}) /\ cf'.judged = cf.judged \cup {h}
            /\ h \in Wanted => Paid(h)'
            /\ Persist(cf', held')
  BY BlockTxnsScan DEF ScanInv, TypeInv
<1>2. \A k \in Wanted : Paid(k) => Paid(k)'
  BY <1>1, ScanConstants DEF Wanted
<1>3. grown' = grown /\ \A e \in held' : txs'[e.height] # "unknown"
  BY <1>1 DEF BlockTxns, ScanInv, Told
<1>4. CASE Holds(cf', Good) /\ cf'.judged = cf.judged /\ UNCHANGED <<txs, held, disk>>
  <2> DEFINE none == {}
  <2>1. /\ none \in SUBSET (Heights \ Hits) /\ Good \cup none = Good
        /\ cf.judged \cup none = cf.judged
    OBVIOUS
  <2> HIDE DEF none
  <2> QED
    BY <1>1, <1>3, <1>4, <2>1, ScanOnlyProceeds
<1>5. CASE /\ Holds(cf', Good \cup {h}) /\ cf'.judged = cf.judged \cup {h}
           /\ h \in Wanted => Paid(h)'
           /\ Persist(cf', held')
  <2>1. Judges({h})
    BY <1>1, <1>2, <1>3, <1>5 DEF Judges, Later
  <2>2. Good \cup {h} \subseteq Good'
    BY <2>1, JudgedAreGood
  <2>3. Durable'
    <3>1. disk'.ledger = {SavedLedger(cf', held')}
      BY <1>5 DEF Persist, TypeInv, DiskTyped
    <3>2. /\ cf'.surfacedBelow <= cf'.surfacedBelow
          /\ cf'.ledger.requestedThrough <= cf'.ledger.requestedThrough
      <4>1. cf'.surfacedBelow \in Nat /\ cf'.ledger.requestedThrough \in Nat
        BY HoldsNumbers DEF TypeInv
      <4> QED
        BY <4>1
    <3> QED
      BY <1>5, <2>2, <3>1, <3>2, DurableWritten
  <2> QED
    BY <1>1, <1>3, <2>1, <2>3, Proceeds
<1> QED
  BY <1>1, <1>4, <1>5

(* While the address set has not grown, nothing late is owed as far as the *)
(* scan has come: whatever would reveal it was judged, and was not told.   *)
LEMMA NothingOwed ==
  TypeInv /\ ScanInv /\ ~ grown
    => \A k \in Heights : k <= Frontier(cf) \/ k <= cf.ledger.start => k \notin Late \/ ~ Owed(k)
<1> SUFFICES ASSUME TypeInv, ScanInv, ~ grown, NEW k \in Heights,
                    k <= Frontier(cf) \/ k <= cf.ledger.start, k \in Late, Owed(k)
             PROVE  FALSE
  OBVIOUS
<1>1. PICK r \in Reveals : Birth <= r /\ r < k /\ r >= cf.surfacedBelow
  BY DEF Owed
<1>2. r \in Nat /\ k \in Nat /\ r \in Matches /\ r \in Wanted
  BY ScanConstants, LedgerConstants DEF Heights, Wanted
<1>3. /\ Holds(cf, Good) /\ Birth \in Nat /\ cf.surfacedBelow \in Nat /\ cf.ledger.start \in Nat
      /\ Frontier(cf) \in Nat
      /\ Settles(Good, cf.surfacedBelow, Birth, Frontier(cf) - 1)
      /\ Settles(Good, cf.surfacedBelow, Birth, cf.ledger.start - 1)
  <2>1. Holds(cf, Good)
    BY DEF ScanInv
  <2>2. /\ Birth \in Nat /\ cf.surfacedBelow \in Nat /\ cf.ledger.start \in Nat
    BY <2>1, HoldsNumbers
  <2>3. Settles(Good, cf.surfacedBelow, Birth, cf.ledger.start - 1)
    BY <2>1 DEF Holds
  <2>4. Frontier(cf) \in Nat /\ Settles(Good, cf.surfacedBelow, Birth, Frontier(cf) - 1)
    BY <2>1, FrontierSettles
  <2> QED
    BY <2>1, <2>2, <2>3, <2>4
<1>4. r \in Birth..(Frontier(cf) - 1) \/ r \in Birth..(cf.ledger.start - 1)
  BY <1>1, <1>2, <1>3
<1>5. r \in Good
  <2>1. r \in Good \/ r < cf.surfacedBelow
    BY <1>3, <1>4 DEF Settles
  <2> QED
    BY <1>1, <1>2, <1>3, <2>1
<1>6. Paid(r)
  BY <1>2, <1>5 DEF ScanInv, Told, Good
<1>7. txs[r] # "unknown"
  <2>1. CASE txs[r] = "confirmed"
    BY <2>1
  <2>2. CASE [height |-> r, main |-> TRUE] \in held
    <3> DEFINE e == [height |-> r, main |-> TRUE]
    <3>1. e \in held /\ e.height = r
      BY <2>2
    <3> HIDE DEF e
    <3> QED
      BY <3>1 DEF ScanInv, Told
  <2> QED
    BY <1>6, <2>1, <2>2 DEF Paid
<1> QED
  BY <1>7 DEF ScanInv, Told

(* What holds of some verdicts holds of others that agree with them        *)
(* wherever the scan state counts any.                                     *)
LEMMA HoldsWhere ==
  \A c, ev, ev2 :
    /\ Holds(c, ev) /\ ev2 \subseteq Heights
    /\ \A k \in ev : k <= c.ledger.requestedThrough \/ k < NextForward(c) => k \in ev2 \/ k < c.surfacedBelow
    => Holds(c, ev2)
<1> SUFFICES ASSUME NEW c, NEW ev, NEW ev2, Holds(c, ev), ev2 \subseteq Heights,
                    \A k \in ev : k <= c.ledger.requestedThrough \/ k < NextForward(c)
                                    => k \in ev2 \/ k < c.surfacedBelow
             PROVE  Holds(c, ev2)
  OBVIOUS
<1>1. /\ c.surfacedBelow \in Nat /\ c.surfacedBelow <= MaxHeight + 1 /\ MaxHeight \in Nat
      /\ c.ledger.start \in Nat /\ c.ledger.start <= c.ledger.requestedThrough + 1
      /\ c.ledger.requestedThrough \in Nat /\ Birth \in Nat
      /\ c.autoStart \in Nat /\ c.autoThrough \in Nat
  BY HoldsNumbers
<1>2. NextForward(c) \in Nat
  BY <1>1 DEF NextForward, Larger
<1>3. Safe(c.ledger, ev2, c.surfacedBelow)
  <2>1. Safe(c.ledger, ev, c.surfacedBelow)
    BY DEF Holds
  <2>2. \A h \in c.ledger.start..c.ledger.requestedThrough : h \in ev => h \in ev2 \/ h < c.surfacedBelow
    BY <1>1
  <2>3. c.surfacedBelow \in 0..(MaxHeight + 1) /\ c.surfacedBelow <= c.surfacedBelow
    BY <1>1
  <2> QED
    BY <2>1, <2>2, <2>3, SafeIsMonotone
<1>4. Settles(ev2, c.surfacedBelow, Birth, c.ledger.start - 1)
  BY <1>1 DEF Holds, Settles
<1>5. Settles(ev2, c.surfacedBelow, c.ledger.requestedThrough + 1, NextForward(c) - 1)
  BY <1>1, <1>2 DEF Holds, Settles
<1> QED
  BY <1>3, <1>4, <1>5 DEF Holds

(* When the address set grows, every verdict the scan keeps was reached    *)
(* with no block below it still missing, and stays good.                   *)
LEMMA BlockTransactionsProceeds ==
  \A h \in Heights : TypeInv /\ TypeInv' /\ ScanInv /\ BlockTransactions(h) => ScanInv'
<1> SUFFICES ASSUME NEW h \in Heights, TypeInv, TypeInv', ScanInv, BlockTransactions(h)
             PROVE  ScanInv'
  OBVIOUS
<1> DEFINE from == RescanFrom(cf, h)
           grows == h \in Reveals /\ ~ grown
           d == [cf EXCEPT !.ledger = RewindTo(@, from), !.autoThrough = Smaller(@, from - 1)]
<1>1. /\ h \in cf.solicited /\ h \in Wanted /\ txs[h] = "unknown"
      /\ txs' = [txs EXCEPT ![h] = "known"]
      /\ grown' = (grown \/ grows) /\ held' = held
      /\ IF grows /\ from <= cf.ledger.requestedThrough
         THEN cf' = d /\ Persist(d, held)
         ELSE UNCHANGED <<cf, disk>>
  BY DEF BlockTransactions
<1>2. /\ Holds(cf, Good) /\ Told /\ cf.chain # NoChain /\ grown \in BOOLEAN
      /\ txs \in [Wanted -> {"unknown", "known", "confirmed"}]
      /\ \A e \in held : e.height \in Wanted
  BY <1>1 DEF ScanInv, Holds, TypeInv, WalletTyped
<1>3. \A k \in Wanted : Paid(k) => Paid(k)'
  BY <1>1, <1>2 DEF Paid
<1>4. \A e \in held' : txs'[e.height] # "unknown"
  BY <1>1, <1>2 DEF Told
<1>5. CASE ~ grows
  <2> DEFINE none == {}
  <2>1. Good \cup none = Good /\ cf.judged \cup none = cf.judged
    OBVIOUS
  <2>2. cf' = cf /\ disk' = disk /\ grown' = grown
    BY <1>1, <1>2, <1>5
  <2>3. cf.surfacedBelow <= cf'.surfacedBelow /\ Later(cf, cf')
    BY <1>2, <2>2, LaterSelf DEF Later
  <2> HIDE DEF none
  <2>4. Judges(none)
    BY <1>2, <1>3, <2>1, <2>2, <2>3 DEF Judges, none
  <2>5. \A r \in Reveals : txs'[r] # "unknown" => txs[r] # "unknown" \/ grown
    BY <1>1, <1>2, <1>5, ScanConstants DEF Wanted
  <2>6. "reorg" \notin FaultKinds => Durable'
    <3>1. Good \subseteq Good' /\ HeldHeights' \subseteq HeldHeights
      BY <1>1, <2>4, JudgedAreGood DEF HeldHeights
    <3> QED
      BY <2>2, <2>3, <3>1, DurableKept DEF ScanInv
  <2> QED
    BY <1>4, <2>4, <2>5, <2>6, Proceeds
<1>6. CASE grows
  <2>1. /\ ~ grown /\ grown' = TRUE /\ Tight(cf)
    BY <1>1, <1>2, <1>6 DEF Told
  <2>2. /\ cf.surfacedBelow \in Nat /\ cf.surfacedBelow <= MaxHeight + 1 /\ MaxHeight \in Nat
        /\ cf.ledger.start \in Nat /\ 1 <= cf.ledger.start
        /\ cf.ledger.start <= cf.ledger.requestedThrough + 1
        /\ cf.ledger.scannedThrough \in Nat /\ cf.ledger.requestedThrough \in Nat
        /\ cf.ledger.scannedThrough <= cf.ledger.requestedThrough
        /\ cf.ledger.requestedThrough <= MaxHeight
        /\ cf.ledger.abandonedBelow \in Nat /\ cf.ledger.abandonedBelow <= cf.surfacedBelow
        /\ cf.autoStart \in Nat /\ cf.autoThrough \in Nat /\ cf.autoStart <= MaxHeight + 1
    BY <1>2, HoldsNumbers
  <2>3. Good \subseteq Heights /\ \A k \in Heights : k \in Nat
    BY GoodIsJudged, LedgerConstants DEF Heights
  <2>4. /\ from \in Nat /\ cf.ledger.start <= from
        /\ \A k \in Nat : k < from
             => k < cf.ledger.start \/ k < cf.ledger.abandonedBelow
                \/ (k < h /\ k <= cf.ledger.scannedThrough)
        /\ from <= cf.ledger.requestedThrough => from \in Heights
    BY <1>2, RescanFromIsHeight
  <2> HIDE DEF from, d
  <2>5. cf.ledger.scannedThrough <= Frontier(cf) /\ Frontier(cf) \in Nat
    BY <2>2 DEF Frontier, LowestNeededHeight, Larger
  <2>6. ASSUME cf'.judged = cf.judged, cf'.surfacedBelow = cf.surfacedBelow,
               NEW k \in Good, k <= cf.ledger.start \/ k <= cf.ledger.scannedThrough
        PROVE  k \in Good'
    <3>1. k \in Heights /\ k \in Nat
      BY <2>3
    <3>2. k <= Frontier(cf) \/ k <= cf.ledger.start
      BY <2>2, <2>5, <2>6, <3>1
    <3>3. k \notin Late \/ ~ Owed(k)
      BY <2>1, <3>1, <3>2, NothingOwed
    <3>4. k \notin Late \/ ~ Owed(k)'
      BY <2>6, <3>3 DEF Owed
    <3>5. k \in cf'.judged
      BY <2>6 DEF Good
    <3> QED
      BY <3>4, <3>5 DEF Good
  <2>7. ASSUME cf'.judged = cf.judged, cf'.surfacedBelow = cf.surfacedBelow,
               NEW k \in Good, k < from
        PROVE  k \in Good' \/ k < cf.surfacedBelow
    <3>1. k \in Nat
      BY <2>3
    <3>2. k <= cf.ledger.start \/ k <= cf.ledger.scannedThrough \/ k < cf.surfacedBelow
      BY <2>2, <2>4, <2>7, <3>1
    <3> QED
      BY <2>6, <2>7, <3>2
  <2>8. ASSUME cf'.judged = cf.judged PROVE Told'
    <3>1. \A k \in Matches \cap cf'.judged : Paid(k)'
      BY <1>2, <1>3, <2>8 DEF Told, Wanted
    <3> QED
      BY <1>4, <2>1, <3>1 DEF Told
  <2>9. CASE from <= cf.ledger.requestedThrough
    <3>1. cf' = d /\ Persist(d, held) /\ held' = held
      BY <1>1, <1>6, <2>9
    <3> DEFINE s == d
    <3>2. /\ s.judged = cf.judged /\ s.surfacedBelow = cf.surfacedBelow
          /\ IsRecord(cf)
      BY <1>2 DEF d, Holds, IsRecord, Fields
    <3>3. \A k \in Good : k < from => k \in Good' \/ k < cf.surfacedBelow
      BY <2>7, <3>1, <3>2
    <3>4. Settles(Good', cf.surfacedBelow, from, cf.autoStart - 1)
      <4> SUFFICES ASSUME NEW k \in from..(cf.autoStart - 1), k >= cf.surfacedBelow
                   PROVE  k \in Good'
        BY <2>2, <2>4 DEF Settles
      <4>1. k <= cf.ledger.scannedThrough
        <5>1. cf.autoStart <= Larger(cf.ledger.scannedThrough + 1, cf.surfacedBelow)
          BY <2>1 DEF Tight
        <5>2. k \in Int /\ k < cf.autoStart
          BY <2>2, <2>4
        <5> QED
          BY <2>2, <5>1, <5>2 DEF Larger
      <4>2. k \in cf.ledger.start..cf.ledger.scannedThrough
        BY <2>2, <2>4, <4>1
      <4>3. k \in Good
        BY <1>2, <2>2, <4>2 DEF Holds, Safe
      <4> QED
        BY <2>6, <3>1, <3>2, <4>1, <4>3
    <3>5. Good' \subseteq Heights
      BY GoodIsJudged DEF TypeInv, Holds, Good
    <3>6. /\ Holds(s, Good') /\ (Anchored(cf) => Anchored(s))
      <4> DEFINE ev2 == Good'
      <4>1. ev2 \subseteq Heights /\ (\A k \in Good : k < from => k \in ev2 \/ k < cf.surfacedBelow)
            /\ Settles(ev2, cf.surfacedBelow, from, cf.autoStart - 1)
        BY <3>3, <3>4, <3>5
      <4> HIDE DEF ev2
      <4>2. Holds(d, ev2) /\ (Anchored(cf) => Anchored(d))
        BY <1>2, <2>4, <2>9, <4>1, RescanHolds DEF d
      <4> QED
        BY <4>2 DEF ev2
    <3>7. Durable'
      <4>1. disk'.ledger = {SavedLedger(s, held')}
        BY <3>1 DEF Persist, TypeInv, DiskTyped
      <4>2. s.surfacedBelow <= cf'.surfacedBelow /\ s.ledger.requestedThrough <= cf'.ledger.requestedThrough
        <5>1. s.surfacedBelow \in Nat /\ s.ledger.requestedThrough \in Nat
          BY <3>6, HoldsNumbers
        <5> QED
          BY <3>1, <5>1
      <4>3. Good' \subseteq Good'
        OBVIOUS
      <4> HIDE DEF s
      <4> QED
        BY <3>6, <4>1, <4>2, <4>3, DurableWritten
    <3>8. Told'
      BY <2>8, <3>1, <3>2
    <3> QED
      BY <3>1, <3>6, <3>7, <3>8 DEF ScanInv
  <2>10. CASE ~ (from <= cf.ledger.requestedThrough)
    <3>1. cf' = cf /\ disk' = disk /\ held' = held
      BY <1>1, <2>10
    <3>2. \A k \in Good : k <= cf.ledger.requestedThrough => k \in Good' \/ k < cf.surfacedBelow
      <4> SUFFICES ASSUME NEW k \in Good, k <= cf.ledger.requestedThrough
                   PROVE  k \in Good' \/ k < cf.surfacedBelow
        OBVIOUS
      <4>1. k < from
        BY <2>2, <2>3, <2>4, <2>10
      <4> QED
        BY <2>7, <3>1, <4>1
    <3>3. NextForward(cf) <= Larger(cf.ledger.requestedThrough + 1, cf.surfacedBelow)
      BY <2>1, <2>2 DEF Tight, NextForward, Larger
    <3>4. \A k \in Good : k <= cf.ledger.requestedThrough \/ k < NextForward(cf)
                            => k \in Good' \/ k < cf.surfacedBelow
      <4> SUFFICES ASSUME NEW k \in Good,
                          k <= cf.ledger.requestedThrough \/ k < NextForward(cf)
                   PROVE  k \in Good' \/ k < cf.surfacedBelow
        OBVIOUS
      <4>1. k \in Nat /\ NextForward(cf) \in Nat
        BY <2>2, <2>3 DEF NextForward, Larger
      <4>2. k <= cf.ledger.requestedThrough \/ k < cf.surfacedBelow
        BY <2>2, <3>3, <4>1 DEF Larger
      <4> QED
        BY <3>2, <4>2
    <3>5. Good' \subseteq Heights
      BY GoodIsJudged DEF TypeInv, Holds, Good
    <3>6. Holds(cf, Good')
      <4> DEFINE ev2 == Good'
      <4>1. /\ ev2 \subseteq Heights
            /\ \A k \in Good : k <= cf.ledger.requestedThrough \/ k < NextForward(cf)
                                 => k \in ev2 \/ k < cf.surfacedBelow
        BY <3>4, <3>5
      <4> HIDE DEF ev2
      <4>2. Holds(cf, ev2)
        BY <1>2, <4>1, HoldsWhere
      <4> QED
        BY <4>2 DEF ev2
    <3>7. "reorg" \notin FaultKinds => Durable'
      <4> SUFFICES ASSUME Durable, NEW l \in disk.ledger
                   PROVE  /\ Safe(l, Good' \ HeldHeights', cf'.surfacedBelow) /\ l.start >= 1
                          /\ Settles(Good' \ HeldHeights', cf'.surfacedBelow, Birth, l.start - 1)
                          /\ cf'.chain # NoChain => l.requestedThrough <= cf'.ledger.requestedThrough
        BY <3>1 DEF Durable, ScanInv
      <4> DEFINE kept == Good \ HeldHeights
                 kept2 == Good' \ HeldHeights'
      <4>1. /\ Safe(l, kept, cf.surfacedBelow) /\ l.start >= 1
            /\ Settles(kept, cf.surfacedBelow, Birth, l.start - 1)
            /\ l.requestedThrough <= cf.ledger.requestedThrough
        BY <1>2 DEF Durable
      <4>2. \A k \in kept : k <= cf.ledger.requestedThrough => k \in kept2 \/ k < cf.surfacedBelow
        BY <3>1, <3>2 DEF HeldHeights
      <4>3. kept2 \subseteq Heights /\ kept \subseteq Heights
        BY <2>3, <3>5
      <4> HIDE DEF kept, kept2
      <4>4. /\ l.start \in Nat /\ l.requestedThrough \in Nat /\ l.start <= l.requestedThrough + 1
            /\ Birth \in Nat /\ cf.surfacedBelow \in 0..(MaxHeight + 1)
            /\ cf.surfacedBelow <= cf.surfacedBelow
        <5>1. Birth \in Nat
          BY <1>2, HoldsNumbers
        <5> QED
          BY <2>2, <4>1, <5>1, LedgerConstants DEF Safe, IsLedger
      <4>5. Safe(l, kept2, cf.surfacedBelow)
        <5>1. \A k \in l.start..l.requestedThrough : k \in kept => k \in kept2 \/ k < cf.surfacedBelow
          BY <2>2, <4>1, <4>2, <4>4
        <5> QED
          BY <4>1, <4>3, <4>4, <5>1, SafeIsMonotone
      <4>6. Settles(kept2, cf.surfacedBelow, Birth, l.start - 1)
        <5>1. \A k \in Birth..(l.start - 1) : k <= cf.ledger.requestedThrough
          BY <2>2, <4>1, <4>4
        <5> QED
          BY <4>1, <4>2, <5>1 DEF Settles
      <4> QED
        BY <3>1, <4>1, <4>5, <4>6 DEF kept2
    <3>8. Told'
      BY <2>8, <3>1
    <3> QED
      BY <3>1, <3>6, <3>7, <3>8 DEF ScanInv
  <2> QED
    BY <2>9, <2>10
<1> QED
  BY <1>5, <1>6

(* A reorganisation: nothing counts from the fork on, and below it nothing *)
(* is lost.                                                                *)
LEMMA ReorgProceeds ==
  \A f \in Heights : Followed /\ TypeInv /\ TypeInv' /\ ScanInv /\ Reorg(f) => ScanInv'
<1> SUFFICES ASSUME NEW f \in Heights, Followed, TypeInv, TypeInv', ScanInv, Reorg(f)
             PROVE  ScanInv'
  OBVIOUS
<1>1. "reorg" \in FaultKinds /\ Anchored(cf) /\ Holds(cf, Good) /\ Told
  BY DEF Reorg, Fault, ScanInv
<1>2. cf.surfacedBelow <= cf'.surfacedBelow /\ cf'.judged = {h \in cf.judged : h < f}
  BY ReorgScan DEF TypeInv
<1>3. /\ \A h \in Wanted : txs[h] # "unknown" => txs'[h] # "unknown"
      /\ \A h \in Wanted : txs'[h] # "unknown"
           => txs[h] # "unknown" \/ \E e \in held : e.height = h
      /\ \A e \in held' : \E e2 \in held : e2.height = e.height
      /\ \A h \in Wanted : h < f /\ Paid(h) => Paid(h)'
  BY ReorgWallet DEF TypeInv
<1>4. grown' = grown
  BY DEF Reorg
<1>5. /\ cf.surfacedBelow \in Nat /\ cf'.surfacedBelow \in Nat
      /\ \A r \in Reveals : r \in Nat
  <2>1. cf.surfacedBelow \in Nat /\ cf'.surfacedBelow \in Nat
    BY HoldsNumbers DEF TypeInv
  <2> QED
    BY <2>1, ScanConstants, LedgerConstants DEF Heights
<1>6. \A h \in Good : h < f => h \in Good'
  <2> SUFFICES ASSUME NEW h \in Good, h < f PROVE h \in Good'
    OBVIOUS
  <2>1. Owed(h)' => Owed(h)
    BY <1>2, <1>5 DEF Owed
  <2>2. h \in Late => h \in Wanted
    BY DEF Wanted
  <2> QED
    BY <1>2, <1>3, <1>4, <2>1, <2>2 DEF Good
<1>7. Good' \subseteq Heights
  BY GoodIsJudged DEF TypeInv, Holds, Good
<1>8. Holds(cf', Good') /\ (Tight(cf) => Tight(cf')) /\ Anchored(cf')
  <2> DEFINE ev == Good
             ev2 == Good'
  <2>1. Holds(cf, ev) /\ ev2 \subseteq Heights /\ \A h \in ev : h < f => h \in ev2
    BY <1>1, <1>6, <1>7
  <2> HIDE DEF ev, ev2
  <2>2. Surroundings
    BY DEF TypeInv
  <2>3. Holds(cf', ev2) /\ (Tight(cf) => Tight(cf')) /\ (Anchored(cf) => Anchored(cf'))
    BY <1>1, <2>1, <2>2, ReorgScan
  <2> QED
    BY <1>1, <2>3 DEF ev2
<1>9. \A e \in held : e.height \in Wanted /\ txs[e.height] # "unknown"
  BY <1>1 DEF Told, TypeInv, WalletTyped
<1>10. Told'
  <2>1. \A h \in Matches \cap cf'.judged : Paid(h)'
    BY <1>1, <1>2, <1>3 DEF Told, Wanted
  <2>2. \A r \in Reveals : txs'[r] # "unknown" => grown'
    <3> SUFFICES ASSUME NEW r \in Reveals, txs'[r] # "unknown" PROVE grown'
      OBVIOUS
    <3>1. r \in Wanted
      BY ScanConstants DEF Wanted
    <3>2. txs[r] # "unknown"
      BY <1>3, <1>9, <3>1
    <3> QED
      BY <1>1, <1>4, <3>2 DEF Told
  <2>3. \A e \in held' : txs'[e.height] # "unknown"
    BY <1>3, <1>9
  <2>4. grown' \/ Tight(cf')
    BY <1>1, <1>4, <1>8 DEF Told
  <2> QED
    BY <2>1, <2>2, <2>3, <2>4 DEF Told
<1> QED
  BY <1>1, <1>8, <1>10 DEF ScanInv

(* A restart: the saved scan counts what survives the crash.               *)
LEMMA RestartProceeds ==
  Followed /\ TypeInv /\ TypeInv' /\ ScanInv /\ Restart => ScanInv'
<1> SUFFICES ASSUME Followed, TypeInv, TypeInv', ScanInv, Restart PROVE ScanInv'
  OBVIOUS
<1> DEFINE kept == Good \ HeldHeights
           j == cf.judged \ HeldHeights
<1>1. /\ "restart" \in FaultKinds /\ "reorg" \notin FaultKinds
      /\ "ledgerloss" \notin FaultKinds
  BY DEF Restart, Fault, Followed
<1>2. PICK chain \in {disk.chain, NoChain} :
        cf' = Started(tip', blockFloor', disk.ledger, chain, j, cf.surfacedBelow)
  <2>1. PICK ch \in {disk.chain} \cup (IF "chainloss" \in FaultKinds THEN {NoChain} ELSE {}),
             ledgers \in {disk.ledger} \cup (IF "ledgerloss" \in FaultKinds THEN {{}} ELSE {}) :
          cf' = Started(tip', blockFloor', ledgers, ch,
                        cf.judged \ {e.height : e \in held}, cf.surfacedBelow)
    BY DEF Restart
  <2>2. ch \in {disk.chain, NoChain} /\ ledgers = disk.ledger
    BY <1>1, <2>1
  <2> QED
    BY <2>1, <2>2 DEF HeldHeights
<1> DEFINE d == Started(tip', blockFloor', disk.ledger, chain, j, cf.surfacedBelow)
<1>3. /\ disk.ledger # {} /\ cf' = d
      /\ held' = {} /\ UNCHANGED <<txs, grown, disk>>
  BY <1>1, <1>2, SMTT(60) DEF Restart
<1>4. /\ tip' \in Heights /\ blockFloor' \in 1..tip'
      /\ j \subseteq Heights /\ cf.surfacedBelow \in 0..(MaxHeight + 1)
      /\ IsChain(chain) /\ \A l, m \in disk.ledger : l = m
  <2>1. IsChain(NoChain)
    BY LedgerConstants DEF IsChain, NoChain, Chain
  <2> QED
    BY <2>1, <1>2 DEF TypeInv, Surroundings, Holds, Safe, DiskTyped
<1>5. \A l \in disk.ledger : /\ Safe(l, kept, cf.surfacedBelow) /\ l.start >= 1
                             /\ Settles(kept, cf.surfacedBelow, Birth, l.start - 1)
  BY <1>1 DEF ScanInv, Durable
<1>6. kept \subseteq Heights
  BY GoodIsJudged
<1> HIDE DEF kept, j
<1>7. /\ Holds(d, kept) /\ Tight(d) /\ d.judged = j
      /\ cf.surfacedBelow <= d.surfacedBelow
      /\ \E l \in disk.ledger : d.ledger.requestedThrough = l.requestedThrough
  <2> DEFINE t == tip'
             floor == blockFloor'
             ledgers == disk.ledger
             ch == chain
             sb == cf.surfacedBelow
  <2>1. /\ t \in Heights /\ floor \in 1..t /\ j \subseteq Heights /\ sb \in 0..(MaxHeight + 1)
        /\ IsChain(ch) /\ ledgers # {}
        /\ \A l \in ledgers : /\ Safe(l, kept, sb) /\ l.start >= 1
                             /\ Settles(kept, sb, Birth, l.start - 1)
    BY <1>3, <1>4, <1>5
  <2>2. d = Started(t, floor, ledgers, ch, j, sb)
    OBVIOUS
  <2> HIDE DEF t, floor, ledgers, ch, sb, d
  <2>3. /\ Holds(d, kept) /\ Tight(d) /\ d.judged = j /\ sb <= d.surfacedBelow
        /\ \E l \in ledgers : d.ledger.requestedThrough = l.requestedThrough
    BY <1>6, <2>1, <2>2, StartedHolds
  <2> QED
    BY <2>3 DEF sb, ledgers
<1> HIDE DEF d
<1>8. /\ cf'.judged = cf.judged \ HeldHeights /\ cf.surfacedBelow <= cf'.surfacedBelow
      /\ cf.surfacedBelow \in Nat /\ cf'.surfacedBelow \in Nat
      /\ \A r \in Reveals : r \in Nat
  <2>1. cf.surfacedBelow \in Nat /\ cf'.surfacedBelow \in Nat
    BY HoldsNumbers DEF TypeInv
  <2> QED
    BY <1>3, <1>7, <2>1, ScanConstants, LedgerConstants DEF Heights, j
<1>9. \A k : Paid(k) /\ k \notin HeldHeights => Paid(k)'
  <2> SUFFICES ASSUME NEW k, Paid(k), k \notin HeldHeights PROVE Paid(k)'
    OBVIOUS
  <2>1. [height |-> k, main |-> TRUE] \notin held
    <3> SUFFICES ASSUME [height |-> k, main |-> TRUE] \in held PROVE FALSE
      OBVIOUS
    <3> DEFINE e == [height |-> k, main |-> TRUE]
    <3>1. e \in held /\ e.height = k
      OBVIOUS
    <3> HIDE DEF e
    <3> QED
      BY <3>1 DEF HeldHeights
  <2> QED
    BY <1>3, <2>1 DEF Paid
<1>10. kept \subseteq Good'
  <2> SUFFICES ASSUME NEW k \in kept PROVE k \in Good'
    OBVIOUS
  <2>1. k \in Good /\ k \notin HeldHeights
    BY DEF kept
  <2>2. Owed(k)' => Owed(k)
    BY <1>8 DEF Owed
  <2> QED
    BY <1>3, <1>8, <1>9, <2>1, <2>2 DEF Good
<1>11. Good' \subseteq Heights
  BY GoodIsJudged DEF TypeInv, Holds, Good
<1>12. Holds(cf', Good')
  <2> DEFINE ev2 == Good'
  <2>1. kept \subseteq ev2 /\ ev2 \subseteq Heights
    BY <1>10, <1>11
  <2> HIDE DEF ev2
  <2>2. Holds(d, ev2)
    BY <1>7, <2>1, HoldsMore
  <2> QED
    BY <1>3, <2>2 DEF ev2
<1>13. Told'
  <2>1. \A k \in Matches \cap cf'.judged : Paid(k)'
    BY <1>8, <1>9 DEF ScanInv, Told
  <2>2. \A r \in Reveals : txs'[r] # "unknown" => grown'
    BY <1>3 DEF ScanInv, Told
  <2> QED
    BY <1>3, <1>7, <2>1, <2>2 DEF Told
<1>14. Durable'
  <2> SUFFICES ASSUME NEW l \in disk.ledger
               PROVE  /\ Safe(l, Good' \ HeldHeights', cf'.surfacedBelow) /\ l.start >= 1
                      /\ Settles(Good' \ HeldHeights', cf'.surfacedBelow, Birth, l.start - 1)
                      /\ l.requestedThrough <= cf'.ledger.requestedThrough
    BY <1>3 DEF Durable
  <2> DEFINE kept2 == Good' \ HeldHeights'
  <2>1. kept \subseteq kept2 /\ kept2 \subseteq Heights
    BY <1>3, <1>10, <1>11 DEF HeldHeights
  <2> HIDE DEF kept2
  <2>2. /\ Safe(l, kept, cf.surfacedBelow) /\ l.start >= 1
        /\ Settles(kept, cf.surfacedBelow, Birth, l.start - 1)
    BY <1>5
  <2>3. l.start \in Nat /\ l.requestedThrough \in Nat /\ Birth \in Nat
    <3>1. Birth \in Nat
      BY HoldsNumbers DEF TypeInv
    <3> QED
      BY <2>2, <3>1, LedgerConstants DEF Safe, IsLedger
  <2>4. cf'.surfacedBelow \in 0..(MaxHeight + 1)
    BY DEF TypeInv, Holds, Safe
  <2>5. Safe(l, kept2, cf'.surfacedBelow)
    BY <1>8, <2>1, <2>2, <2>4, SafeIsMonotone
  <2>6. Settles(kept2, cf'.surfacedBelow, Birth, l.start - 1)
    BY <1>8, <2>1, <2>2, <2>3, SettlesMore
  <2>7. l.requestedThrough <= cf'.ledger.requestedThrough
    BY <1>3, <1>4, <1>7, <2>3
  <2> QED
    BY <2>2, <2>5, <2>6, <2>7 DEF kept2
<1> QED
  BY <1>1, <1>12, <1>13, <1>14 DEF ScanInv

(* A wallet's first start scans from its birth, and has scanned nothing.   *)
LEMMA InitFields ==
  Init => /\ cf.ledger = NewLedger(Birth)
          /\ cf.ledger.start = Birth /\ cf.ledger.scannedThrough = Birth - 1
          /\ cf.ledger.requestedThrough = Birth - 1 /\ HolesOf(cf.ledger) = {}
          /\ cf.autoStart = Birth /\ cf.autoThrough = Birth - 1
          /\ cf.chain = NoChain /\ cf.judged = {} /\ cf.surfacedBelow = 0
<1> SUFFICES ASSUME Init
             PROVE  /\ cf.ledger = NewLedger(Birth)
                    /\ cf.ledger.start = Birth /\ cf.ledger.scannedThrough = Birth - 1
                    /\ cf.ledger.requestedThrough = Birth - 1 /\ HolesOf(cf.ledger) = {}
                    /\ cf.autoStart = Birth /\ cf.autoThrough = Birth - 1
                    /\ cf.chain = NoChain /\ cf.judged = {} /\ cf.surfacedBelow = 0
  OBVIOUS
<1> USE DEF Init
<1> DEFINE none == {}
<1>1. /\ MaxHeight \in Nat /\ Birth \in Heights /\ Birth \in Nat /\ 1 <= Birth /\ Birth <= MaxHeight
      /\ Birth \in 1..Birth
  BY LedgerConstants, ScanConstants DEF Heights
<1>3. ClampedStart(Birth, Birth) = Birth
  BY <1>1 DEF ClampedStart
<1> DEFINE l == NewLedger(Birth)
           enabled == [ledger |-> l, autoStart |-> Birth, autoThrough |-> Birth - 1,
                       chain |-> NoChain, solicited |-> {}, buffered |-> {},
                       judged |-> {}, surfacedBelow |-> 0]
<1>4. cf = Snap(enabled, Birth)
  <2> HIDE DEF l
  <2> QED
    BY <1>3 DEF Started, l
<1>5. /\ l.start = Birth /\ l.scannedThrough = Birth - 1 /\ l.requestedThrough = Birth - 1
      /\ l.abandonedBelow = 0 /\ HolesOf(l) = {}
  <2>1. none \subseteq Heights /\ 0 \in 0..(MaxHeight + 1) /\ Birth \in 1..(MaxHeight + 1)
    BY <1>1
  <2> HIDE DEF none, l
  <2> QED
    BY <2>1, NewLedgerIsSafe DEF l
<1> HIDE DEF l
<1>6. Frontier(enabled) = Birth
  BY <1>1, <1>5 DEF Frontier, LowestNeededHeight, Larger
<1>7. /\ cf.ledger = l /\ cf.autoStart = Birth /\ cf.autoThrough = Birth - 1
      /\ cf.chain = NoChain /\ cf.judged = {} /\ cf.surfacedBelow = 0
  <2>1. /\ enabled.ledger = l /\ enabled.autoStart = Birth /\ enabled.autoThrough = Birth - 1
        /\ enabled.chain = NoChain /\ enabled.judged = {} /\ enabled.surfacedBelow = 0
        /\ DOMAIN enabled = Fields
    BY DEF Fields
  <2> HIDE DEF enabled
  <2> DEFINE at == Smaller(enabled.autoStart, Frontier(enabled))
             through == Larger(Smaller(enabled.autoThrough, enabled.ledger.requestedThrough),
                               Frontier(enabled) - 1)
  <2>2. cf = [enabled EXCEPT !.autoStart = at, !.autoThrough = through]
    <3>1. ~ (enabled.ledger.start > Birth) /\ ~ (Frontier(enabled) < Birth)
      BY <1>1, <1>5, <1>6, <2>1
    <3> QED
      BY <1>4, <3>1 DEF Snap
  <2>3. at = Birth /\ through = Birth - 1
    BY <1>1, <1>5, <1>6, <2>1 DEF Smaller, Larger
  <2> HIDE DEF at, through
  <2>4. cf = [enabled EXCEPT !.autoStart = Birth, !.autoThrough = Birth - 1]
    BY <2>2, <2>3
  <2> QED
    BY <2>1, <2>4 DEF Fields
<1> QED
  BY <1>5, <1>7 DEF l

LEMMA InitScan == Init => ScanInv
<1> SUFFICES ASSUME Init PROVE ScanInv
  OBVIOUS
<1> USE DEF Init
<1> DEFINE none == {}
           l == cf.ledger
<1>1. /\ MaxHeight \in Nat /\ Birth \in Heights /\ Birth \in Nat /\ 1 <= Birth /\ Birth <= MaxHeight
      /\ Birth \in 1..Birth
  BY LedgerConstants, ScanConstants DEF Heights
<1>2. IsChain(NoChain)
  BY <1>1 DEF IsChain, NoChain, Chain
<1>3. ClampedStart(Birth, Birth) = Birth
  BY <1>1 DEF ClampedStart
<1>5. l.start = Birth /\ l.requestedThrough = Birth - 1 /\ HolesOf(l) = {}
  BY InitFields
<1>7. /\ cf.ledger = l /\ cf.autoStart = Birth /\ cf.autoThrough = Birth - 1
      /\ cf.chain = NoChain /\ cf.judged = {} /\ cf.surfacedBelow = 0
  BY InitFields
<1> HIDE DEF l
<1>8. Good = none /\ disk.ledger = {} /\ held = {} /\ \A h \in Wanted : txs[h] = "unknown"
  BY <1>7 DEF Good
<1>9. Holds(cf, none) /\ Tight(cf)
  <2>1. Settles(none, 0, Birth, ClampedStart(Birth, Birth) - 1)
    BY <1>1, <1>3 DEF Settles
  <2>2. 0 \in 0..(MaxHeight + 1) /\ none \subseteq Heights
    BY <1>1
  <2> HIDE DEF none
  <2> DEFINE d == Started(Birth, Birth, {}, NoChain, {}, 0)
  <2>3. Holds(d, none) /\ Tight(d)
    BY <1>1, <1>2, <2>1, <2>2, StartedHolds
  <2>4. cf = d
    OBVIOUS
  <2> HIDE DEF d
  <2> QED
    BY <2>3, <2>4
<1>10. Anchored(cf)
  <2>1. NextForward(cf) = Birth /\ Anchor(cf) = Birth
    BY <1>1, <1>7 DEF NextForward, Larger, Anchor
  <2> QED
    BY <1>1, <1>5, <1>7, <2>1 DEF Anchored, Larger
<1>11. Told
  <2>1. \A r \in Reveals : txs[r] = "unknown"
    BY <1>8, ScanConstants DEF Wanted
  <2> QED
    BY <1>7, <1>8, <1>9, <2>1 DEF Told
<1> HIDE DEF none
<1> QED
  BY <1>8, <1>9, <1>10, <1>11 DEF ScanInv, Durable

-----------------------------------------------------------------------------
(* The invariant holds, and what it gives.                                 *)

LEMMA TypeInvHolds == Spec => []TypeInv
<1>1. Init => TypeInv
  BY InitTyped
<1>2. TypeInv /\ [Next]_vars => TypeInv'
  BY NextTyped
<1> QED
  BY <1>1, <1>2, PTL DEF Spec

(* TypeOK: the scan state, what is on disk and what peers sent keep their  *)
(* types in every run: no handler takes a height, a counter or a message   *)
(* out of its range, whatever fails, restarts or reorganises.              *)
THEOREM TypeCorrect == Spec => []TypeOK
<1>1. TypeInv => TypeOK
  BY TypeInvIsTyped
<1> QED
  BY <1>1, TypeInvHolds, PTL

LEMMA NextProceeds ==
  Followed => (TypeInv /\ TypeInv' /\ ScanInv /\ [Next]_vars => ScanInv')
<1> SUFFICES ASSUME Followed, TypeInv, TypeInv', ScanInv, [Next]_vars PROVE ScanInv'
  OBVIOUS
<1>1. CASE UNCHANGED vars
  <2>1. cf' = cf /\ txs' = txs /\ held' = held /\ grown' = grown /\ disk' = disk
    BY <1>1 DEF vars
  <2>2. Good' = Good /\ HeldHeights' = HeldHeights /\ Told'
    BY <2>1 DEF Good, Owed, Paid, HeldHeights, ScanInv, Told
  <2> QED
    BY <2>1, <2>2 DEF ScanInv, Durable
<1>2. CASE Quiet
  BY <1>2, QuietProceeds
<1>3. CASE Deliver
  BY <1>3, CFHeadersProceeds, CFilterProceeds, BlockTransactionsProceeds, BlockTxnsProceeds
  DEF Deliver
<1>4. CASE Tick
  BY <1>4, KeepAliveProceeds DEF Tick
<1>5. ASSUME NEW h \in Heights, CheckpointDisagrees(h) PROVE FALSE
  BY <1>5 DEF CheckpointDisagrees, Fault, Followed
<1>6. ASSUME NEW b \in BOOLEAN, NeverBrickPark(b) PROVE FALSE
  BY <1>6 DEF NeverBrickPark, Fault, Followed
<1>7. CASE Next
  BY <1>2, <1>3, <1>4, <1>5, <1>6, <1>7, RestartProceeds, ReorgProceeds DEF Next, Quiet
<1> QED
  BY <1>1, <1>7

LEMMA ScanInvHolds == Followed => (Spec => []ScanInv)
<1> SUFFICES ASSUME Followed PROVE Spec => []ScanInv
  OBVIOUS
<1>1. Init => ScanInv
  BY InitScan
<1>2. TypeInv /\ TypeInv' /\ ScanInv /\ [Next]_vars => ScanInv'
  BY NextProceeds
<1> QED
  BY <1>1, <1>2, TypeInvHolds, PTL DEF Spec

(* FrontierIsSettled: the scan frontier the wallet is shown never passes a *)
(* height whose filter was not matched on the main chain, or that was not  *)
(* reported as given up - however peers fail, blocks are pruned, branches  *)
(* are replaced or the process restarts.                                   *)
THEOREM FrontierStaysHonest == Followed => (Spec => []FrontierIsSettled)
<1> SUFFICES ASSUME Followed PROVE Spec => []FrontierIsSettled
  OBVIOUS
<1>1. TypeInv /\ ScanInv => FrontierIsSettled
  <2> SUFFICES ASSUME TypeInv, ScanInv PROVE FrontierIsSettled
    OBVIOUS
  <2>1. Settles(Good, cf.surfacedBelow, Birth, Frontier(cf) - 1)
    BY FrontierSettles DEF ScanInv
  <2> QED
    BY <2>1, GoodIsJudged DEF FrontierIsSettled, Settled, Settles
<1> QED
  BY <1>1, TypeInvHolds, ScanInvHolds, PTL

(* CursorLeavesNoGap: the forward fetch leaves nothing behind: a height    *)
(* its cursor has passed is settled, or is a hole that is asked for again. *)
THEOREM CursorNeverSkips == Followed => (Spec => []CursorLeavesNoGap)
<1> SUFFICES ASSUME Followed PROVE Spec => []CursorLeavesNoGap
  OBVIOUS
<1>1. TypeInv /\ ScanInv => CursorLeavesNoGap
  <2> SUFFICES ASSUME TypeInv, ScanInv, NEW h \in Birth..(NextForward(cf) - 1)
               PROVE  Settled(h) \/ h \in HolesOf(cf.ledger)
    BY DEF CursorLeavesNoGap
  <2>1. Holds(cf, Good)
    BY DEF ScanInv
  <2>2. /\ cf.ledger.start \in Nat /\ cf.ledger.requestedThrough \in Nat
        /\ cf.ledger.start <= cf.ledger.requestedThrough + 1
        /\ Birth \in Nat /\ cf.autoStart \in Nat /\ cf.autoThrough \in Nat
    BY <2>1, HoldsNumbers
  <2>3. NextForward(cf) \in Nat
    BY <2>2 DEF NextForward, Larger
  <2>4. \/ h \in Birth..(cf.ledger.start - 1)
        \/ h \in cf.ledger.start..cf.ledger.requestedThrough
        \/ h \in (cf.ledger.requestedThrough + 1)..(NextForward(cf) - 1)
    BY <2>2, <2>3
  <2>5. h \in Good \/ h < cf.surfacedBelow \/ h \in HolesOf(cf.ledger)
    BY <2>1, <2>4 DEF Holds, Safe, Settles
  <2> QED
    BY <2>5, GoodIsJudged DEF Settled
<1> QED
  BY <1>1, TypeInvHolds, ScanInvHolds, PTL

(* NoPaymentMissed: the transactions of every height the scan has passed   *)
(* are confirmed or held until they can be, those of the addresses the     *)
(* wallet only got while it was scanning included.                         *)
THEOREM NothingIsMissed == Followed => (Spec => []NoPaymentMissed)
<1> SUFFICES ASSUME Followed PROVE Spec => []NoPaymentMissed
  OBVIOUS
<1>1. TypeInv /\ ScanInv => NoPaymentMissed
  <2> SUFFICES ASSUME TypeInv, ScanInv, NEW h \in Wanted, h \in Birth..(Frontier(cf) - 1),
                      h >= cf.surfacedBelow, Owed(h)
               PROVE  Paid(h)
    BY DEF NoPaymentMissed, Paid
  <2>1. /\ Frontier(cf) \in Nat /\ cf.surfacedBelow \in Nat /\ h \in Nat /\ h \in Heights
        /\ Settles(Good, cf.surfacedBelow, Birth, Frontier(cf) - 1)
    <3>1. Holds(cf, Good)
      BY DEF ScanInv
    <3>2. Frontier(cf) \in Nat /\ Settles(Good, cf.surfacedBelow, Birth, Frontier(cf) - 1)
      BY <3>1, FrontierSettles
    <3>3. cf.surfacedBelow \in Nat
      BY <3>1, HoldsNumbers
    <3> QED
      BY <3>2, <3>3, ScanConstants, LedgerConstants DEF Wanted, Heights
  <2>2. h \in Good /\ h <= Frontier(cf)
    BY <2>1 DEF Settles
  <2>3. CASE h \in Matches
    BY <2>2, <2>3 DEF ScanInv, Told, Good
  <2>4. CASE h \in Late
    <3>1. grown
      BY <2>1, <2>2, <2>4, NothingOwed
    <3> QED
      BY <2>2, <2>4, <3>1 DEF Good
  <2> QED
    BY <2>3, <2>4 DEF Wanted
<1> QED
  BY <1>1, TypeInvHolds, ScanInvHolds, PTL

(* SavedScanIsDurable: what the app has saved counts no height whose       *)
(* transactions are in memory only, so a crash at any moment loses none.   *)
(* (A saved ledger outlives a reorganisation that a scan without a filter- *)
(* header chain does not save, so this is about runs without one.)         *)
THEOREM SavesNothingUnsafe ==
  Followed /\ "reorg" \notin FaultKinds => (Spec => []SavedScanIsDurable)
<1> SUFFICES ASSUME Followed, "reorg" \notin FaultKinds PROVE Spec => []SavedScanIsDurable
  OBVIOUS
<1>1. TypeInv /\ ScanInv => SavedScanIsDurable
  <2> SUFFICES ASSUME TypeInv, ScanInv, NEW l \in disk.ledger,
                      NEW h \in Birth..(LowestNeededHeight(l) - 1)
               PROVE  h < cf.surfacedBelow \/ h \in cf.judged \ HeldHeights
    BY DEF SavedScanIsDurable, HeldHeights
  <2> DEFINE kept == Good \ HeldHeights
  <2>1. /\ Safe(l, kept, cf.surfacedBelow) /\ l.start >= 1
        /\ Settles(kept, cf.surfacedBelow, Birth, l.start - 1)
    BY DEF ScanInv, Durable
  <2>2. kept \subseteq cf.judged \ HeldHeights
    BY GoodIsJudged
  <2> HIDE DEF kept
  <2>3. /\ l.start \in Nat /\ l.scannedThrough \in Nat /\ l.abandonedBelow \in Nat
        /\ l.abandonedBelow <= cf.surfacedBelow /\ cf.surfacedBelow \in Nat /\ Birth \in Nat
    <3>1. Birth \in Nat /\ cf.surfacedBelow \in Nat
      BY HoldsNumbers DEF TypeInv
    <3> QED
      BY <2>1, <3>1, LedgerConstants DEF Safe, IsLedger
  <2>4. LowestNeededHeight(l) \in Nat
    BY <2>3 DEF LowestNeededHeight, Larger
  <2>5. \/ h \in Birth..(l.start - 1)
        \/ h \in l.start..l.scannedThrough
        \/ h < cf.surfacedBelow
    BY <2>3, <2>4 DEF LowestNeededHeight, Larger
  <2>6. h \in kept \/ h < cf.surfacedBelow
    BY <2>1, <2>5 DEF Safe, Settles
  <2> QED
    BY <2>2, <2>6
<1> QED
  BY <1>1, TypeInvHolds, ScanInvHolds, PTL
-----------------------------------------------------------------------------
(* As long as the process runs, the scan is the one GaplessScan describes. *)

(* A step leaves what the ledger has scanned judged or reported.           *)
LEMMA ScansWithoutGap == ScanInv' => Scan!Gapless'
<1> SUFFICES ASSUME ScanInv', NEW h \in (cf'.ledger.start)..(cf'.ledger.scannedThrough)
             PROVE  h \in cf'.judged \/ h < cf'.surfacedBelow
  BY DEF Scan!Gapless, Scan!Done
<1>1. h \in Good' \/ h < cf'.surfacedBelow
  BY DEF ScanInv, Holds, Safe
<1> QED
  BY <1>1 DEF Good

(* A handler that voids no verdict goes on with the scan or starts it over. *)
LEMMA MovesImplement ==
  /\ TypeInv /\ TypeInv' /\ ScanInv' /\ Moves(cf, cf')
  /\ cf.judged \subseteq cf'.judged /\ cf.surfacedBelow <= cf'.surfacedBelow
  => Scan!Proceed \/ Scan!StartAnew
<1> SUFFICES ASSUME TypeInv, TypeInv', ScanInv', Moves(cf, cf'), cf.judged \subseteq cf'.judged,
                    cf.surfacedBelow <= cf'.surfacedBelow
             PROVE  Scan!Proceed \/ Scan!StartAnew
  OBVIOUS
<1>1. Scan!Gapless'
  BY ScansWithoutGap
<1>2. cf.surfacedBelow \in Nat /\ cf'.surfacedBelow \in Nat
  BY HoldsNumbers DEF TypeInv
<1>3. CASE Onwards(cf.ledger, cf'.ledger)
  BY <1>1, <1>2, <1>3 DEF Onwards, Scan!Proceed
<1>4. CASE Fresh(cf')
  <2>1. \A h \in Heights : Scan!Done(h) => Scan!Done(h)'
    BY <1>2, LedgerConstants DEF Scan!Done, Heights
  <2> QED
    BY <1>2, <1>4, <2>1 DEF Fresh, Scan!StartAnew
<1> QED
  BY <1>3, <1>4 DEF Moves

(* A reorganisation scans again from the fork on, or starts over below it. *)
LEMMA RewindsImplement ==
  \A f \in Heights :
  /\ TypeInv /\ TypeInv' /\ ScanInv' /\ Rewinds(cf, cf', f)
  /\ cf'.judged = {h \in cf.judged : h < f} /\ cf.surfacedBelow <= cf'.surfacedBelow
  => Scan!ScanAgain(f) \/ Scan!StartAnew
<1> SUFFICES ASSUME NEW f \in Heights, TypeInv, TypeInv', ScanInv', Rewinds(cf, cf', f),
                    cf'.judged = {h \in cf.judged : h < f}, cf.surfacedBelow <= cf'.surfacedBelow
             PROVE  Scan!ScanAgain(f) \/ Scan!StartAnew
  OBVIOUS
<1>1. Scan!Gapless'
  BY ScansWithoutGap
<1>2. /\ cf.surfacedBelow \in Nat /\ cf'.surfacedBelow \in Nat /\ cf'.ledger.start \in Nat
      /\ f \in Nat /\ Heights \subseteq Nat
  <2>1. f \in Nat /\ Heights \subseteq Nat
    BY LedgerConstants DEF Heights
  <2> QED
    BY <2>1, HoldsNumbers DEF TypeInv
<1>3. \A a, b : Scan!Lower(a, b) = Smaller(a, b)
  BY DEF Scan!Lower, Smaller
<1>4. CASE /\ cf'.ledger.start \in {cf.ledger.start, Smaller(cf.ledger.start, f)}
           /\ cf'.ledger.scannedThrough >= Smaller(cf.ledger.scannedThrough, f - 1)
  BY <1>1, <1>2, <1>3, <1>4 DEF Scan!ScanAgain
<1>5. CASE Fresh(cf') /\ cf'.ledger.start <= Larger(f, cf'.surfacedBelow)
  <2>1. ASSUME NEW h \in Heights, h < cf'.ledger.start, h \in cf.judged \/ h < cf.surfacedBelow
        PROVE  h \in cf'.judged \/ h < cf'.surfacedBelow
    <3>1. h \in Nat /\ (h < f \/ h < cf'.surfacedBelow)
      BY <1>2, <1>5, <2>1 DEF Larger
    <3> QED
      BY <1>2, <2>1, <3>1
  <2> QED
    BY <1>2, <1>5, <2>1 DEF Fresh, Scan!StartAnew, Scan!Done
<1> QED
  BY <1>4, <1>5 DEF Rewinds

LEMMA InitImplements == Init => Scan!Init
<1> SUFFICES ASSUME Init PROVE Scan!Init
  OBVIOUS
<1> QED
  BY InitFields, ScanConstants DEF Scan!Init

(* A grown address set scans again from where RescanFrom says.             *)
LEMMA BlockTransactionsImplements ==
  \A h \in Heights :
    TypeInv /\ TypeInv' /\ ScanInv /\ ScanInv' /\ BlockTransactions(h)
      => [Scan!Next]_(Scan!vars)
<1> SUFFICES ASSUME NEW h \in Heights, TypeInv, TypeInv', ScanInv, ScanInv', BlockTransactions(h)
             PROVE  [Scan!Next]_(Scan!vars)
  OBVIOUS
<1> DEFINE from == RescanFrom(cf, h)
           d == [cf EXCEPT !.ledger = RewindTo(@, from), !.autoThrough = Smaller(@, from - 1)]
<1>1. cf' = cf \/ (from <= cf.ledger.requestedThrough /\ cf' = d)
  BY DEF BlockTransactions
<1>2. CASE cf' = cf
  BY <1>2 DEF Scan!vars
<1>3. CASE from <= cf.ledger.requestedThrough /\ cf' = d
  <2>1. Holds(cf, Heights)
    BY DEF TypeInv
  <2>2. from \in Heights
    BY <1>3, <2>1, RescanFromIsHeight
  <2> HIDE DEF from
  <2>3. /\ d.ledger.start = Smaller(cf.ledger.start, from)
        /\ d.ledger.scannedThrough >= Smaller(cf.ledger.scannedThrough, from - 1)
        /\ d.judged = cf.judged /\ d.surfacedBelow = cf.surfacedBelow
    <3>1. Settles(Heights, cf.surfacedBelow, from, cf.autoStart - 1)
      <4>1. from \in Nat /\ 1 <= from /\ cf.autoStart \in Nat /\ cf.autoStart - 1 <= MaxHeight
            /\ MaxHeight \in Nat
        BY <2>1, <2>2, HoldsNumbers, LedgerConstants DEF Heights
      <4> QED
        BY <4>1, HeightsSettle
    <3>2. \A k \in Heights : k < from => k \in Heights \/ k < cf.surfacedBelow
      OBVIOUS
    <3> QED
      BY <1>3, <2>1, <2>2, <3>1, <3>2, RescanHolds, ZenonT(60)
  <2> HIDE DEF d
  <2>4. Scan!Gapless' /\ cf'.surfacedBelow >= cf.surfacedBelow
    <3>1. cf.surfacedBelow \in Nat
      BY <2>1, HoldsNumbers
    <3> QED
      BY <1>3, <2>3, <3>1, ScansWithoutGap
  <2>5. \A a, b : Scan!Lower(a, b) = Smaller(a, b)
    BY DEF Scan!Lower, Smaller
  <2>6. Scan!ScanAgain(from)
    BY <1>3, <2>3, <2>4, <2>5 DEF Scan!ScanAgain
  <2> QED
    BY <2>2, <2>6 DEF Scan!Next
<1> QED
  BY <1>1, <1>2, <1>3

(* Every step but a restart is one of the abstract scan.                   *)
LEMMA NextImplements ==
  Followed /\ "restart" \notin FaultKinds
    => (TypeInv /\ TypeInv' /\ ScanInv /\ ScanInv' /\ [Next]_vars => [Scan!Next]_(Scan!vars))
<1> SUFFICES ASSUME Followed, "restart" \notin FaultKinds, TypeInv, TypeInv', ScanInv, ScanInv',
                    [Next]_vars
             PROVE  [Scan!Next]_(Scan!vars)
  OBVIOUS
<1> DEFINE Moved == Moves(cf, cf') /\ cf.judged \subseteq cf'.judged
                      /\ cf.surfacedBelow <= cf'.surfacedBelow
<1>1. ASSUME Moved PROVE [Scan!Next]_(Scan!vars)
  BY <1>1, MovesImplement DEF Scan!Next
<1>2. Holds(cf, Heights) /\ Surroundings /\ WalletTyped
  BY DEF TypeInv
<1>3. CASE UNCHANGED vars
  BY <1>3 DEF vars, Scan!vars
<1>4. CASE Quiet
  <2>1. Moved
    BY <1>2, <1>4, QuietScan DEF Later
  <2> QED
    BY <1>1, <2>1
<1>5. ASSUME NEW n \in 1..HdrBatch, NEW p \in Peers, NEW refund \in BOOLEAN, CFHeaders(n, p, refund)
      PROVE  [Scan!Next]_(Scan!vars)
  <2>1. Moved
    BY <1>2, <1>5, CFHeadersScan DEF Later
  <2> QED
    BY <1>1, <2>1
<1>6. ASSUME NEW h \in Heights, CFilter(h) PROVE [Scan!Next]_(Scan!vars)
  <2>1. Moved
    BY <1>2, <1>6, CFilterScan DEF Later
  <2> QED
    BY <1>1, <2>1
<1>7. ASSUME NEW h \in Heights, BlockTxns(h) PROVE [Scan!Next]_(Scan!vars)
  <2>1. Moved
    BY <1>2, <1>7, BlockTxnsScan DEF Later
  <2> QED
    BY <1>1, <2>1
<1>8. ASSUME NEW due, NEW pick, NEW aged, NEW busy, KeepAlive(due, pick, aged, busy)
      PROVE  [Scan!Next]_(Scan!vars)
  <2>1. Moved
    BY <1>2, <1>8, KeepAliveScan DEF Later
  <2> QED
    BY <1>1, <2>1
<1>9. ASSUME NEW f \in Heights, Reorg(f) PROVE [Scan!Next]_(Scan!vars)
  <2>1. /\ Rewinds(cf, cf', f) /\ cf'.judged = {h \in cf.judged : h < f}
        /\ cf.surfacedBelow <= cf'.surfacedBelow
    BY <1>2, <1>9, ReorgScan
  <2> QED
    BY <2>1, RewindsImplement DEF Scan!Next
<1>10. CASE Deliver
  BY <1>5, <1>6, <1>7, <1>10, BlockTransactionsImplements DEF Deliver
<1>11. CASE Tick
  BY <1>8, <1>11 DEF Tick
<1>12. ASSUME NEW h \in Heights, CheckpointDisagrees(h) PROVE FALSE
  BY <1>12 DEF CheckpointDisagrees, Fault, Followed
<1>13. ASSUME NEW b \in BOOLEAN, NeverBrickPark(b) PROVE FALSE
  BY <1>13 DEF NeverBrickPark, Fault, Followed
<1>14. CASE Restart
  BY <1>14 DEF Restart, Fault
<1> QED
  BY <1>3, <1>4, <1>9, <1>10, <1>11, <1>12, <1>13, <1>14 DEF Next, Quiet

(* ImplementsScan: with every handler that touches it, the scan is a       *)
(* gapless one as long as the process runs: the frontier passes only what  *)
(* was judged or reported, and goes back only as far as a reorganisation,  *)
(* a grown address set or a re-anchored scan makes it.  (A restart forgets *)
(* the verdicts it did not save.)                                          *)
THEOREM ScanImplementsGapless ==
  Followed /\ "restart" \notin FaultKinds => (Spec => ImplementsScan)
<1> SUFFICES ASSUME Followed, "restart" \notin FaultKinds PROVE Spec => ImplementsScan
  OBVIOUS
<1>1. Init => Scan!Init
  BY InitImplements
<1>2. TypeInv /\ TypeInv' /\ ScanInv /\ ScanInv' /\ [Next]_vars => [Scan!Next]_(Scan!vars)
  BY NextImplements
<1>3. Spec => []ScanInv
  BY ScanInvHolds
<1> QED
  BY <1>1, <1>2, <1>3, TypeInvHolds, PTL DEF Spec, ImplementsScan, Scan!Spec
=============================================================================
