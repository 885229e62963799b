------------------------------- MODULE CFScan -------------------------------
(***************************************************************************)
(* The compact-filter scan of BRPeerManager.c: how the peer manager drives *)
(* the scan ledger while blocks arrive, reorganise and are pruned, peers   *)
(* come and go, filters and blocks are delivered in any order, the wallet's *)
(* address set grows, and the process restarts.                            *)
(*                                                                         *)
(* Every handler runs under manager->lock, so each is one action.  The     *)
(* manager's scan state is the record cf; a handler that makes several     *)
(* calls is the composition of operators from cf to cf.                    *)
(*                                                                         *)
(* Nothing in the code matches a cfilter, a cfheaders batch or a block to  *)
(* a request except where a guard below says so, so messages in flight are *)
(* not state: a connected peer may deliver any of them at any time, late,  *)
(* twice or never.                                                         *)
(***************************************************************************)
EXTENDS CFScanLedger

CONSTANTS
    LowWater,       \* CF_OUTSTANDING_LOWWATER
    RearmMax,       \* CF_CONVOY_REARM_MAX
    HdrBatch,       \* MAX_CFHEADERS_RESULTS
    Margin,         \* CLEAR_MEM_CF_RETENTION_MARGIN
    SpanMax,        \* CF_RETENTION_SPAN_MAX
    KeepNewest,     \* the newest blocks a prune never looks at
    SaveCount,      \* SAVE_BLOCK_COUNT
    HeldMax,        \* CONFIRM_HELD_MAX
    Birth,          \* the height the wallet asks to be scanned from
    Matches,        \* heights whose block pays the wallet as it is at first
    Late,           \* heights that pay addresses the wallet has only once grown
    Reveals,        \* heights whose transactions make the address set grow
    FalseMatches,   \* heights whose filter matches though the block pays nobody
    Unjudged,       \* heights whose header proof of work could not be judged
    Checkpoints,    \* heights of the block checkpoints
    FilterCheckpoints, \* heights of the compiled filter-header checkpoints
    CheckptEvery,   \* peers report filter headers at its multiples (1000)
    ReanchorMax,    \* CF_CONTINUITY_REANCHOR_MAX
    FaultKinds,     \* which faults may happen
    MaxFaults       \* and how many of them in all

ASSUME ScanConstants ==
    /\ {LowWater, RearmMax, Margin, HeldMax, KeepNewest, ReanchorMax, MaxFaults} \subseteq Nat
    /\ {HdrBatch, SpanMax, SaveCount, CheckptEvery} \subseteq Nat \ {0}
    /\ LowWater + MaxRange <= OutstandingMax + 1
    /\ RearmMax <= CyclesMax
    /\ Birth \in Heights
    /\ Reveals \subseteq Matches /\ Matches \cap Late = {}
    /\ Matches \cup Late \cup FalseMatches \cup Unjudged \cup Checkpoints
         \cup FilterCheckpoints \subseteq Heights
    /\ FaultKinds \subseteq {"disconnect", "reorg", "restart", "chainloss",
                       "ledgerloss", "prune", "checkpoint", "park"}

VARIABLES
    cf,          \* the manager's scan state, see ScanState
    tip,         \* lastBlock->height
    blockFloor,  \* the lowest block still in memory on the main chain
    connected,   \* connected peers that serve compact filters
    txs,         \* the wallet's transactions: unknown, known, confirmed
    held,        \* confirmations held back until a checkpoint, with their branch
    grown,       \* has the address set grown
    disk,        \* what the app saved last: ledger (if any) and filter-header chain
    reanchors,   \* cfReanchorCount: the budget a filter-header dispute has spent
    faults       \* faults so far

vars == <<cf, tip, blockFloor, connected, txs, held, grown, disk, reanchors, faults>>

NoChain == [start |-> 0, next |-> 0]
Chain == [start : 0..(MaxHeight + 1), next : 0..(MaxHeight + 1)]
Wanted == Matches \cup Late

ScanState(c) ==
    /\ c = [ledger |-> c.ledger, autoStart |-> c.autoStart, autoThrough |-> c.autoThrough,
            chain |-> c.chain, solicited |-> c.solicited, buffered |-> c.buffered,
            judged |-> c.judged, surfacedBelow |-> c.surfacedBelow]
    /\ IsLedger(c.ledger)
    /\ c.autoStart \in Heights \cup {MaxHeight + 1}
    /\ c.autoThrough \in 0..MaxHeight
    /\ c.chain \in Chain
    /\ {c.solicited, c.buffered, c.judged} \subseteq SUBSET Heights
    /\ c.surfacedBelow \in 0..(MaxHeight + 1)

\* The scan state of the manager, what is on disk and what peers sent have their types.
TypeOK ==
    /\ ScanState(cf)
    /\ tip \in Heights /\ blockFloor \in 1..tip
    /\ connected \subseteq Peers
    /\ txs \in [Wanted -> {"unknown", "known", "confirmed"}]
    /\ held \subseteq [height : Wanted, main : BOOLEAN]
    /\ grown \in BOOLEAN
    /\ disk.chain \in Chain /\ \A l \in disk.ledger : IsLedger(l)
    /\ reanchors \in 0..ReanchorMax /\ faults \in 0..MaxFaults

-----------------------------------------------------------------------------
(* Steps on the scan state.  judged and surfacedBelow are history: they    *)
(* record verdicts and write-offs for the properties and are never read.   *)

Frontier(c) == LowestNeededHeight(c.ledger)

(* The first height the forward fetch would ask for next. *)
NextForward(c) == Larger(c.autoThrough + 1, c.autoStart)

Hits == Matches \cup FalseMatches \cup (IF grown THEN Late ELSE {})
Resident(h) == h \in blockFloor..tip

(* The time of a hole's last request is never compared outside KeepAlive,  *)
(* which chooses who is due: between ticks nobody is.                      *)
Undue(l) == [l EXCEPT !.outstanding = [h \in DOMAIN @ |-> [@[h] EXCEPT !.due = FALSE]]]
WithDue(l, due) == [l EXCEPT !.outstanding = [h \in DOMAIN @ |-> [@[h] EXCEPT !.due = h \in due]]]

Noted(c) == [c EXCEPT !.surfacedBelow = Larger(@, c.ledger.abandonedBelow)]

Judge(c, S) == [c EXCEPT !.ledger = MarkAllEvaluated(@, S), !.judged = @ \cup S]

Surface(c, lo, floor) == Noted([c EXCEPT !.ledger = AbandonUnscannableBelow(@, lo, floor)])

(* The filter-header chain is dropped; the scan starts over at `restart`.  *)
StartOver(c, restart) ==
    [c EXCEPT !.chain = NoChain, !.autoStart = restart, !.autoThrough = restart - 1,
              !.ledger = NewLedger(restart), !.solicited = {}, !.buffered = {}]

(* Mutant of RestartAtFloor: what is below the floor goes unreported. *)
RestartAtFloorSilently(c, floor) == StartOver(c, Larger(Frontier(c), floor))

(* Whoever restarts at the block floor first reports what is still needed  *)
(* below it, and then leaves the restart to the next attempt.              *)
RestartAtFloor(c, floor) ==
    IF Frontier(c) < floor THEN Surface(c, Frontier(c), floor)
    ELSE StartOver(c, Larger(Frontier(c), floor))

(* _BRPeerManagerRequestNextCFHeaders: the request itself changes nothing  *)
(* modelled, but when the hash its batch ends at has left the memory the   *)
(* scan is re-anchored.  busy: a request is in flight, or is gated.        *)
RequestNextCFHeaders(c, t, floor, busy) ==
    LET next == IF c.chain = NoChain THEN c.autoStart ELSE c.chain.next
    IN IF busy \/ next > t \/ next + HdrBatch - 1 >= floor THEN c ELSE RestartAtFloor(c, floor)

(* Mutant of ForwardFetch: the cursor goes one past the last height asked for. *)
ForwardFetchOverruns(c, p) ==
    LET start == NextForward(c)
        stop == Smaller(c.chain.next - 1, start + MaxRange - 1)
        allowed == Cardinality(DOMAIN c.ledger.outstanding) < LowWater
    IN IF c.chain.next > 0 /\ allowed /\ start <= stop /\ Resident(stop)
       THEN [c EXCEPT !.autoThrough = Smaller(stop + 1, MaxHeight),
                      !.ledger = RecordRequested(@, start, stop, p)]
       ELSE c

(* One forward fetch, as KeepAlive and the cfheaders handler make it. *)
ForwardFetch(c, p) ==
    LET start == NextForward(c)
        frontier == c.chain.next - 1
        stop == Smaller(frontier, start + MaxRange - 1)
        allowed == Cardinality(DOMAIN c.ledger.outstanding) < LowWater
    IN IF c.chain.next > 0 /\ allowed /\ start <= frontier /\ Resident(stop)
       THEN [c EXCEPT !.autoThrough = stop, !.ledger = RecordRequested(@, start, stop, p)]
       ELSE c

(* Mutant of SavedLedger: the confirmations held in memory are not minded. *)
SavedLedgerUnclamped(c, hs) == Undue(Serialized(c.ledger))

(* What is written to disk: with confirmations held in memory only, the    *)
(* ledger is saved as if the scan had not reached the lowest of them.      *)
SavedLedger(c, hs) ==
    Undue(Serialized(IF hs = {} THEN c.ledger
                     ELSE RewindTo(c.ledger, Min({e.height : e \in hs}))))

Persist(c, hs) == disk' = [disk EXCEPT !.ledger = {SavedLedger(c, hs)}]

Fault(kind) ==
    /\ kind \in FaultKinds /\ faults < MaxFaults
    /\ faults' = faults + 1
-----------------------------------------------------------------------------
(* Starting up: BRPeerManagerNewEx, SetCompactFilterChain, EnableAuto-     *)
(* CompactFilterFetch(Birth), CFLedgerRestore and SnapAutoFetchThrough-    *)
(* ToScanFrontier, in the order the header prescribes, before any peer.    *)

(* A start below the blocks in memory is moved up to a height that is.     *)
ClampedStart(t, floor) ==
    IF Birth >= t \/ Birth >= floor THEN Birth
    ELSE IF t - (HdrBatch - 1) >= floor THEN t - (HdrBatch - 1) ELSE t

(* Mutant of Snap: the cursor is not brought back to what was requested. *)
SnapKeepsCursor(c, floor) ==
    LET lo == IF c.ledger.start > Birth THEN Birth ELSE Frontier(c)
    IN IF lo < floor
       THEN [Surface(c, lo, floor) EXCEPT !.autoStart = lo, !.autoThrough = lo - 1]
       ELSE [c EXCEPT !.autoStart = Smaller(@, Frontier(c)),
                      !.autoThrough = Larger(@, Frontier(c) - 1)]

(* _BRPeerManagerSnapAutoFetchThroughToScanFrontier. *)
Snap(c, floor) ==
    LET lo == IF c.ledger.start > Birth THEN Birth ELSE Frontier(c)
        lowered == Smaller(c.autoThrough, c.ledger.requestedThrough)
    IN IF lo < floor
       THEN [Surface(c, lo, floor) EXCEPT !.autoStart = lo, !.autoThrough = lo - 1]
       ELSE [c EXCEPT !.autoStart = Smaller(@, Frontier(c)),
                      !.autoThrough = Larger(lowered, Frontier(c) - 1)]

Started(t, floor, ledgers, chain, judged, surfacedBelow) ==
    LET start == ClampedStart(t, floor)
        enabled == [ledger |-> NewLedger(start), autoStart |-> start, autoThrough |-> start - 1,
                    chain |-> chain, solicited |-> {}, buffered |-> {},
                    judged |-> judged, surfacedBelow |-> surfacedBelow]
        restored == IF ledgers = {} THEN enabled
                    ELSE [enabled EXCEPT !.ledger = CHOOSE l \in ledgers : TRUE]
    IN Snap(restored, floor)

Init ==
    /\ tip = Birth /\ blockFloor = Birth
    /\ cf = Started(Birth, Birth, {}, NoChain, {}, 0)
    /\ connected = {}
    /\ txs = [h \in Wanted |-> "unknown"]
    /\ held = {} /\ grown = FALSE
    /\ disk = [ledger |-> {}, chain |-> NoChain]
    /\ reanchors = 0 /\ faults = 0

(* A crash, and the start that follows: the newest blocks saved, what disk *)
(* holds, no peers, no solicitation, and the confirmations held in memory  *)
(* gone.  The recovery policy may have dropped the filter-header chain     *)
(* (chainloss); the app may have no ledger to restore (ledgerloss).        *)
Restart ==
    /\ Fault("restart")
    /\ disk.ledger = {} => "ledgerloss" \in FaultKinds
    /\ tip' \in Larger(tip - 1, 1)..tip
    /\ blockFloor' \in Larger(tip' - SaveCount + 1, 1)..tip'
    /\ LET forgotten == {e.height : e \in held}
           MayLose(kind, what, none) == {what} \cup (IF kind \in FaultKinds THEN {none} ELSE {})
       IN \E chain \in MayLose("chainloss", disk.chain, NoChain),
             ledgers \in MayLose("ledgerloss", disk.ledger, {}) :
            cf' = Started(tip', blockFloor', ledgers, chain,
                          cf.judged \ forgotten, cf.surfacedBelow)
    /\ connected' = {} /\ held' = {} /\ reanchors' = 0
    /\ UNCHANGED <<txs, grown, disk>>

-----------------------------------------------------------------------------
(* Peers. *)

Connect(p, busy) ==
    /\ p \notin connected
    /\ connected' = connected \cup {p}
    /\ cf' = RequestNextCFHeaders(cf, tip, blockFloor, busy)
    /\ UNCHANGED <<tip, blockFloor, txs, held, grown, disk, reanchors, faults>>

Disconnect(p) ==
    /\ p \in connected
    /\ Fault("disconnect")
    /\ connected' = connected \ {p}
    /\ cf' = [cf EXCEPT !.ledger = ReArmPeer(@, p)]
    /\ UNCHANGED <<tip, blockFloor, txs, held, grown, disk, reanchors>>

-----------------------------------------------------------------------------
(* Blocks. *)

Pinned(h, t) == \E c \in Checkpoints : h <= c /\ c <= t
Confirmable(h, t) == h \notin Unjudged \/ Pinned(h, t)

(* Held confirmations leave when their block can be confirmed, or when a   *)
(* checkpoint says their block is not on the chain.                        *)
Released(hs, t) == {e \in hs : IF e.main THEN Confirmable(e.height, t) ELSE Pinned(e.height, t)}

ConfirmedBy(released) ==
    [h \in Wanted |-> IF [height |-> h, main |-> TRUE] \in released THEN "confirmed" ELSE txs[h]]

(* _BRPeerManagerClearMemory: how far a prune may remove blocks.           *)
PruneFloor(c, t, hs) ==
    LET Below(h) == IF h > Margin THEN h - Margin ELSE 1
        anchor == IF c.chain = NoChain THEN c.autoStart ELSE c.chain.next
        needed == Min({Below(Smaller(Frontier(c), anchor))} \cup {Below(e.height) : e \in hs})
        spanned == IF t > SpanMax THEN Larger(needed, t - SpanMax) ELSE needed
    IN Smaller(spanned, t - KeepNewest)

(* The next block of the main chain.  Whether a prune runs now depends on  *)
(* how many blocks are resident and on memos of the last one.              *)
BlockConnects(busy) ==
    LET t == tip + 1
        released == IF t \in Checkpoints THEN Released(held, t) ELSE {}
        c == IF connected = {} THEN cf ELSE RequestNextCFHeaders(cf, t, blockFloor, busy)
    IN /\ tip < MaxHeight
       /\ tip' = t
       /\ held' = held \ released
       /\ txs' = ConfirmedBy(released)
       /\ cf' = c
       /\ blockFloor' \in {blockFloor}
              \cup (IF "prune" \in FaultKinds
                    THEN {Larger(blockFloor, PruneFloor(c, t, held'))} ELSE {})
       /\ IF released = {} THEN UNCHANGED disk ELSE Persist(cf, held')
       /\ UNCHANGED <<connected, grown, reanchors, faults>>

(* _BRPeerManagerReanchorAtFloorLocked, forced: when the filter-header     *)
(* chain disagrees with the peers.                                         *)
ReanchorAtFloor(c, t, floor, busy) ==
    IF c.chain = NoChain THEN c
    ELSE IF Frontier(c) < floor THEN Surface(c, Frontier(c), floor)
    ELSE LET over == StartOver(c, Larger(Frontier(c), floor))
         IN IF connected = {} THEN over ELSE RequestNextCFHeaders(over, t, floor, busy)

Reanchor ==
    /\ cf.chain # NoChain /\ connected # {}
    /\ reanchors < ReanchorMax /\ reanchors' = reanchors + 1
    /\ cf' = ReanchorAtFloor(cf, tip, blockFloor, FALSE)
    /\ UNCHANGED <<tip, blockFloor, connected, txs, held, grown, disk, faults>>

(* _BRPeerManagerCFCheckptDisagreedLocked: most peers report another filter *)
(* header at h; the filters since the multiple before h may be false.      *)
CheckpointDisagrees(h) ==
    LET from == Larger(h - (CheckptEvery - 1), cf.chain.start)
        surfaced == IF from < blockFloor THEN Surface(cf, from, blockFloor) ELSE cf
    IN /\ cf.chain # NoChain
       /\ h % CheckptEvery = 0 /\ h \in cf.chain.start..(cf.chain.next - 1)
       /\ connected # {}
       /\ reanchors < ReanchorMax /\ reanchors' = reanchors + 1
       /\ Fault("checkpoint")
       /\ cf' = RequestNextCFHeaders(StartOver(surfaced, Larger(from, blockFloor)),
                                     tip, blockFloor, FALSE)
       /\ UNCHANGED <<tip, blockFloor, connected, txs, held, grown, disk>>

(* A filter-header mismatch with the re-anchor budget spent: the forward   *)
(* fetch is parked at the highest compiled checkpoint the chain reaches.   *)
NeverBrickPark(corroborated) ==
    LET trusted == {h \in FilterCheckpoints : h < cf.chain.next}
        parkAt == Larger(Max(trusted), cf.chain.start)
        parked == [cf EXCEPT !.autoStart = parkAt, !.autoThrough = parkAt - 1]
    IN /\ cf.chain # NoChain /\ connected # {}
       /\ reanchors >= ReanchorMax /\ trusted # {}
       /\ Fault("park")
       /\ cf' = IF corroborated THEN Surface(parked, parkAt, cf.chain.next) ELSE parked
       /\ UNCHANGED <<tip, blockFloor, connected, txs, held, grown, disk, reanchors>>

(* Mutants of Forget: the ledger is kept; or kept up to the fork. *)
ForgetNothingScanned(c, f) == [c EXCEPT !.solicited = {h \in @ : h < f}]
ForgetAboveFork(c, f) ==
    [c EXCEPT !.ledger = RewindTo(@, f + 1), !.solicited = {h \in @ : h < f}]

(* Nothing asked for or scanned from f on counts. *)
Forget(c, f) == [c EXCEPT !.ledger = RewindTo(@, f), !.solicited = {h \in @ : h < f}]

(* _BRPeerManagerCFFollowReorgLocked: blocks from f on were replaced, t is *)
(* the new tip.  `saved` holds the scan state that was written, if any.    *)
FollowReorg(c, f, t, floor) ==
    LET g == Larger(f, floor)
        Kicked(d) == IF connected = {} THEN d ELSE RequestNextCFHeaders(d, t, floor, FALSE)
        chainless == [Forget(c, g) EXCEPT !.autoStart = g, !.autoThrough = g - 1]
        rewound == [Forget(c, f) EXCEPT !.autoThrough = Smaller(@, f - 1),
                                        !.autoStart = Smaller(@, f)]
        truncated == [rewound EXCEPT !.chain.next = f]
        first == ReanchorAtFloor(rewound, t, floor, FALSE)
        second == ReanchorAtFloor(first, t, floor, FALSE)
        surfaced == first.ledger.abandonedBelow
        rebuilt == IF first.chain # NoChain /\ second.chain = NoChain
                      /\ surfaced > second.ledger.abandonedBelow
                      /\ surfaced <= second.ledger.start
                   THEN [second EXCEPT !.ledger.abandonedBelow = surfaced] ELSE second
    IN IF c.chain = NoChain
       THEN IF g >= c.autoStart THEN [cf |-> c, saved |-> {}]
            ELSE [cf |-> Kicked(chainless), saved |-> {chainless}]
       ELSE IF c.chain.next <= f THEN [cf |-> c, saved |-> {}]
       ELSE IF f >= c.chain.start THEN [cf |-> Kicked(truncated), saved |-> {truncated}]
       ELSE [cf |-> rebuilt, saved |-> {rebuilt}]

(* A longer branch that leaves the main chain below f, still in memory.    *)
(* What was asked for or buffered by hash on the old branch is void.       *)
Reorg(f) ==
    LET t == tip + 1
        unconfirmed == [h \in Wanted |-> IF h >= f /\ txs[h] = "confirmed" THEN "known" ELSE txs[h]]
        stale == {[e EXCEPT !.main = @ /\ e.height < f] : e \in held}
        released == Released(stale, t)
        void == [cf EXCEPT !.solicited = {h \in @ : h < f}, !.buffered = {h \in @ : h < f},
                           !.judged = {h \in @ : h < f}]
        follow == FollowReorg(void, f, t, blockFloor)
    IN /\ Fault("reorg")
       /\ tip < MaxHeight /\ f \in (blockFloor + 1)..tip
       /\ tip' = t
       /\ held' = stale \ released
       /\ txs' = [h \in Wanted |-> IF [height |-> h, main |-> TRUE] \in released
                                   THEN "confirmed" ELSE unconfirmed[h]]
       /\ cf' = follow.cf
       /\ IF follow.saved # {}
          THEN \E c \in follow.saved :
                 disk' = [ledger |-> {SavedLedger(c, held')},
                          chain |-> IF c.chain = NoChain THEN disk.chain ELSE c.chain]
          ELSE IF released = {} THEN UNCHANGED disk ELSE Persist(void, held')
       /\ UNCHANGED <<blockFloor, connected, grown, reanchors>>
-----------------------------------------------------------------------------
(* Filter headers, filters, and the blocks whose filter matched.           *)

(* A batch of n filter headers that continues the chain, or starts one.    *)
(* Enough clean ones in a row refund the re-anchor budget.                 *)
CFHeaders(n, p, refund) ==
    LET start == IF cf.chain = NoChain THEN cf.autoStart ELSE cf.chain.next
        stop == start + n - 1
        extended == [cf EXCEPT !.chain = [start |-> IF cf.chain = NoChain THEN start ELSE @.start,
                                          next |-> stop + 1]]
    IN /\ p \in connected
       /\ Resident(stop)
       /\ refund => cf.chain # NoChain /\ reanchors > 0
       /\ cf' = RequestNextCFHeaders(ForwardFetch(extended, p), tip, blockFloor, FALSE)
       /\ disk' = [ledger |-> {SavedLedger(extended, held)}, chain |-> extended.chain]
       /\ reanchors' = IF refund THEN 0 ELSE reanchors
       /\ UNCHANGED <<tip, blockFloor, connected, txs, held, grown, faults>>

(* A filter of a main-chain block in memory, or of the block that will     *)
(* come next.  One that is ahead of the filter headers is kept for later.  *)
CFilter(h) ==
    /\ connected # {}
    /\ cf.chain # NoChain
    /\ h >= cf.chain.start /\ h \in blockFloor..(tip + 1)
    /\ cf' = IF h > tip \/ h >= cf.chain.next THEN [cf EXCEPT !.buffered = @ \cup {h}]
             ELSE IF h \in Hits THEN [cf EXCEPT !.solicited = @ \cup {h}]
             ELSE Judge(cf, {h})
    /\ UNCHANGED <<tip, blockFloor, connected, txs, held, grown, disk, reanchors, faults>>

(* Mutant of RescanFrom: only the block that grew the set is rescanned. *)
RescanFromHere(c, h) == h

(* _BRPeerManagerCFRescanAfterGrowthLocked: the scan goes back to where    *)
(* every verdict was reached with no block below it still missing.         *)
RescanFrom(c, h) ==
    Larger(Larger(Smaller(h, c.ledger.scannedThrough + 1), c.ledger.start), c.ledger.abandonedBelow)

(* The transactions of a matched block reach the wallet.                   *)
BlockTransactions(h) ==
    LET grows == h \in Reveals /\ ~ grown
        from == RescanFrom(cf, h)
        rescan == [cf EXCEPT !.ledger = RewindTo(@, from), !.autoThrough = Smaller(@, from - 1)]
    IN /\ connected # {}
       /\ h \in cf.solicited \cap Wanted /\ txs[h] = "unknown"
       /\ txs' = [txs EXCEPT ![h] = "known"]
       /\ grown' = (grown \/ grows)
       /\ IF grows /\ from <= cf.ledger.requestedThrough
          THEN cf' = rescan /\ Persist(rescan, held)
          ELSE UNCHANGED <<cf, disk>>
       /\ UNCHANGED <<tip, blockFloor, connected, held, reanchors, faults>>

(* The end of a matched block: its transactions are confirmed, or held     *)
(* until a checkpoint is reached, and only then is its height scanned.     *)
BlockTxns(h) ==
    LET mine == h \in Wanted
        confirmable == Confirmable(h, tip)
        hold == held \cup {[height |-> h, main |-> TRUE]}
        complete == ~ mine \/ confirmable \/ Cardinality(hold) <= HeldMax
        answered == [cf EXCEPT !.solicited = @ \ {h}]
    IN /\ connected # {}
       /\ h \in cf.solicited /\ Resident(h)
       /\ mine => txs[h] # "unknown"
       /\ txs' = IF mine /\ confirmable THEN [txs EXCEPT ![h] = "confirmed"] ELSE txs
       /\ held' = IF mine /\ ~ confirmable /\ complete THEN hold ELSE held
       /\ cf' = IF complete THEN Judge(answered, {h}) ELSE answered
       /\ IF complete THEN Persist(cf', held') ELSE UNCHANGED disk
       /\ UNCHANGED <<tip, blockFloor, connected, grown, reanchors, faults>>

-----------------------------------------------------------------------------
(* BRPeerManagerKeepAlive, in the order of its parts. *)

(* Holes below the blocks in memory can never be filled: report them and   *)
(* bring the forward fetch back to what is left.                           *)
SurfaceBelowFloor(c) ==
    LET s == Surface(c, Frontier(c), blockFloor)
        lowered == Smaller(s.autoThrough, s.ledger.requestedThrough)
    IN IF HolesOf(c.ledger) = {} THEN c
       ELSE IF Min(HolesOf(c.ledger)) >= blockFloor THEN c
       ELSE [s EXCEPT !.autoStart = Smaller(@, Frontier(s)),
                      !.autoThrough = Larger(lowered, Frontier(s) - 1)]

(* Buffered filters whose block and filter header have arrived.  A match   *)
(* with nobody to ask for the block stays; `aged` ones are thrown away.    *)
DrainBuffer(c, aged) ==
    LET ready == {h \in c.buffered : Resident(h) /\ h < c.chain.next}
        done == IF connected = {} THEN ready \ Hits ELSE ready
        good == {h \in done : h >= c.chain.start}
    IN [Judge(c, good \ Hits) EXCEPT !.solicited = @ \cup (good \cap Hits),
                                      !.buffered = @ \ (done \cup aged)]

Retire(c) == [c EXCEPT !.ledger = RetireCapped(@)]

(* The valve: a hole that pins the frontier and can no longer be asked for *)
(* is re-armed, or written off once RearmMax whole cycles reached live     *)
(* peers and none answered.                                                *)
Valve(c) ==
    LET pins == {pin \in PinningHole(c.ledger) : ~ pin.offerable}
        pin == CHOOSE pin \in pins : TRUE
        run == AbandonableRunFrom(c.ledger, pin.height, MaxRange, RearmMax)
    IN IF connected = {} \/ pins = {} THEN c
       ELSE IF pin.cycles >= RearmMax /\ pin.live
            THEN IF run = {} THEN c
                 ELSE IF pin.height \in DOMAIN c.ledger.gaveUp
                 THEN Noted([c EXCEPT !.ledger = AbandonGaveUpBelow(@, Max(run) + 1)])
                 ELSE Surface(c, pin.height, Max(run) + 1)
       ELSE [c EXCEPT !.ledger = ReArmParkedRun(@, pin.height, MaxRange)]

(* The runs the residual driver offers: not those it holds a filter for,   *)
(* and nothing above the tip.  With nobody to ask it stops at the first.   *)
(* from[m]: the heights it peeks from, of m and later, whose run it offers. *)
OfferedRuns(c) ==
    LET from[m \in 1..(MaxHeight + 1)] ==
            LET run == PeekRerequestRange(c.ledger, m)
            IN IF run = {} THEN {}
               ELSE IF Min(run) \in c.buffered THEN from[Min(run) + 1]
               ELSE IF Min(run) > tip THEN from[Max(run) + 1]
               ELSE IF connected = {} THEN {m}
               ELSE {m} \cup from[Max(run) + 1]
    IN {PeekRerequestRange(c.ledger, m) : m \in Heights \cap from[1]}

(* A run goes to a peer other than the last one asked, when there is one.  *)
PeerFor(last, pick) ==
    IF pick # last \/ connected = {last} THEN pick
    ELSE CHOOSE p \in connected : p # last

Offer(c, run, pick) ==
    LET sendable == {h \in run : h <= tip}
        p == PeerFor(c.ledger.outstanding[Min(run)].peer, pick)
    IN IF connected = {} THEN MarkOffersMissedLivePeer(c.ledger, run)
       ELSE IF Resident(Max(sendable)) THEN CommitRerequest(c.ledger, sendable, p)
       ELSE MarkOffersMissedLivePeer(c.ledger, sendable)

(* The runs have no height in common: each hole is left as its own offer   *)
(* leaves it.                                                              *)
Rerequest(c, pick) ==
    LET runs == OfferedRuns(c)
        RunOf(h) == CHOOSE run \in runs : h \in run
    IN [c EXCEPT !.ledger.outstanding = [h \in DOMAIN @ |->
           IF h \in UNION runs THEN Offer(c, RunOf(h), pick).outstanding[h] ELSE @[h]]]

(* One tick.  due: the holes whose backoff has run out; pick: the peer a    *)
(* request goes to; aged: buffered filters too old to keep; busy: see      *)
(* RequestNextCFHeaders.                                                   *)
Ticked(due, pick, aged, busy) ==
    LET started == [cf EXCEPT !.ledger = WithDue(@, due)]
        settled == Valve(Retire(DrainBuffer(SurfaceBelowFloor(started), aged)))
        asked == Rerequest(settled, pick)
        fetched == IF connected = {} THEN asked ELSE ForwardFetch(asked, pick)
        kicked == IF connected = {} THEN fetched
                  ELSE RequestNextCFHeaders(fetched, tip, blockFloor, busy)
    IN [kicked EXCEPT !.ledger = Undue(@)]

KeepAlive(due, pick, aged, busy) ==
    /\ due \subseteq DOMAIN cf.ledger.outstanding /\ aged \subseteq cf.buffered
    /\ pick \in IF connected = {} THEN {NoPeer} ELSE connected
    /\ cf' = Ticked(due, pick, aged, busy)
    /\ UNCHANGED <<tip, blockFloor, connected, txs, held, grown, disk, reanchors, faults>>

(* BRPeerManagerRetireAbandonedBand: the app gives back what was written   *)
(* off but has come within the blocks in memory.                           *)
RetireAbandonedBand ==
    /\ blockFloor < cf.ledger.abandonedBelow
    /\ cf' = [cf EXCEPT !.ledger = RetireAbandonedTo(@, blockFloor)]
    /\ UNCHANGED <<tip, blockFloor, connected, txs, held, grown, disk, reanchors, faults>>

-----------------------------------------------------------------------------
Deliver ==
    \/ \E n \in 1..HdrBatch, p \in Peers, refund \in BOOLEAN : CFHeaders(n, p, refund)
    \/ \E h \in Heights : CFilter(h) \/ BlockTransactions(h) \/ BlockTxns(h)

Tick ==
    \E due \in SUBSET Heights, aged \in SUBSET Heights, pick \in Peers \cup {NoPeer},
       busy \in BOOLEAN : KeepAlive(due, pick, aged, busy)

Next ==
    \/ \E busy \in BOOLEAN : BlockConnects(busy)
    \/ \E p \in Peers : (\E busy \in BOOLEAN : Connect(p, busy)) \/ Disconnect(p)
    \/ \E f \in Heights : Reorg(f)
    \/ \E h \in Heights : CheckpointDisagrees(h)
    \/ \E corroborated \in BOOLEAN : NeverBrickPark(corroborated)
    \/ Reanchor \/ Restart \/ RetireAbandonedBand
    \/ Deliver \/ Tick

Spec == Init /\ [][Next]_vars

(* KeepAlive runs on a timer, and a tick that finds every backoff run out   *)
(* and a peer to ask comes as long as such a tick would change something:  *)
(* weak fairness, with what ENABLED means for KeepAlive written out.  A    *)
(* lost peer is replaced.                                                  *)
FullTick(pick, busy) == KeepAlive(DOMAIN cf.ledger.outstanding, pick, {}, busy)
TickNeeded ==
    \E pick \in connected, busy \in BOOLEAN :
        Ticked(DOMAIN cf.ledger.outstanding, pick, {}, busy) # cf

Fairness ==
    /\ \A p \in Peers : WF_connected(\E busy \in BOOLEAN : Connect(p, busy))
    /\ []<>(~ TickNeeded) \/ []<><<\E pick \in Peers, busy \in BOOLEAN : FullTick(pick, busy)>>_cf

FairSpec == Spec /\ Fairness

-----------------------------------------------------------------------------
(* h was judged on the blocks of the main chain, or reported as given up.  *)
Settled(h) == h \in cf.judged \/ h < cf.surfacedBelow

(* The scan frontier is honest: from the wallet's birth to the frontier    *)
(* every height was judged or reported, whatever reorganised or restarted. *)
FrontierIsSettled == \A h \in Birth..(Frontier(cf) - 1) : Settled(h)

(* The forward cursor leaves no gap: a height it has passed is settled, or *)
(* a hole of the ledger that will be asked for again.                      *)
CursorLeavesNoGap ==
    \A h \in Birth..(NextForward(cf) - 1) : Settled(h) \/ h \in HolesOf(cf.ledger)

(* What a scan in block order would have found at h: a late payment only   *)
(* if a block of the scan below it, not itself given up, revealed the      *)
(* address.                                                                *)
Owed(h) == h \in Late => \E r \in Reveals : Birth <= r /\ r < h /\ r >= cf.surfacedBelow

(* No payment is missed: the transactions of every height the scan has     *)
(* passed are confirmed, or held until they can be, also those that pay    *)
(* addresses the wallet only got while it was scanning.                    *)
NoPaymentMissed ==
    \A h \in Wanted :
        (h \in Birth..(Frontier(cf) - 1) /\ h >= cf.surfacedBelow /\ Owed(h))
            => txs[h] = "confirmed" \/ [height |-> h, main |-> TRUE] \in held

(* A crash at any moment loses nothing: the saved ledger counts no height  *)
(* whose transactions are in memory only, and none that was not settled.   *)
SavedScanIsDurable ==
    \A l \in disk.ledger : \A h \in Birth..(LowestNeededHeight(l) - 1) :
        h < cf.surfacedBelow \/ h \in cf.judged \ {e.height : e \in held}

(* No height pins the frontier for ever, whatever the peers do: it is      *)
(* judged, or the valve reports it.                                        *)
Pins(h) == HolesOf(cf.ledger) # {} /\ h = Min(HolesOf(cf.ledger))
NoHeightPinsForever == \A h \in Heights : Pins(h) ~> ~ Pins(h)

(* With every handler of BRPeerManager.c that touches it, the scan is a    *)
(* gapless one as long as the process runs: it goes back only for a        *)
(* reorganisation, a grown address set or a re-anchored scan, and no       *)
(* further than that voids.  (A restart forgets the verdicts it did not    *)
(* save, so this holds of runs without one.)                               *)
Scan == INSTANCE GaplessScan WITH
            start <- cf.ledger.start, scanned <- cf.ledger.scannedThrough,
            judged <- cf.judged, reported <- cf.surfacedBelow

ImplementsScan == Scan!Spec
=============================================================================
