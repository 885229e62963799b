----------------------------- MODULE BlockTree -----------------------------
(***************************************************************************)
(* The headers of the peer manager: the resident set, the parentless set    *)
(* ("orphans"), the checkpoints, the tip, and two caches over the chain     *)
(* below it.  A header is an object: the same header may arrive again, and  *)
(* each set, and several pointers, may name the one object or the other.    *)
(*                                                                          *)
(* _peerRelayedBlockOnce handles one header in one hold of manager->lock.   *)
(* The orphan that connects to it is taken out of its set and is the next   *)
(* header of the same thread, in a hold of its own: `carried`.              *)
(***************************************************************************)
EXTENDS Integers, FiniteSets, Sequences

CONSTANTS
    Hashes,         \* headers, by block hash
    Prev, HeightOf, \* of each: the hash it builds on (None for the first), its height
    Checkpoints,    \* the hashes of params->checkpoints
    Birth,          \* the checkpoint a sync of this wallet starts from
    Starts,         \* what the application may pass as startSyncFrom, and None
    None,
    OrphanMax,      \* ORPHAN_SET_COUNT_MAX
    PruneFrom,      \* CLEAR_MEM_BLOCKS_COUNT_TRIGGER: resident headers that start a prune
    PruneDepth,     \* how many headers below the tip a prune keeps
    SaveCount,      \* SAVE_BLOCK_COUNT
    Stride,         \* MAIN_INDEX_STRIDE
    IndexMax,       \* MAIN_INDEX_MAX
    Copies,         \* bound: objects of one header at a time
    Carriers        \* bound: threads at work on an orphan

ASSUME HeadersLink ==
    /\ IsFiniteSet(Hashes) /\ None \notin Hashes /\ None \notin [hash : Hashes, copy : Nat]
    /\ Prev \in [Hashes -> Hashes \cup {None}] /\ HeightOf \in [Hashes -> Nat]
    /\ \A h \in Hashes : Prev[h] # None => Prev[h] \in Hashes /\ HeightOf[h] = HeightOf[Prev[h]] + 1
    /\ Birth \in Checkpoints /\ Checkpoints \subseteq Hashes /\ Starts \subseteq Hashes \cup {None}
    /\ \A c \in Checkpoints, h \in Checkpoints \cup (Starts \ {None}) :
            HeightOf[c] = HeightOf[h] => c = h
    /\ Starts \cap Checkpoints = {}
    /\ Stride \in Nat \ {0} /\ OrphanMax \in Nat \ {0, 1} /\ PruneDepth \in Nat
    /\ IndexMax \in Nat /\ Copies \in Nat

VARIABLES
    m,              \* the manager's tables and pointers
    carried,        \* orphans taken out of their set and not yet handled again
    index,          \* mainIndexTip, mainIndexTop, mainIndex
    rewound         \* history: a rescan moved the tip below resident headers

vars == <<m, carried, index, rewound>>

----------------------------------------------------------------------------
(* Objects and walks *)

\* A checkpoint's stub has a hash and a height, and no previous block.
Stub(h)     == [hash |-> h, copy |-> 0]
Height(o)   == HeightOf[o.hash]
PrevOf(o)   == IF o.copy = 0 THEN None ELSE Prev[o.hash]
MaxHeight   == CHOOSE n \in {HeightOf[h] : h \in Hashes} : \A h \in Hashes : HeightOf[h] <= n
InBlocks(s)  == {s.blocks[h] : h \in Hashes} \ {None}
InOrphans(s) == {s.orphans[h] : h \in Hashes} \ {None}
InCheckpoints(s) == {s.checkpoints[n] : n \in 0..MaxHeight} \ {None}

\* Walks from o down, by previous block, through the resident set.
Walk(s, o) ==
    LET w[n \in 0..MaxHeight] ==
            IF n = 0 THEN o
            ELSE IF w[n - 1] = None \/ PrevOf(w[n - 1]) = None THEN None
            ELSE s.blocks[PrevOf(w[n - 1])]
    IN w

\* The object at a height of the chain of o, or None.
Ancestor(s, o, height) == IF height > Height(o) THEN None ELSE Walk(s, o)[Height(o) - height]

Chain(s) == {Walk(s, s.lastBlock)[n] : n \in 0..MaxHeight} \ {None}

HashAtHeight(s, height) ==
    LET b == Ancestor(s, s.lastBlock, height) IN IF b = None THEN None ELSE b.hash

BlockFloor(s) == CHOOSE n \in {Height(o) : o \in Chain(s)} : \A o \in Chain(s) : n <= Height(o)

----------------------------------------------------------------------------
(* The memoised floor: its key is what the resident set and the tip were. *)

NoMemo == [tip |-> None, count |-> 0, floor |-> 0]

\* Mutant of Key: what is resident is left out.
KeyIsTip(s) == [tip |-> s.lastBlock, count |-> 0]

Key(s) == [tip |-> s.lastBlock, count |-> Cardinality(InBlocks(s))]

MemoHits(s) == s.memo.tip = Key(s).tip /\ s.memo.count = Key(s).count

FloorAsked(s) ==
    IF MemoHits(s) THEN s
    ELSE [s EXCEPT !.memo = [tip |-> Key(s).tip, count |-> Key(s).count, floor |-> BlockFloor(s)]]

----------------------------------------------------------------------------
(* Ownership *)

Freed(s, o) == [s EXCEPT !.live = @ \ {o}, !.dated = @ \ {o}]

\* The checkpoint set holds this very object; it is keyed by height, which an
\* orphan may not have.
IsCheckpoint(s, o) ==
    o \in s.dated /\ s.checkpoints[Height(o)] = o

\* Mutant of OrphanLeft: lastOrphan goes on naming what left.
OrphanLeftNamed(s, o) == s

OrphanLeft(s, o) == [s EXCEPT !.lastOrphan = IF @ = o THEN None ELSE @]

Reclaimed(s, o) == IF IsCheckpoint(s, o) THEN OrphanLeft(s, o) ELSE Freed(OrphanLeft(s, o), o)

\* The oldest give way; header times are not ordered by height, so any may.
Evicted(s, keep) ==
    LET low  == (OrphanMax * 3) \div 4
        all  == InOrphans(s)
        less == {E \in SUBSET (all \ {keep}) : Cardinality(all \ E) = low}
    IN IF Cardinality(all) <= OrphanMax THEN {s}
       ELSE {[s EXCEPT !.orphans = [h \in Hashes |-> IF s.orphans[h] \in E THEN None ELSE s.orphans[h]],
                       !.live = @ \ {o \in E : ~IsCheckpoint(s, o)}, !.dated = @ \ E] : E \in less}

\* An orphan that shares its parent with o gives way.
StoreOrphan(s, o) ==
    LET displaced == s.orphans[Prev[o.hash]]
        placed    == [s EXCEPT !.orphans[Prev[o.hash]] = o]
        settled   == IF displaced \in {None, o} THEN placed ELSE Reclaimed(placed, displaced)
    IN Evicted([settled EXCEPT !.lastOrphan = o], o)

\* Every pointer to `old` follows o, which took its place in the resident set.
Follow(s, old, o) ==
    [s EXCEPT !.orphans[Prev[old.hash]] = IF @ = old THEN None ELSE @,
              !.lastOrphan = IF @ = old THEN None ELSE @,
              !.lastBlock = IF @ = old THEN o ELSE @,
              !.startSyncFrom = IF @ = old THEN o ELSE @,
              !.memo = IF old \in {s.lastBlock, @.tip} THEN NoMemo ELSE @]

\* The object of the same hash o displaces, if any, has no owner then.
InstallSavedBlock(s, o) ==
    LET old    == s.blocks[o.hash]
        placed == [s EXCEPT !.blocks[o.hash] = o]
    IN IF old \in {None, o} THEN placed
       ELSE IF IsCheckpoint(s, old)
       THEN Freed([placed EXCEPT !.checkpoints[Height(o)] = o], old)
       ELSE Freed(Follow(placed, old, o), old)

\* A header that is resident already: the newer object replaces the older.
Refreshed(s, o) ==
    LET old    == s.blocks[o.hash]
        tip    == IF s.lastBlock.hash = o.hash THEN [s EXCEPT !.lastBlock = o] ELSE s
        placed == [tip EXCEPT !.blocks[o.hash] = o]
        kept   == IF IsCheckpoint(s, old) THEN [placed EXCEPT !.checkpoints[Height(o)] = o] ELSE placed
    IN IF old = o THEN tip ELSE Freed(Follow(kept, old, o), old)

\* The prune removes what lies deep on the chain of the tip and below the
\* retention floor, if there is one; it spares the objects of checkpoints.
Pruned(s, floor) ==
    LET deep == {o \in Chain(s) : /\ Height(s.lastBlock) - Height(o) > PruneDepth
                                  /\ floor > 0 => Height(o) < floor}
        gone == IF Cardinality(InBlocks(s)) >= PruneFrom THEN deep ELSE {}
    IN [s EXCEPT !.blocks = [h \in Hashes |-> IF s.blocks[h] \in gone THEN None ELSE s.blocks[h]],
                 !.live = @ \ {o \in gone : ~IsCheckpoint(s, o)},
                 !.dated = @ \ {o \in gone : ~IsCheckpoint(s, o)},
                 !.memo = NoMemo]

\* Two of its early returns leave everything as it is; which floor the filter
\* scan asks for is open.
ClearMemory(s) == {s} \cup {Pruned(s, floor) : floor \in 0..MaxHeight}

----------------------------------------------------------------------------
(* One relayed header *)

\* Its other refusals are the drop that Handle leaves open.
Verified(s, o) ==
    LET c == s.checkpoints[Height(o)] IN c # None => c.hash = o.hash

\* The orphan that waited for o is next; only an object with a height asks.
Done(s, o, others) ==
    LET next == IF o \in s.dated THEN s.orphans[o.hash] ELSE None
    IN IF next = None THEN m' = s /\ carried' = others
       ELSE /\ m' = OrphanLeft([s EXCEPT !.orphans[o.hash] = None], next)
            /\ carried' = others \cup {next}

Dropped(s, o, others) == m' = Freed(s, o) /\ carried' = others

\* o extends the tip.
Extends(s, o, others) ==
    \E r \in ClearMemory([InstallSavedBlock(s, o) EXCEPT !.lastBlock = o]) : Done(r, o, others)

\* Mutant of IsBetter: a branch must lead by more than one header.
IsBetterByTwo(s, o) == Height(o) > Height(s.lastBlock) + 1

IsBetter(s, o) == Height(o) > Height(s.lastBlock)

\* o is on another branch; the higher branch is the chain.
Forks(s, o, others) ==
    LET placed == [s EXCEPT !.blocks[o.hash] = o]
    IN IF IsBetter(s, o)
       THEN Done([placed EXCEPT !.lastBlock = o], o, others)
       ELSE Done(placed, o, others)

\* `ahead`: the peer claims more blocks than the tip has.
Handle(s, o, others) ==
    LET prev == s.blocks[Prev[o.hash]]
        d    == [s EXCEPT !.dated = @ \cup {o}]
        far  == Height(o) > Height(s.lastBlock) + 1
        buried == \E c \in Checkpoints : Height(o) <= HeightOf[c]
    IN \/ prev = None /\ \E r \in StoreOrphan(s, o) : Done(r, o, others)
       \/ Dropped(s, o, others)             \* implausible time, or refused by VerifyBlock
       \/ /\ prev # None /\ Verified(s, o) /\ Prev[o.hash] = s.lastBlock.hash
          /\ Extends(d, o, others)
       \/ /\ prev # None /\ Verified(s, o) /\ Prev[o.hash] # s.lastBlock.hash
          /\ s.blocks[o.hash] # None
          /\ Done(Refreshed(d, o), o, others)
       \/ /\ prev # None /\ Verified(s, o) /\ Prev[o.hash] # s.lastBlock.hash
          /\ s.blocks[o.hash] = None
          /\ \E ahead \in BOOLEAN :
               \/ ahead /\ far /\ \E r \in StoreOrphan(d, o) : Done(r, o, others)
               \/ ~(ahead /\ far) /\ buried /\ Dropped(d, o, others)
               \/ ~(ahead /\ far) /\ ~buried /\ Forks(d, o, others)

Above(s) == \E o \in InBlocks(s) : o.hash \notin Checkpoints /\ Height(o) > Height(s.lastBlock)
Rewound == rewound' = (rewound /\ Above(m'))

RelayedBlock(h) ==
    \E i \in 1..Copies :
        LET o == [hash |-> h, copy |-> i]
        IN /\ Prev[h] # None /\ o \notin m.live
           /\ \A j \in 1..(i - 1) : [hash |-> h, copy |-> j] \in m.live
           /\ Handle([m EXCEPT !.live = @ \cup {o}], o, carried)
           /\ Cardinality(carried') <= Carriers
    /\ Rewound /\ UNCHANGED index

RelayedOrphan(o) ==
    /\ o \in carried
    /\ Handle(m, o, carried \ {o})
    /\ Rewound /\ UNCHANGED index

----------------------------------------------------------------------------
(* The index of the main chain: the hashes at the multiples of Stride, from  *)
(* `top` down.                                                               *)

NoIndex == [tip |-> None, top |-> 0, entries |-> <<>>]
EntryHeight(x, k) == x.top - (k - 1) * Stride
TopOf(o) == Height(o) - (Height(o) % Stride)

\* The entries a walk from b down to `height` adds.
Noted(x, b, height) ==
    LET Adds(k) == /\ k <= IndexMax /\ EntryHeight(x, k) >= height /\ EntryHeight(x, k) >= 0
                   /\ EntryHeight(x, k) <= Height(b)
                   /\ Ancestor(m, b, EntryHeight(x, k)) # None
        n == CHOOSE k \in Len(x.entries)..IndexMax :
                 /\ \A j \in (Len(x.entries) + 1)..k : Adds(j)
                 /\ k = IndexMax \/ ~Adds(k + 1)
    IN [x EXCEPT !.entries = [k \in 1..n |-> IF k <= Len(x.entries) THEN x.entries[k]
                                             ELSE Ancestor(m, b, EntryHeight(x, k)).hash]]

\* Mutant of Continues: a higher tip is taken to extend the indexed one.
ContinuesIfHigher(x, tip) == Height(tip) >= HeightOf[x.tip]

\* The tip is the indexed one, or descends from it.
Continues(x, tip) ==
    /\ Height(tip) >= HeightOf[x.tip]
    /\ Height(tip) - HeightOf[x.tip] <= IndexMax * Stride
    /\ LET b == Ancestor(m, tip, HeightOf[x.tip]) IN b # None /\ b.hash = x.tip

\* The index brought up to the tip: extended at the top, or started again.
Current(x, tip) ==
    IF x.entries = <<>> \/ (x.tip # tip.hash /\ ~Continues(x, tip))
    THEN [tip |-> tip.hash, top |-> TopOf(tip), entries |-> <<>>]
    ELSE LET n    == (TopOf(tip) - x.top) \div Stride
             news == [k \in 1..n |-> Ancestor(m, tip, TopOf(tip) - (k - 1) * Stride).hash]
             all  == news \o x.entries
         IN [tip |-> tip.hash, top |-> TopOf(tip),
             entries |-> [k \in 1..(IF Len(all) < IndexMax THEN Len(all) ELSE IndexMax) |-> all[k]]]

\* _BRPeerManagerMainHashAtHeightLocked: its answer, and the index it leaves.
Looked(x, height) ==
    LET tip == m.lastBlock
        c   == Current(x, tip)
        k   == (c.top - height) \div Stride + 1
        use == IF k <= Len(c.entries) THEN k ELSE Len(c.entries)
        b   == IF c.entries # <<>> /\ height <= c.top THEN m.blocks[c.entries[use]] ELSE tip
        at  == Ancestor(m, b, height)
    IN IF height > Height(tip) THEN [hash |-> None, index |-> x]
       ELSE IF b = None THEN [hash |-> HashAtHeight(m, height), index |-> c]
       ELSE [hash |-> IF at = None THEN None ELSE at.hash, index |-> Noted(c, b, height)]

----------------------------------------------------------------------------

\* The floor and the chain are asked for while filters are requested and matched.
AskFloor == m' = FloorAsked(m) /\ UNCHANGED <<carried, index, rewound>>

AskChain(height) == index' = Looked(index, height).index /\ UNCHANGED <<m, carried, rewound>>

Rescan ==
    /\ IF m.startSyncFrom # None
       THEN m' = [m EXCEPT !.lastBlock = m.startSyncFrom,
                           !.blocks[m.startSyncFrom.hash] = m.startSyncFrom]
       ELSE m' = [m EXCEPT !.lastBlock = IF m.blocks[Birth] = None THEN @ ELSE m.blocks[Birth]]
    /\ rewound' = Above(m')
    /\ UNCHANGED <<carried, index>>

Highest(run) == CHOOSE h \in run : \A k \in run : HeightOf[k] <= HeightOf[h]

\* A new manager: the header to start from, if there is one, the checkpoints' stubs, and
\* the saved headers, none of which is one of those.
Opened(run, start) ==
    LET first(h) == [hash |-> h, copy |-> 1]
        begin    == IF start = None THEN None ELSE first(start)
        resident == [h \in Hashes |-> IF h \in Checkpoints THEN Stub(h)
                                      ELSE IF h \in run \cup {start} THEN first(h) ELSE None]
        all      == {resident[h] : h \in Hashes} \ {None}
        pins(n)  == {resident[h] : h \in {k \in Checkpoints \cup ({start} \ {None}) : HeightOf[k] = n}}
    IN [blocks |-> resident, orphans |-> [h \in Hashes |-> None],
        checkpoints |-> [n \in 0..MaxHeight |-> IF pins(n) = {} THEN None ELSE CHOOSE o \in pins(n) : TRUE],
        lastBlock |-> IF start # None THEN begin ELSE IF run # {} THEN first(Highest(run)) ELSE Stub(Birth),
        lastOrphan |-> None, startSyncFrom |-> begin,
        live |-> all, dated |-> all, memo |-> NoMemo]

\* The runs a save writes: up to SaveCount headers down from one, and no stub.
Runs == {run \in SUBSET (Hashes \ Checkpoints) :
            /\ Cardinality(run) <= SaveCount
            /\ \A h, k \in run : HeightOf[h] > HeightOf[k] => Prev[h] \in run
            /\ \A h, k \in run : HeightOf[h] = HeightOf[k] => h = k}

\* A manager is opened with nothing, with what was last saved, or with a header to start from.
Init ==
    /\ \E run \in Runs : \E start \in Starts \ run : m = Opened(run, start)
    /\ carried = {} /\ index = NoIndex /\ rewound = Above(m)

Next ==
    \/ \E h \in Hashes : RelayedBlock(h)
    \/ \E o \in carried : RelayedOrphan(o)
    \/ AskFloor
    \/ \E height \in 0..MaxHeight : AskChain(height)
    \/ Rescan

Spec == Init /\ [][Next]_vars

----------------------------------------------------------------------------
(* Properties *)

\* Every header object has one owner until it is freed, once: the resident set, the
\* parentless set or the thread that carries it, and else the checkpoint set.  None is
\* lost, none is in two sets that free it, and no pointer outlives its object, along all
\* the paths of a relayed header, the prune and the rescan.
OneOwner ==
    /\ m.live = InBlocks(m) \cup InOrphans(m) \cup InCheckpoints(m) \cup carried
    /\ InBlocks(m) \cap InOrphans(m) = {} /\ carried \cap (InBlocks(m) \cup InOrphans(m)) = {}
    /\ {m.lastBlock, m.startSyncFrom} \subseteq m.live \cup {None}
    /\ m.lastOrphan \in InOrphans(m) \cup {None}

\* The hashes of the branch of h, from h down, whatever of it is resident.
Branch(h) ==
    LET w[n \in 0..MaxHeight] ==
            IF n = 0 THEN h ELSE IF w[n - 1] = None THEN None ELSE Prev[w[n - 1]]
    IN w

\* The index of _BRPeerManagerMainHashAtHeightLocked answers what a walk from the tip
\* would, whatever was reorganised, pruned or rewound since its entries were noted.  Where
\* the walk ends too early, for headers a rescan brought back below a gap, the index may
\* know more: the header of the tip's branch all the same.
IndexTellsTheChain ==
    \A height \in 0..MaxHeight :
        LET walked == HashAtHeight(m, height)
            told   == Looked(index, height).hash
        IN \/ told = walked
           \/ walked = None /\ told = Branch(m.lastBlock.hash)[Height(m.lastBlock) - height]

\* The floor memoised by _BRPeerManagerBlockFloorCached is the floor whenever its key
\* matches, although headers are replaced, added and pruned under it.  One replacement it
\* misses: that of a checkpoint's stub, where the walk down ends, by its header, where it
\* goes on.
FloorIsCurrent ==
    MemoHits(m) => \/ m.memo.floor = BlockFloor(m)
                   \/ m.memo.floor > BlockFloor(m) /\ \E c \in Checkpoints : HeightOf[c] = m.memo.floor

\* Whatever the order headers arrive in, and whichever thread handles them, no resident
\* header is higher than the tip, until a rescan moves the tip back.  A checkpoint's is
\* left out: it takes the place of a stub, and is not compared with the tip if it builds
\* on another branch.
TipIsBest == rewound \/ ~Above(m)

=============================================================================
