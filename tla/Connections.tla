---------------------------- MODULE Connections ----------------------------
(***************************************************************************)
(* The connections of the peer manager: the pool of known peers, dialling, *)
(* the choice of the download peer, lost connections, the calls that stop  *)
(* them and the release of the manager.  Every manager->lock section is one *)
(* step, except that a call of Connect holds `lock` over several steps and *)
(* gives it up where the code does: around syncStarted, while it waits for *)
(* the DNS threads, and around each dial whose thread cannot be created.    *)
(* Connect is called by the application and by the thread of each peer that *)
(* is lost, so several run at once, and recursively on one thread.          *)
(***************************************************************************)
EXTENDS Integers, FiniteSets, Sequences

CONSTANTS
    Addrs,          \* addresses of peers
    Filters,        \* those advertised with SERVICES_NODE_COMPACT_FILTERS
    Services,       \* what the handshake of each may show: "fit", "wrong node", "no filters"
    Claim,          \* the last block each claims
    Lag,            \* how far below the tip a claim may be (10)
    Objs,           \* BRPeer objects, with their threads
    App, None,
    MaxFailures,    \* MAX_CONNECT_FAILURES
    Enough,         \* PEER_MAX_CONNECTIONS: known peers that end the wait for DNS
    Caps,           \* values of maxConnectCount
    FiltersOnly,    \* BR_SYNC_MODE_COMPACT_FILTERS_ONLY, else with bloom peers as well
    Pinned,         \* the pinned address, or None
    Exclusive,      \* whether no other is dialled
    Dials,          \* what BRPeerConnect may do for a new dial, by its address:
                    \* "starts", "waits" (for the network), "fails" (no thread)
    Retries,        \* and for a dial that waited
    MaxTakenBack,   \* bound: dials being taken back at a time
    MaxLookups,     \* bound: DNS threads at a time
    Api             \* the calls the application makes

\* FindPeers looks up when fewer peers are known than four times the cap; with
\* this few addresses that is always so.
ASSUME SmallPool == /\ Caps \subseteq Nat \ {0} /\ Cardinality(Addrs) < 4
                    /\ \E c \in Caps : \A d \in Caps : d <= c
                    /\ Filters \subseteq Addrs /\ Pinned \in Addrs \cup {None}

ASSUME Bounds == MaxFailures \in Nat \ {0} /\ MaxLookups \in Nat

ASSUME DistinctThreads == /\ IsFiniteSet(Objs)
                          /\ App \notin Objs /\ None \notin Objs \cup {App}

\* A dial that waited does not fail when it is tried again: what the code would leave then
\* is a disagreement with its comments, which the README lists.
ASSUME KnownDials == /\ \A a \in Addrs : Dials[a] \subseteq {"starts", "waits", "fails"}
                     /\ Retries \subseteq {"starts", "waits"}

VARIABLES
    known,      \* addresses in manager->peers
    penalised,  \* filter peers under a penalty; only theirs are ever read
    conn,       \* of each object: address, phase, socket closed by us, _peerConnected ran
    download,   \* downloadPeer; isConnected is download # None
    failures,   \* connectFailureCount
    cap,        \* maxConnectCount
    threads,    \* peerThreadCount
    dns,        \* dnsThreadCount
    tip,        \* lastBlock->height
    syncing,    \* syncStartHeight > 0
    freeing,    \* "no", "deferred" (freeDeferred), "freed"
    lock,       \* the thread in Connect that holds manager->lock, or None
    run,        \* of each thread: the calls it is in, innermost first
    asked       \* history: "up", or how the last Disconnect went

vars == <<known, penalised, conn, download, failures, cap, threads, dns, tip, syncing,
          freeing, lock, run, asked>>

Threads == Objs \cup {App}
Unborn  == [addr |-> None, phase |-> "none", cut |-> FALSE, joined |-> FALSE]
MaxCap  == CHOOSE c \in Caps : \A d \in Caps : d <= c

\* Phases: waiting (for the network, no thread), started (no socket yet), opening,
\* up (Connected), down (Disconnected), failed (its thread was never created);
\* gone: released, its thread still runs.
Listed     == {o \in Objs : conn[o].phase \notin {"none", "gone"}}    \* connectedPeers
Up         == {o \in Objs : conn[o].phase = "up"}                     \* status Connected
SocketOpen == {o \in Objs : conn[o].phase \in {"opening", "up"} /\ ~conn[o].cut}
Spare      == {o \in Objs : conn[o].phase = "none"}
IsListed(a) == \E o \in Listed : conn[o].addr = a
ClaimOf(o)  == Claim[conn[o].addr]

\* BRPeerDisconnect of every object of S: no effect where no socket is open yet.
Closed(c, S) == [o \in Objs |-> IF o \in S /\ c[o].phase \in {"opening", "up"}
                                THEN [c[o] EXCEPT !.cut = TRUE] ELSE c[o]]

Penalised(a) == penalised \cup ({a} \cap Filters)

\* Mutant of FreeDue: the DNS threads are not waited for.
FreeDueWithLookups(n, d) == freeing = "deferred" /\ n = 0

FreeDue(n, d) == freeing = "deferred" /\ n = 0 /\ d = 0

----------------------------------------------------------------------------
(* One connection, as far as its own thread takes it.  Its own steps need no *)
(* lock; they wait for it here because a call of Connect reads what they     *)
(* change only as it takes the lock.                                         *)

OpenSocket(o) ==
    /\ lock = None /\ conn[o].phase = "started"
    /\ conn' = [conn EXCEPT ![o].phase = "opening"]
    /\ UNCHANGED <<known, penalised, download, failures, cap, threads, dns, tip, syncing,
                   freeing, lock, run, asked>>

\* The verack may be in dispatch when the socket is closed.
DidConnect(o) ==
    /\ lock = None /\ conn[o].phase = "opening"
    /\ conn' = [conn EXCEPT ![o].phase = "up"]
    /\ UNCHANGED <<known, penalised, download, failures, cap, threads, dns, tip, syncing,
                   freeing, lock, run, asked>>

\* An error, a timeout or a closed socket ends the read loop.
ThreadEnds(o) ==
    /\ lock = None /\ conn[o].phase \in {"started", "opening", "up"}
    /\ conn[o].phase = "up" => conn[o].joined
    /\ conn' = [conn EXCEPT ![o].phase = "down", ![o].joined = FALSE]
    /\ UNCHANGED <<known, penalised, download, failures, cap, threads, dns, tip, syncing,
                   freeing, lock, run, asked>>

\* The peers of S a node may prefer: the highest claim, then the ping.
Best(S) == {o \in S : \A p \in S : ClaimOf(p) <= ClaimOf(o)}

PeerConnected(o, services) ==
    /\ lock = None /\ conn[o].phase = "up" /\ ~conn[o].joined /\ services \in Services[conn[o].addr]
    /\ LET a      == conn[o].addr
           behind == Claim[a] + Lag < tip
           usable == services = "fit" /\ ~behind
           joined == [conn EXCEPT ![o].joined = TRUE]
       IN \/ /\ ~usable
             /\ conn' = Closed(joined, {o})
             /\ penalised' = IF services # "wrong node" /\ a # Pinned THEN Penalised(a) ELSE penalised
             /\ UNCHANGED <<download, failures>>
          \/ /\ usable /\ download # None /\ (ClaimOf(download) >= Claim[a] \/ tip >= Claim[a])
             /\ conn' = joined
             /\ failures' = IF tip >= Claim[a] THEN 0 ELSE failures
             /\ UNCHANGED <<penalised, download>>
          \/ /\ usable /\ (download # None => ClaimOf(download) < Claim[a] /\ tip < Claim[a])
             /\ \E d \in Best(Up) :
                  /\ conn' = Closed(joined, {download} \ {None})
                  /\ download' = d
                  /\ failures' = IF tip < ClaimOf(d) THEN failures ELSE 0
             /\ UNCHANGED penalised
    /\ UNCHANGED <<known, cap, threads, dns, tip, syncing, freeing, lock, run, asked>>

\* Mutant of NextDownloadPeer: a lost download peer is not replaced.
NextDownloadPeerNone(gone) == {None}

\* Who may be promoted when `gone` is lost.
NextDownloadPeer(gone) == IF Up \ {gone} = {} THEN {None} ELSE Best(Up \ {gone})

\* Mutant of Clamped: the count keeps what failed dials added beside a download peer.
ClampedNever(n) == n

Clamped(n) == IF n > MaxFailures THEN MaxFailures ELSE n

\* The pool after `a` was lost: every tenth misbehaving peer empties it.
PoolWithout(a, error) ==
    IF error = "none" THEN {known} ELSE IF error = "net" THEN {known \ {a}} ELSE {known \ {a}, {}}

\* What is left of o for its own thread, or for none.
Released(o) == [conn EXCEPT ![o] = [Unborn EXCEPT !.phase = IF conn[o].phase = "failed" THEN "none"
                                                            ELSE "gone"]]

\* _peerDisconnected on thread t, which then goes on with `after`, and calls
\* Connect first when it will reconnect.
Lose(t, o, error, after) ==
    /\ lock = None
    /\ \E next \in IF download = o THEN NextDownloadPeer(o) ELSE {download},
          pool \in PoolWithout(conn[o].addr, error) :
         LET counted == failures + (IF error = "net" THEN 1 ELSE 0)
             n       == IF download = o THEN Clamped(counted) ELSE counted
             stop    == next = None /\ n = MaxFailures
         IN /\ download' = next
            /\ failures' = n
            /\ known' = IF stop THEN {} ELSE pool
            /\ syncing' = (syncing /\ ~stop)
            /\ run' = [run EXCEPT ![t] =
                         (IF n < MaxFailures THEN <<[at |-> "begin"]>> ELSE <<>>) \o after]
    /\ penalised' = Penalised(conn[o].addr)
    /\ conn' = Released(o)
    /\ UNCHANGED <<cap, dns, tip, freeing, lock, asked>>

\* Only a connection we closed ends without an error.  Bound: as many threads
\* outlive their object as leave one for each new dial.
PeerDisconnected(o, error) ==
    /\ conn[o].phase = "down" /\ (error = "none" => conn[o].cut)
    /\ Cardinality(Spare \cup Listed) > MaxCap
    /\ Lose(o, o, error, <<>>)
    /\ UNCHANGED threads

\* Mutant of ThreadCleanup: the thread's end is not counted down.
ThreadCleanupUncounted(o) ==
    /\ lock = None /\ conn[o].phase = "gone" /\ run[o] = <<>>
    /\ conn' = [conn EXCEPT ![o] = Unborn]
    /\ freeing' = IF FreeDue(threads, dns) THEN "freed" ELSE freeing
    /\ UNCHANGED <<known, penalised, download, failures, cap, threads, dns, tip, syncing,
                   lock, run, asked>>

ThreadCleanup(o) ==
    /\ lock = None /\ conn[o].phase = "gone" /\ run[o] = <<>>
    /\ conn' = [conn EXCEPT ![o] = Unborn]
    /\ threads' = threads - 1
    /\ freeing' = IF FreeDue(threads - 1, dns) THEN "freed" ELSE freeing
    /\ UNCHANGED <<known, penalised, download, failures, cap, dns, tip, syncing, lock, run, asked>>

----------------------------------------------------------------------------
(* BRPeerManagerConnect on thread t *)

At(t, place) == run[t] # <<>> /\ Head(run[t]).at = place
Goes(t, call) == run' = [run EXCEPT ![t] = <<call>> \o Tail(@)]

\* Filter peers in reach, or in use.
Exhausted(penalties) == /\ \A a \in known \cap Filters : IsListed(a) \/ a \in penalties
                        /\ \A o \in SocketOpen : conn[o].addr \notin Filters

\* Where a call begins to dial; `any`: cfExhausted.
Place(any) == [at |-> "pinned", any |-> any, pool |-> {}]

PhaseOf(way) == CASE way = "starts" -> "started" [] way = "waits" -> "waiting" [] OTHER -> "failed"

\* Dials that wait for the network are tried again, and the DNS threads are
\* started when no filter peer is in reach; `still` are the penalties that last.
Enter(t, still) ==
    /\ \E way \in Retries :
         conn' = [o \in Objs |-> IF conn[o].phase # "waiting" THEN conn[o]
                                 ELSE [conn[o] EXCEPT !.phase = PhaseOf(way)]]
    /\ penalised' = still
    /\ IF Cardinality(Listed) >= cap
       THEN lock' = t /\ Goes(t, Place(FALSE)) /\ UNCHANGED dns
       ELSE IF ~FiltersOnly \/ Exhausted(still)
       THEN dns' = dns + 1 /\ Goes(t, [at |-> "found"]) /\ UNCHANGED lock
       ELSE lock' = t /\ Goes(t, Place(FALSE)) /\ UNCHANGED dns
    /\ UNCHANGED <<known, download, cap, threads, tip, freeing, asked>>

\* syncStarted is called with the lock given up.  Bound: a call waits while
\* MaxLookups lookups are out.
Begin(t, behind, still) ==
    /\ At(t, "begin") /\ lock = None /\ dns < MaxLookups
    /\ failures' = IF failures >= MaxFailures THEN 0 ELSE failures
    /\ IF (download = None \/ behind) /\ ~syncing
       THEN /\ syncing' = TRUE /\ Goes(t, [at |-> "notified"]) /\ still = penalised
            /\ UNCHANGED <<known, penalised, conn, download, cap, threads, dns, tip, freeing, lock,
                           asked>>
       ELSE Enter(t, still) /\ UNCHANGED syncing

Notified(t, still) ==
    /\ At(t, "notified") /\ lock = None /\ dns < MaxLookups
    /\ Enter(t, still)
    /\ UNCHANGED <<failures, syncing>>

\* Mutant of Lookup: only peer threads release the manager.
LookupKeeps(answer) ==
    /\ lock = None /\ dns > 0
    /\ known' = known \cup answer
    /\ dns' = dns - 1
    /\ UNCHANGED <<penalised, conn, download, failures, cap, threads, tip, syncing, freeing, lock,
                   run, asked>>

\* A DNS thread adds what its seed answered, and ends.
Lookup(answer) ==
    /\ lock = None /\ dns > 0
    /\ known' = known \cup answer
    /\ dns' = dns - 1
    /\ freeing' = IF FreeDue(threads, dns - 1) THEN "freed" ELSE freeing
    /\ UNCHANGED <<penalised, conn, download, failures, cap, threads, tip, syncing, lock, run, asked>>

Found(t) ==
    /\ At(t, "found") /\ lock = None
    /\ dns = 0 \/ Cardinality(known) >= Enough
    /\ lock' = t /\ Goes(t, Place(TRUE))
    /\ UNCHANGED <<known, penalised, conn, download, failures, cap, threads, dns, tip, syncing,
                   freeing, asked>>

\* Dials whose thread was not created and that are still counted.
TakenBack == Cardinality(UNION {{u} \X {i \in DOMAIN run[u] : run[u][i].at \in {"lost", "uncount"}} :
                                u \in Threads})

Wanted(a) == Exclusive => a = Pinned

\* Mutant of ToDial: a copy of the pool taken before other dials is not looked up again.
ToDialAll(pool) == pool

\* Of some known addresses, those not connected yet.
ToDial(pool) == {a \in pool : ~IsListed(a)}

\* The three passes: the pinned peer, filter peers under no penalty, and where
\* none was in reach a copy of the pool, filter peers first, penalties or not.
\* The place of a call says which pass it is in.
PinnedPass(call) ==
    {[addr |-> a, next |-> [call EXCEPT !.at = "filters"]] :
        a \in IF call.at = "pinned" THEN ToDial(known \cap {Pinned}) ELSE {}}

FilterPass(call) ==
    {[addr |-> a, next |-> [call EXCEPT !.at = "filters"]] :
        a \in IF call.at = "any" THEN {}
              ELSE {b \in ToDial(known \cap Filters) : Wanted(b) /\ b \notin penalised}}

AnyPass(call) ==
    LET copy == IF call.at = "any" THEN call.pool ELSE {a \in known : Wanted(a)}
        todo == ToDial(copy)
    IN {[addr |-> a, next |-> [call EXCEPT !.at = "any", !.pool = todo \ {a}]] :
          a \in IF ~call.any THEN {} ELSE IF todo \cap Filters # {} THEN todo \cap Filters ELSE todo}

\* The dials a call may make next: a pass begins when the one before has no more.
NextDials(call) ==
    IF Cardinality(Listed) >= cap THEN {}
    ELSE IF PinnedPass(call) # {} THEN PinnedPass(call)
    ELSE IF FilterPass(call) # {} THEN FilterPass(call)
    ELSE AnyPass(call)

\* BeginConnect; where no thread can be created, the call goes on when the
\* dial was taken back and the lost connection handled.
Dial(t) ==
    /\ lock = t
    /\ \E dial \in NextDials(Head(run[t])), o \in Spare : \E way \in Dials[dial.addr] :
         /\ conn' = [conn EXCEPT ![o] = [Unborn EXCEPT !.addr = dial.addr, !.phase = PhaseOf(way)]]
         /\ threads' = threads + 1
         /\ IF way = "fails"
            THEN /\ TakenBack < MaxTakenBack
                 /\ lock' = None
                 /\ run' = [run EXCEPT ![t] = <<[at |-> "lost", obj |-> o], dial.next>> \o Tail(@)]
            ELSE Goes(t, dial.next) /\ UNCHANGED lock
    /\ UNCHANGED <<known, penalised, download, failures, cap, dns, tip, syncing, freeing, asked>>

\* Without any connection the sync has stopped.
EndConnect(t) ==
    /\ lock = t /\ NextDials(Head(run[t])) = {}
    /\ syncing' = (syncing /\ Listed # {})
    /\ lock' = None /\ run' = [run EXCEPT ![t] = Tail(@)]
    /\ UNCHANGED <<known, penalised, conn, download, failures, cap, threads, dns, tip, freeing, asked>>

\* Mutant of DialNotStarted: the lost connection takes its thread off as well.
DialNotStartedUncounts(t) ==
    /\ At(t, "lost")
    /\ Lose(t, Head(run[t]).obj, "net", <<[at |-> "uncount"]>> \o Tail(run[t]))
    /\ threads' = threads - 1

\* A dial whose thread was not created: ENOTCONN is reported for it, and the
\* thread counted for it is taken off when that is done.
DialNotStarted(t) ==
    /\ At(t, "lost")
    /\ Lose(t, Head(run[t]).obj, "net", <<[at |-> "uncount"]>> \o Tail(run[t]))
    /\ UNCHANGED threads

Uncount(t) ==
    /\ At(t, "uncount") /\ lock = None
    /\ threads' = threads - 1
    /\ lock' = t /\ run' = [run EXCEPT ![t] = Tail(@)]
    /\ UNCHANGED <<known, penalised, conn, download, failures, cap, dns, tip, syncing, freeing, asked>>

----------------------------------------------------------------------------
(* Messages of connected peers *)

\* A block the download peer serves; it shows that the request did not time out
\* unless it is the last one estimated.
RelayedBlock(o, last) ==
    /\ lock = None /\ o = download /\ conn[o].phase = "up" /\ conn[o].joined /\ tip < ClaimOf(o)
    /\ tip' = tip + 1
    /\ failures' = IF last THEN failures ELSE 0
    /\ UNCHANGED <<known, penalised, conn, download, cap, threads, dns, syncing, freeing, lock, run,
                   asked>>

\* The pong a peer at the tip was asked for when it joined or the sync ended.
PostSyncDone(o) ==
    /\ lock = None /\ conn[o].phase = "up" /\ conn[o].joined /\ ClaimOf(o) <= tip /\ syncing
    /\ syncing' = FALSE
    /\ UNCHANGED <<known, penalised, conn, download, failures, cap, threads, dns, tip, freeing, lock,
                   run, asked>>

RelayedPeer(o, a) ==
    /\ lock = None /\ conn[o].phase = "up" /\ conn[o].joined /\ a \notin known
    /\ known' = known \cup {a}
    /\ UNCHANGED <<penalised, conn, download, failures, cap, threads, dns, tip, syncing, freeing,
                   lock, run, asked>>

PeerMisbehavin(o) ==
    /\ lock = None /\ conn[o].phase = "up" /\ conn[o].joined
    /\ known' \in PoolWithout(conn[o].addr, "proto")
    /\ conn' = Closed(conn, {o})
    /\ UNCHANGED <<penalised, download, failures, cap, threads, dns, tip, syncing, freeing, lock, run,
                   asked>>

----------------------------------------------------------------------------
(* Calls of the application, one at a time *)

Calling(call) == call \in Api /\ run[App] = <<>> /\ freeing = "no"

Connect ==
    /\ Calling("connect")
    /\ run' = [run EXCEPT ![App] = <<[at |-> "begin"]>>] /\ asked' = "up"
    /\ UNCHANGED <<known, penalised, conn, download, failures, cap, threads, dns, tip, syncing,
                   freeing, lock>>

AddPeer(a) ==
    /\ Calling("add") /\ lock = None /\ a \notin known
    /\ known' = known \cup {a}
    /\ UNCHANGED <<penalised, conn, download, failures, cap, threads, dns, tip, syncing, freeing,
                   lock, run, asked>>

\* Peers above a lowered cap are left to time out; a free slot is filled.
SetMaxConnectCount(n) ==
    /\ Calling("cap") /\ lock = None
    /\ cap' = n
    /\ IF Cardinality(Listed) < n
       THEN run' = [run EXCEPT ![App] = <<[at |-> "begin"]>>] /\ asked' = "up"
       ELSE UNCHANGED <<run, asked>>
    /\ UNCHANGED <<known, penalised, conn, download, failures, threads, dns, tip, syncing, freeing,
                   lock>>

Rescan(height) ==
    /\ Calling("rescan") /\ lock = None /\ download # None /\ height <= tip
    /\ tip' = height /\ syncing' = FALSE
    /\ known' = known \ {conn[download].addr}
    /\ conn' = Closed(conn, {download})
    /\ run' = [run EXCEPT ![App] = <<[at |-> "begin"]>>] /\ asked' = "up"
    /\ UNCHANGED <<penalised, download, failures, cap, threads, dns, freeing, lock>>

Disconnect ==
    /\ Calling("disconnect") /\ lock = None
    /\ conn' = Closed(conn, Listed)
    /\ failures' = IF Listed = {} THEN failures ELSE MaxFailures
    /\ cap' = 0
    /\ run' = [run EXCEPT ![App] = <<[at |-> "drain", cap |-> cap]>>] /\ asked' = "stopping"
    /\ UNCHANGED <<known, penalised, download, threads, dns, tip, syncing, freeing, lock>>

\* Mutant of Drained: connections are waited for, not the threads that outlive them.
DrainedOfPeers == Listed = {} /\ dns = 0

Drained == threads = 0 /\ dns = 0

\* The wait ends when every thread has, or when its time is up.
Disconnected(inTime) ==
    /\ At(App, "drain") /\ lock = None /\ (inTime <=> Drained)
    /\ cap' = Head(run[App]).cap
    /\ asked' = IF inTime THEN "down" ELSE "gaveUp"
    /\ run' = [run EXCEPT ![App] = <<>>]
    /\ UNCHANGED <<known, penalised, conn, download, failures, threads, dns, tip, syncing, freeing,
                   lock>>

Free ==
    /\ Calling("free") /\ lock = None
    /\ IF threads + dns > 0
       THEN freeing' = "deferred" /\ cap' = 0 /\ failures' = MaxFailures
       ELSE freeing' = "freed" /\ UNCHANGED <<cap, failures>>
    /\ UNCHANGED <<known, penalised, conn, download, threads, dns, tip, syncing, lock, run, asked>>

Freed == freeing = "freed" /\ UNCHANGED vars

----------------------------------------------------------------------------

Init ==
    /\ known \in {{}, Addrs} /\ penalised = {} /\ conn = [o \in Objs |-> Unborn]
    /\ download = None /\ failures = 0 /\ cap = MaxCap /\ threads = 0 /\ dns = 0
    /\ tip = 1 /\ syncing = FALSE /\ freeing = "no" /\ lock = None
    /\ run = [t \in Threads |-> <<>>] /\ asked = "down"

OfPeer(o) ==
    \/ OpenSocket(o) \/ DidConnect(o) \/ ThreadEnds(o) \/ ThreadCleanup(o)
    \/ PostSyncDone(o) \/ PeerMisbehavin(o)
    \/ \E services \in {"fit", "wrong node", "no filters"} : PeerConnected(o, services)
    \/ \E error \in {"none", "net", "proto"} : PeerDisconnected(o, error)
    \/ \E last \in BOOLEAN : RelayedBlock(o, last)
    \/ \E a \in Filters : RelayedPeer(o, a)

OfConnect(t) ==
    \/ \E still \in SUBSET penalised : Notified(t, still) \/ \E behind \in BOOLEAN : Begin(t, behind, still)
    \/ Found(t) \/ Dial(t)
    \/ EndConnect(t) \/ DialNotStarted(t) \/ Uncount(t)

\* The calls of the application, and the DNS threads.
OfCallers ==
    \/ \E answer \in SUBSET Filters : Lookup(answer)
    \/ Connect \/ Disconnect \/ Free
    \/ \E a \in Addrs : AddPeer(a)
    \/ \E n \in Caps : SetMaxConnectCount(n)
    \/ \E height \in 1..tip : Rescan(height)
    \/ \E inTime \in BOOLEAN : Disconnected(inTime)

Next ==
    /\ freeing # "freed"
       /\ \/ \E o \in Objs : OfPeer(o)
          \/ \E t \in Threads : OfConnect(t)
          \/ OfCallers
    \/ Freed

Spec == Init /\ [][Next]_vars

----------------------------------------------------------------------------
(* Properties *)

Alive(o) == conn[o].phase \in {"started", "opening", "up", "down", "gone"}   \* has a thread

\* What a thread may be doing: a step of Connect, the passes over the pool, taking back
\* a dial, or the wait of Disconnect.
Calls == [at : {"begin", "notified", "found", "uncount"}]
         \cup [at : {"pinned", "filters", "any"}, any : BOOLEAN, pool : SUBSET Addrs]
         \cup [at : {"lost"}, obj : Objs]
         \cup [at : {"drain"}, cap : Caps \cup {0}]

\* The state has its shape.
TypeOK ==
    /\ known \subseteq Addrs /\ penalised \subseteq Addrs
    /\ conn \in [Objs -> [addr : Addrs \cup {None}, cut : BOOLEAN, joined : BOOLEAN,
                         phase : {"none", "waiting", "started", "opening", "up", "down", "failed",
                                  "gone"}]]
    /\ download \in Objs \cup {None} /\ failures \in Nat
    /\ cap \in Caps \cup {0} /\ threads \in Nat /\ dns \in 0..MaxLookups /\ tip \in Nat
    /\ run \in [Threads -> Seq(Calls)]
    /\ syncing \in BOOLEAN /\ freeing \in {"no", "deferred", "freed"}
    /\ lock \in Threads \cup {None} /\ asked \in {"up", "stopping", "down", "gaveUp"}

\* peerThreadCount is what Disconnect waits for and a deferred release hangs on: it
\* counts every thread until it touches the manager no more, dials without
\* one until they are taken back, and nothing twice.
ThreadsAreCounted ==
    threads = Cardinality({o \in Objs : conn[o].phase \notin {"none", "failed"}}) + TakenBack

\* However many calls of Connect interleave in their unlocked windows, no address is
\* connected to twice, so no node counts as two peers.
OnePerAddress ==
    \A o, p \in Listed : conn[o].addr = conn[p].addr => o = p

\* The download peer is never an object that was released, and while there is
\* none, no peer that passed _peerConnected is still usable: one that joined
\* as another's follower is promoted when the leader is lost.
SomeoneLeads ==
    /\ download # None => download \in Listed
    /\ download = None => \A o \in SocketOpen : ~conn[o].joined

\* Until the application hangs up, a manager with no connection, no dial and no thread
\* that could reconnect has reported the end of the sync (SyncStopped): the
\* user is not left with a sync that neither runs nor ends.
QuietIsReported ==
    asked = "up" /\ freeing = "no" /\ Listed = {} /\ (\A t \in Threads : run[t] = <<>>) => ~syncing

\* A Disconnect that returned 1 has really stopped: no peer is connected, and no
\* thread is on its way to reconnect, until the application asks again.
StaysDown == asked = "down" => Listed = {} /\ \A o \in Objs : conn[o].phase = "none"

\* Only the last thread releases a manager whose release was deferred: no
\* connection, lookup or call can touch it afterwards.
FreedAlone ==
    freeing = "freed" => dns = 0 /\ (\A t \in Threads : run[t] = <<>>) /\ ~\E o \in Objs : Alive(o)

\* A deferred release is still owed by a thread, or by a dial that waits for the network.
DeferredFreeIsOwed ==
    freeing = "deferred" => dns > 0 \/ \E o \in Objs : Alive(o) \/ conn[o].phase = "waiting"

=============================================================================
