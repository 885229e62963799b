------------------------ MODULE Connections_proofs ------------------------
(***************************************************************************)
(* Proofs about Connections, for any objects, caps, failure limit and       *)
(* lookups: no address is connected to twice; the download always has a     *)
(* leader while a peer that joined is usable; peerThreadCount counts the     *)
(* threads exactly, so that a Disconnect that saw them end has stopped the   *)
(* manager, and a deferred release is carried out when nobody is left; and a *)
(* manager that has gone quiet has reported the end of the sync.             *)
(***************************************************************************)
EXTENDS Connections, SequenceTheorems, FiniteSetTheorems, FunctionTheorems, TLAPS

Phases == {"none", "waiting", "started", "opening", "up", "down", "failed", "gone"}

\* The connections are records, and only a peer that is up has joined.
Shape ==
    /\ conn \in [Objs -> [addr : Addrs \cup {None}, phase : Phases, cut : BOOLEAN,
                         joined : BOOLEAN]]
    /\ \A o \in Objs : conn[o].joined => conn[o].phase = "up"

\* The connections, the leader and the addresses.
Links == Shape /\ OnePerAddress /\ SomeoneLeads

Passes == {"pinned", "filters", "any"}

\* The calls of a thread: a dial that is taken back returns to its call of Connect, and
\* the wait of Disconnect is nobody's callee.
Stacks == {s \in Seq(Calls) : \A i \in 1..Len(s) :
             /\ s[i].at \in {"lost", "uncount"} => i < Len(s) /\ s[i + 1].at \in Passes
             /\ s[i].at = "drain" => i = Len(s)}

\* Threads are where calls can be, and who holds the lock is in a pass of Connect.
Places ==
    /\ known \subseteq Addrs /\ cap \in Caps \cup {0}
    /\ run \in [Threads -> Stacks]
    /\ lock # None => /\ lock \in Threads /\ run[lock] # <<>>
                     /\ Head(run[lock]).at \in Passes

\* What is preserved by every step.
Inv == Links /\ Places

----------------------------------------------------------------------------
(* Lemmas: how a step may change the connections *)

\* A step takes no address that is in use, as long as what it lists was listed
\* under the same address; that is so for every step but a dial.
LEMMA KeepsAddresses ==
    ASSUME OnePerAddress,
           \A o \in Objs : conn'[o].phase \notin {"none", "gone"} =>
                conn[o].phase \notin {"none", "gone"} /\ conn'[o].addr = conn[o].addr
    PROVE  OnePerAddress'
BY DEF OnePerAddress, Listed

\* Whether a socket is closed changes neither phases nor addresses, and nobody joins.
LEMMA ClosedKeeps ==
    ASSUME NEW c \in [Objs -> [addr : Addrs \cup {None}, phase : Phases, cut : BOOLEAN,
                              joined : BOOLEAN]],
           NEW S
    PROVE  /\ Closed(c, S) \in [Objs -> [addr : Addrs \cup {None}, phase : Phases, cut : BOOLEAN,
                                        joined : BOOLEAN]]
           /\ \A o \in Objs : /\ Closed(c, S)[o].phase = c[o].phase
                              /\ Closed(c, S)[o].addr = c[o].addr
                              /\ Closed(c, S)[o].joined = c[o].joined
                              /\ c[o].cut => Closed(c, S)[o].cut
                              /\ o \in S /\ c[o].phase \in {"opening", "up"} => Closed(c, S)[o].cut
BY DEF Closed, Phases

\* A step that keeps the download peer, and only closes sockets of, or ends, listed
\* connections, leaves the download with its leader.
LEMMA KeepsLeader ==
    ASSUME SomeoneLeads, download' = download,
           \A o \in Objs : conn[o].phase \notin {"none", "gone"} =>
                conn'[o].phase \notin {"none", "gone"},
           \A o \in Objs : conn'[o].joined /\ conn'[o].phase \in {"opening", "up"} /\ ~conn'[o].cut =>
                conn[o].joined /\ conn[o].phase \in {"opening", "up"} /\ ~conn[o].cut
    PROVE  SomeoneLeads'
BY DEF SomeoneLeads, Listed, SocketOpen

\* A step that changes neither keeps the invariant.
LEMMA Untouched ==
    ASSUME Links, UNCHANGED <<conn, download>>
    PROVE  Links'
BY DEF Links, Shape, OnePerAddress, SomeoneLeads, Listed, SocketOpen

\* A lost connection is released for good, and one that is up succeeds it as the leader.
LEMMA LosePreserves ==
    ASSUME Links, NEW t, NEW o, NEW error, NEW after, Lose(t, o, error, after)
    PROVE  Links'
<1>1. conn' = Released(o)
  BY DEF Lose
<1>2. download' \in IF download = o THEN NextDownloadPeer(o) ELSE {download}
  BY DEF Lose
<1>3. /\ conn' \in [Objs -> [addr : Addrs \cup {None}, phase : Phases, cut : BOOLEAN,
                            joined : BOOLEAN]]
      /\ \A p \in Objs : IF p = o THEN /\ conn'[p].phase \in {"none", "gone"}
                                       /\ ~conn'[p].joined
                          ELSE conn'[p] = conn[p]
  BY <1>1 DEF Links, Shape, Released, Unborn, Phases
<1>4. Shape'
  BY <1>3 DEF Links, Shape
<1>5. OnePerAddress'
  BY <1>3, KeepsAddresses DEF Links
<1>6. SomeoneLeads'
  <2>1. CASE download # o
    <3>1. download' = download
      BY <1>2, <2>1
    <3>. QED
      BY <1>3, <2>1, <3>1 DEF Links, SomeoneLeads, Listed, SocketOpen
  <2>2. CASE download = o /\ Up \ {o} = {}
    <3>1. download' = None
      BY <1>2, <2>2 DEF NextDownloadPeer
    <3>2. \A p \in Objs : p # o => conn[p].phase # "up"
      BY <2>2 DEF Up
    <3>3. \A p \in Objs : conn'[p].joined => p # o /\ conn[p].joined
      BY <1>3
    <3>4. \A p \in Objs : ~conn'[p].joined
      BY <3>2, <3>3 DEF Links, Shape
    <3>. QED
      BY <3>1, <3>4 DEF SomeoneLeads, SocketOpen
  <2>3. CASE download = o /\ Up \ {o} # {}
    <3>1. download' \in Up \ {o}
      BY <1>2, <2>3 DEF NextDownloadPeer, Best
    <3>2. download' \in Objs /\ conn'[download'].phase = "up"
      BY <1>3, <3>1 DEF Up
    <3>3. download' \in Listed'
      BY <3>2 DEF Listed
    <3>. QED
      BY <3>2, <3>3, DistinctThreads DEF SomeoneLeads
  <2>. QED
    BY <2>1, <2>2, <2>3
<1>. QED
  BY <1>4, <1>5, <1>6 DEF Links

----------------------------------------------------------------------------
(* The steps *)

\* A manager begins with nothing linked and no thread in a call.
LEMMA InitEstablishes == Init => Inv
<1>. SUFFICES ASSUME Init PROVE Inv
  OBVIOUS
<1>1. Links
  BY DEF Init, Links, Shape, OnePerAddress, SomeoneLeads, Listed, SocketOpen, Unborn, Phases
<1>2. Places
  <2>1. cap \in Caps
    BY SmallPool DEF Init, MaxCap
  <2>. QED
    BY <2>1 DEF Init, Places, Stacks
<1>. QED
  BY <1>1, <1>2 DEF Inv

\* A step of a connection's own thread, without the manager's lock.
LEMMA OwnStepsPreserve ==
    ASSUME Links, NEW o \in Objs,
           OpenSocket(o) \/ DidConnect(o) \/ ThreadEnds(o) \/ ThreadCleanup(o)
    PROVE  Links'
<1>1. /\ download' = download
      /\ conn' \in [Objs -> [addr : Addrs \cup {None}, phase : Phases, cut : BOOLEAN,
                            joined : BOOLEAN]]
      /\ \A p \in Objs : p # o => conn'[p] = conn[p]
  <2>1. CASE OpenSocket(o)
    BY <2>1 DEF OpenSocket, Links, Shape, Phases
  <2>2. CASE DidConnect(o)
    BY <2>2 DEF DidConnect, Links, Shape, Phases
  <2>3. CASE ThreadEnds(o)
    BY <2>3, ZenonT(60) DEF ThreadEnds, Links, Shape, Phases
  <2>4. CASE ThreadCleanup(o)
    BY <2>4 DEF ThreadCleanup, Links, Shape, Phases, Unborn
  <2>. QED
    BY <2>1, <2>2, <2>3, <2>4
<1>2. \/ /\ conn[o].phase \in {"started", "opening", "up"}
         /\ conn'[o].phase \in {"opening", "up", "down"} /\ conn'[o].addr = conn[o].addr
         /\ conn'[o].joined => conn[o].joined /\ conn'[o].phase = "up"
         /\ conn[o].phase # "down" /\ conn'[o].cut = conn[o].cut
      \/ conn[o].phase = "gone" /\ conn'[o].phase = "none" /\ ~conn'[o].joined
  BY DEF OpenSocket, DidConnect, ThreadEnds, ThreadCleanup, Links, Shape, Phases, Unborn
<1>3. Shape'
  BY <1>1, <1>2 DEF Links, Shape
<1>4. OnePerAddress'
  BY <1>1, <1>2, KeepsAddresses DEF Links
<1>5. SomeoneLeads'
  BY <1>1, <1>2, KeepsLeader DEF Links, Shape
<1>. QED
  BY <1>3, <1>4, <1>5 DEF Links

\* A peer that passed the handshake follows, leads, or is hung up on.
LEMMA PeerConnectedPreserves ==
    ASSUME Links, NEW o \in Objs, NEW services, PeerConnected(o, services)
    PROVE  Links'
<1>. DEFINE joined == [conn EXCEPT ![o].joined = TRUE]
<1>1. /\ joined \in [Objs -> [addr : Addrs \cup {None}, phase : Phases, cut : BOOLEAN,
                             joined : BOOLEAN]]
      /\ conn[o].phase = "up" /\ joined[o].phase = "up" /\ joined[o].joined
      /\ \A p \in Objs : /\ joined[p].phase = conn[p].phase
                         /\ joined[p].addr = conn[p].addr
                         /\ joined[p].cut = conn[p].cut
                         /\ p # o => joined[p] = conn[p]
  BY DEF PeerConnected, Links, Shape
<1>2. PICK S : conn' = Closed(joined, S) \/ conn' = joined
  BY DEF PeerConnected
<1>3. /\ conn' \in [Objs -> [addr : Addrs \cup {None}, phase : Phases, cut : BOOLEAN,
                            joined : BOOLEAN]]
      /\ \A p \in Objs : /\ conn'[p].phase = conn[p].phase
                         /\ conn'[p].addr = conn[p].addr
                         /\ conn'[p].joined = joined[p].joined
                         /\ conn[p].cut => conn'[p].cut
  <2>. HIDE DEF joined
  <2>1. CASE conn' = joined
    BY <1>1, <2>1
  <2>2. CASE conn' = Closed(joined, S)
    <3>1. /\ conn' \in [Objs -> [addr : Addrs \cup {None}, phase : Phases, cut : BOOLEAN,
                                 joined : BOOLEAN]]
          /\ \A p \in Objs : /\ conn'[p].phase = joined[p].phase
                             /\ conn'[p].addr = joined[p].addr
                             /\ conn'[p].joined = joined[p].joined
                             /\ joined[p].cut => conn'[p].cut
      BY <1>1, <2>2, ClosedKeeps
    <3>. QED
      BY <1>1, <3>1
  <2>. QED
    BY <1>2, <2>1, <2>2
<1>4. Shape'
  <2>. HIDE DEF joined
  <2>1. \A p \in Objs : conn[p].joined => conn[p].phase = "up"
    BY DEF Links, Shape
  <2>2. \A p \in Objs : joined[p].joined => joined[p].phase = "up"
    BY <1>1, <2>1
  <2>3. \A p \in Objs : conn'[p].joined => conn'[p].phase = "up"
    BY <1>1, <1>3, <2>2
  <2>. QED
    BY <1>3, <2>3 DEF Shape
<1>5. OnePerAddress'
  BY <1>3, KeepsAddresses DEF Links
<1>6. SomeoneLeads'
  <2>1. \/ conn' = Closed(joined, {o}) /\ download' = download
        \/ conn' = joined /\ download # None /\ download' = download
        \/ download' \in Up
    BY DEF PeerConnected, Best
  <2>2. CASE conn' = Closed(joined, {o}) /\ download' = download
    <3>1. conn'[o].cut
      <4>. HIDE DEF joined
      <4>. QED
        BY <1>1, <2>2, ClosedKeeps
    <3>. QED
      BY <1>1, <1>3, <2>2, <3>1, KeepsLeader DEF Links
  <2>3. CASE conn' = joined /\ download # None /\ download' = download
    BY <1>3, <2>3 DEF Links, SomeoneLeads, Listed
  <2>4. CASE download' \in Up
    BY <1>3, <2>4, DistinctThreads DEF SomeoneLeads, Listed, Up
  <2>. QED
    BY <2>1, <2>2, <2>3, <2>4
<1>. QED
  BY <1>4, <1>5, <1>6 DEF Links

\* What only closes sockets.
LEMMA ClosingPreserves ==
    ASSUME Links, NEW S, conn' = Closed(conn, S), download' = download
    PROVE  Links'
<1>1. /\ conn' \in [Objs -> [addr : Addrs \cup {None}, phase : Phases, cut : BOOLEAN,
                            joined : BOOLEAN]]
      /\ \A p \in Objs : /\ conn'[p].phase = conn[p].phase
                         /\ conn'[p].addr = conn[p].addr
                         /\ conn'[p].joined = conn[p].joined
                         /\ conn[p].cut => conn'[p].cut
  BY ClosedKeeps DEF Links, Shape
<1>2. Shape'
  BY <1>1 DEF Links, Shape
<1>3. OnePerAddress'
  BY <1>1, KeepsAddresses DEF Links
<1>4. SomeoneLeads'
  BY <1>1, KeepsLeader DEF Links
<1>. QED
  BY <1>2, <1>3, <1>4 DEF Links

\* Dials that waited are tried again: they keep their address and their place.
LEMMA EnterPreserves ==
    ASSUME Links, NEW t, NEW still, Enter(t, still)
    PROVE  Links'
<1>1. /\ download' = download
      /\ conn' \in [Objs -> [addr : Addrs \cup {None}, phase : Phases, cut : BOOLEAN,
                            joined : BOOLEAN]]
      /\ \A p \in Objs : \/ conn'[p] = conn[p]
                         \/ /\ conn[p].phase = "waiting"
                            /\ conn'[p].phase \in {"waiting", "started", "failed"}
                            /\ conn'[p].addr = conn[p].addr /\ conn'[p].joined = conn[p].joined
  BY DEF Enter, PhaseOf, Links, Shape, Phases
<1>2. Shape'
  BY <1>1 DEF Links, Shape
<1>3. OnePerAddress'
  BY <1>1, KeepsAddresses DEF Links
<1>4. SomeoneLeads'
  BY <1>1, KeepsLeader DEF Links
<1>. QED
  BY <1>2, <1>3, <1>4 DEF Links

\* A pass only proposes addresses nobody is connected to.
LEMMA NewAddress ==
    ASSUME known \subseteq Addrs,
           NEW call \in [at : Passes, any : BOOLEAN, pool : SUBSET Addrs],
           NEW dial \in NextDials(call)
    PROVE  /\ dial.addr \in Addrs /\ ~IsListed(dial.addr)
           /\ dial.next \in [at : Passes, any : BOOLEAN, pool : SUBSET Addrs]
<1>1. dial \in PinnedPass(call) \cup FilterPass(call) \cup AnyPass(call)
  BY DEF NextDials
<1>2. \A pool : ToDial(pool) = {a \in pool : ~IsListed(a)}
  BY DEF ToDial
<1>3. CASE dial \in PinnedPass(call)
  <2>1. PICK a \in ToDial(known \cap {Pinned}) :
          dial = [addr |-> a, next |-> [call EXCEPT !.at = "filters"]]
    BY <1>3 DEF PinnedPass
  <2>. QED
    BY <2>1, <1>2 DEF Passes
<1>4. CASE dial \in FilterPass(call)
  <2>1. PICK a \in ToDial(known \cap Filters) :
          dial = [addr |-> a, next |-> [call EXCEPT !.at = "filters"]]
    BY <1>4 DEF FilterPass
  <2>. QED
    BY <2>1, <1>2 DEF Passes
<1>5. CASE dial \in AnyPass(call)
  <2>. DEFINE copy == IF call.at = "any" THEN call.pool ELSE {a \in known : Wanted(a)}
              todo == ToDial(copy)
  <2>1. copy \subseteq Addrs
    OBVIOUS
  <2>2. PICK a \in todo :
          dial = [addr |-> a, next |-> [call EXCEPT !.at = "any", !.pool = todo \ {a}]]
    BY <1>5 DEF AnyPass
  <2>3. todo \subseteq Addrs /\ ~IsListed(a)
    BY <2>1, <1>2
  <2>. HIDE DEF todo
  <2>. QED
    BY <2>2, <2>3 DEF Passes
<1>. QED
  BY <1>1, <1>3, <1>4, <1>5

\* A dial takes an address nobody has, for an object nobody has.
LEMMA DialPreserves ==
    ASSUME Inv, NEW t \in Threads, Dial(t)
    PROVE  Links'
<1>1. /\ run[t] \in Seq(Calls) /\ run[t] # <<>> /\ Head(run[t]).at \in Passes
      /\ known \subseteq Addrs
  BY DistinctThreads DEF Inv, Places, Dial, Threads, Stacks
<1>2. Head(run[t]) \in [at : Passes, any : BOOLEAN, pool : SUBSET Addrs]
  <2>1. Head(run[t]) \in Calls
    BY <1>1
  <2>. QED
    BY <1>1, <2>1 DEF Calls, Passes
<1>3. PICK dial \in NextDials(Head(run[t])), o \in Spare :
        \E way \in Dials[dial.addr] :
          conn' = [conn EXCEPT ![o] = [Unborn EXCEPT !.addr = dial.addr, !.phase = PhaseOf(way)]]
  BY DEF Dial
<1>4. dial.addr \in Addrs /\ ~IsListed(dial.addr)
  BY <1>1, <1>2, NewAddress
<1>5. PICK r \in [addr : {dial.addr}, phase : Phases, cut : {FALSE}, joined : {FALSE}] :
        conn' = [conn EXCEPT ![o] = r]
  <2>1. PICK way : conn' = [conn EXCEPT ![o] = [Unborn EXCEPT !.addr = dial.addr,
                                                              !.phase = PhaseOf(way)]]
    BY <1>3
  <2>2. PhaseOf(way) \in Phases
    BY DEF PhaseOf, Phases
  <2>3. [Unborn EXCEPT !.addr = dial.addr, !.phase = PhaseOf(way)]
          \in [addr : {dial.addr}, phase : Phases, cut : {FALSE}, joined : {FALSE}]
    BY <2>2 DEF Unborn
  <2>. QED
    BY <2>1, <2>3
<1>6. o \in Objs /\ conn[o].phase = "none" /\ download' = download
  BY DEF Dial, Spare
<1>7. /\ conn' \in [Objs -> [addr : Addrs \cup {None}, phase : Phases, cut : BOOLEAN,
                            joined : BOOLEAN]]
      /\ \A p \in Objs : p # o => conn'[p] = conn[p]
      /\ conn'[o].addr = dial.addr /\ ~conn'[o].joined
  BY <1>4, <1>5, <1>6 DEF Inv, Links, Shape
<1>8. Shape'
  BY <1>6, <1>7 DEF Inv, Links, Shape
<1>9. OnePerAddress'
  BY <1>4, <1>6, <1>7 DEF Inv, Links, OnePerAddress, Listed, IsListed
<1>10. SomeoneLeads'
  BY <1>6, <1>7, KeepsLeader DEF Inv, Links
<1>. QED
  BY <1>8, <1>9, <1>10 DEF Links

----------------------------------------------------------------------------
(* Where threads are *)

\* What a call may be made from.
LEMMA StackOnTop ==
    ASSUME NEW s \in Stacks, NEW c \in Calls,
           c.at \in {"lost", "uncount"} => s # <<>> /\ Head(s).at \in Passes,
           c.at = "drain" => s = <<>>
    PROVE  <<c>> \o s \in Stacks
<1>. DEFINE n == <<c>> \o s
<1>1. s \in Seq(Calls) /\ Len(s) \in Nat /\ (s # <<>> => Len(s) > 0 /\ Head(s) = s[1])
      /\ (s = <<>> => Len(s) = 0)
  BY DEF Stacks
<1>2. /\ n \in Seq(Calls) /\ Len(n) = Len(s) + 1
      /\ \A i \in 1..Len(n) : n[i] = IF i = 1 THEN c ELSE s[i - 1]
  BY <1>1
<1>. HIDE DEF n
<1>3. ASSUME NEW i \in 1..Len(n)
      PROVE  /\ n[i].at \in {"lost", "uncount"} => i < Len(n) /\ n[i + 1].at \in Passes
             /\ n[i].at = "drain" => i = Len(n)
  <2>1. CASE i = 1
    <3>1. n[i] = c /\ (s # <<>> => i + 1 \in 1..Len(n) /\ n[i + 1] = s[1])
      BY <1>1, <1>2, <2>1
    <3>. QED
      BY <1>1, <1>2, <2>1, <3>1
  <2>2. CASE i # 1
    <3>1. i - 1 \in 1..Len(s) /\ n[i] = s[i - 1] /\ (i - 1) + 1 = i /\ (i + 1) - 1 = i
      BY <1>1, <1>2, <2>2
    <3>2. /\ s[i - 1].at \in {"lost", "uncount"} => i - 1 < Len(s) /\ s[i].at \in Passes
          /\ s[i - 1].at = "drain" => i - 1 = Len(s)
      BY <3>1 DEF Stacks
    <3>3. i - 1 < Len(s) => i + 1 \in 1..Len(n) /\ i + 1 # 1
      BY <1>1, <1>2, <3>1
    <3>4. i - 1 < Len(s) => n[i + 1] = s[i]
      BY <1>2, <3>1, <3>3
    <3>. QED
      BY <1>1, <1>2, <3>1, <3>2, <3>4
  <2>. QED
    BY <2>1, <2>2
<1>4. n \in Stacks
  BY <1>2, <1>3 DEF Stacks
<1>. QED
  BY <1>4 DEF n

\* What a call returns to.
LEMMA StackBelow ==
    ASSUME NEW s \in Stacks, s # <<>>
    PROVE  /\ Tail(s) \in Stacks /\ Tail(s) \in Seq(Calls)
           /\ Head(s).at \in {"lost", "uncount"} => Tail(s) # <<>> /\ Head(Tail(s)).at \in Passes
           /\ Head(s).at = "drain" => Tail(s) = <<>>
<1>1. /\ s \in Seq(Calls) /\ Tail(s) \in Seq(Calls) /\ Len(Tail(s)) = Len(s) - 1
      /\ Len(s) \in Nat \ {0} /\ \A i \in 1..(Len(s) - 1) : Tail(s)[i] = s[i + 1]
      /\ Head(s) = s[1]
  BY DEF Stacks
<1>2. ASSUME NEW i \in 1..(Len(s) - 1)
      PROVE  /\ Tail(s)[i].at \in {"lost", "uncount"} => i < Len(s) - 1 /\ Tail(s)[i + 1].at \in Passes
             /\ Tail(s)[i].at = "drain" => i = Len(s) - 1
  <2>1. i + 1 \in 1..Len(s) /\ Tail(s)[i] = s[i + 1]
    BY <1>1
  <2>2. /\ s[i + 1].at \in {"lost", "uncount"} => i + 1 < Len(s) /\ s[(i + 1) + 1].at \in Passes
        /\ s[i + 1].at = "drain" => i + 1 = Len(s)
    BY <2>1 DEF Stacks
  <2>3. i \in Nat /\ (i + 1 < Len(s) <=> i < Len(s) - 1)
        /\ (i + 1 = Len(s) <=> i = Len(s) - 1)
    BY <1>1
  <2>4. i < Len(s) - 1 => i + 1 \in 1..(Len(s) - 1)
    BY <1>1, <2>3
  <2>5. i < Len(s) - 1 => Tail(s)[i + 1] = s[(i + 1) + 1]
    BY <1>1, <2>4
  <2>. QED
    BY <2>1, <2>2, <2>3, <2>5
<1>3. Tail(s) \in Stacks
  BY <1>1, <1>2 DEF Stacks
<1>4. /\ s[1].at \in {"lost", "uncount"} => 1 < Len(s) /\ s[1 + 1].at \in Passes
      /\ s[1].at = "drain" => 1 = Len(s)
  <2>1. 1 \in 1..Len(s)
    BY <1>1
  <2>. QED
    BY <2>1 DEF Stacks
<1>5. 1 < Len(s) => Tail(s) # <<>> /\ Head(Tail(s)) = s[1 + 1]
  <2>. SUFFICES ASSUME 1 < Len(s) PROVE Tail(s) # <<>> /\ Head(Tail(s)) = s[1 + 1]
    OBVIOUS
  <2>1. 1 \in 1..(Len(s) - 1) /\ Len(Tail(s)) # 0
    BY <1>1, SMTT(60)
  <2>2. Tail(s)[1] = s[1 + 1]
    BY <1>1, <2>1
  <2>3. Tail(s) # <<>>
    <3>. DEFINE q == Tail(s)
    <3>1. Len(q) # 0
      BY <2>1
    <3>. HIDE DEF q
    <3>2. q # <<>>
      BY <3>1
    <3>. QED
      BY <3>2 DEF q
  <2>. QED
    BY <1>1, <2>2, <2>3
<1>6. Len(s) = 1 => Tail(s) = <<>>
  <2>. SUFFICES ASSUME Len(s) = 1 PROVE Tail(s) = <<>>
    OBVIOUS
  <2>. DEFINE q == Tail(s)
  <2>1. q \in Seq(Calls) /\ Len(q) = 0
    BY <1>1
  <2>. HIDE DEF q
  <2>2. q = <<>>
    BY <2>1
  <2>. QED
    BY <2>2 DEF q
<1>. QED
  BY <1>1, <1>3, <1>4, <1>5, <1>6

\* Two calls are begun one after the other.
LEMMA TwoCalls ==
    ASSUME NEW c \in Calls, NEW d \in Calls, NEW q \in Seq(Calls)
    PROVE  <<c, d>> \o q = <<c>> \o (<<d>> \o q)
<1>. DEFINE p == <<d>> \o q
            s == <<c, d>> \o q
            r == <<c>> \o p
<1>1. /\ s \in Seq(Calls) /\ Len(s) = Len(q) + 2 /\ Len(q) \in Nat
      /\ \A i \in 1..Len(s) : s[i] = IF i = 1 THEN c ELSE IF i = 2 THEN d ELSE q[i - 2]
  OBVIOUS
<1>2. /\ p \in Seq(Calls) /\ Len(p) = Len(q) + 1
      /\ \A i \in 1..Len(p) : p[i] = IF i = 1 THEN d ELSE q[i - 1]
  OBVIOUS
<1>. HIDE DEF p, s
<1>3. /\ r \in Seq(Calls) /\ Len(r) = Len(q) + 2
      /\ \A i \in 1..Len(r) : r[i] = IF i = 1 THEN c ELSE p[i - 1]
  BY <1>1, <1>2
<1>4. \A i \in 1..Len(r) : r[i] = IF i = 1 THEN c ELSE IF i = 2 THEN d ELSE q[i - 2]
  BY <1>1, <1>2, <1>3
<1>. HIDE DEF r
<1>5. s = r
  <2>1. Len(s) = Len(r) /\ \A i \in 1..Len(s) : s[i] = r[i]
    BY <1>1, <1>3, <1>4
  <2>. QED
    BY <1>1, <1>3, <2>1, SeqEqual
<1>. QED
  BY <1>5 DEF p, s, r

\* Calls a thread may be in after a call began, went on, or returned.
LEMMA StackMoves ==
    ASSUME NEW s \in Stacks
    PROVE  /\ s \in Seq(Calls) /\ <<>> \in Stacks
           /\ \A c \in Calls : c.at \notin {"lost", "uncount", "drain"} => <<c>> \o s \in Stacks
           /\ s # <<>> =>
                /\ Tail(s) \in Stacks
                /\ Head(s).at = "lost" => <<[at |-> "uncount"]>> \o Tail(s) \in Stacks
                /\ Head(s).at = "uncount" => Tail(s) # <<>> /\ Head(Tail(s)).at \in Passes
                /\ \A c, d \in Calls : c.at = "lost" /\ d.at \in Passes =>
                      <<c, d>> \o Tail(s) \in Stacks
<1>1. s \in Seq(Calls) /\ <<>> \in Stacks
  BY DEF Stacks
<1>2. \A c \in Calls : c.at \notin {"lost", "uncount", "drain"} => <<c>> \o s \in Stacks
  BY StackOnTop
<1>3. ASSUME s # <<>>, Head(s).at = "lost" PROVE <<[at |-> "uncount"]>> \o Tail(s) \in Stacks
  <2>1. [at |-> "uncount"] \in Calls
    BY DEF Calls
  <2>2. Tail(s) \in Stacks /\ Tail(s) # <<>> /\ Head(Tail(s)).at \in Passes
    BY <1>3, StackBelow
  <2>. QED
    BY <2>1, <2>2, StackOnTop
<1>4. ASSUME s # <<>>, NEW c \in Calls, NEW d \in Calls, c.at = "lost", d.at \in Passes
      PROVE  <<c, d>> \o Tail(s) \in Stacks
  <2>. DEFINE q == Tail(s)
  <2>1. q \in Stacks /\ q \in Seq(Calls)
    BY <1>4, StackBelow
  <2>. HIDE DEF q
  <2>2. <<d>> \o q \in Stacks
    BY <1>4, <2>1, StackOnTop DEF Passes
  <2>3. <<d>> \o q # <<>> /\ Head(<<d>> \o q) = d
    BY <2>1
  <2>4. <<c>> \o (<<d>> \o q) \in Stacks
    BY <1>4, <2>2, <2>3, StackOnTop
  <2>5. <<c, d>> \o q = <<c>> \o (<<d>> \o q)
    BY <2>1, TwoCalls
  <2>. QED
    BY <2>4, <2>5 DEF q
<1>. QED
  BY <1>1, <1>2, <1>3, <1>4, StackBelow

\* A thread that returns from a call, or enters one, keeps to its discipline.
LEMMA RunMoves ==
    ASSUME NEW r \in [Threads -> Stacks], NEW t \in Threads
    PROVE  /\ \A s \in Stacks : [r EXCEPT ![t] = s] \in [Threads -> Stacks]
           /\ r[t] # <<>> => /\ Tail(r[t]) \in Stacks
                             /\ \A c \in Calls : c.at \notin {"lost", "uncount", "drain"} =>
                                    <<c>> \o Tail(r[t]) \in Stacks
<1>1. \A s \in Stacks : [r EXCEPT ![t] = s] \in [Threads -> Stacks]
  OBVIOUS
<1>2. r[t] # <<>> => Tail(r[t]) \in Stacks
  BY StackMoves
<1>. QED
  BY <1>1, <1>2, StackMoves

\* A thread that begins a call while nobody holds the lock, and leaves it free.
LEMMA UnlockedPlaces ==
    ASSUME Places, lock' = None, known' \subseteq Addrs, cap' \in Caps \cup {0},
           run' \in [Threads -> Stacks]
    PROVE  Places'
BY DEF Places

\* A step that leaves the calls and the lock alone.
LEMMA SamePlaces ==
    ASSUME Places, UNCHANGED <<run, lock, cap>>, known' \subseteq Addrs
    PROVE  Places'
BY DEF Places

\* Where a call of Connect begins to dial.
LEMMA PlaceIsCall ==
    \A any \in BOOLEAN : /\ Place(any) \in Calls /\ Place(any).at \in Passes
                          /\ Place(any).at \notin {"lost", "uncount", "drain"}
BY DEF Place, Calls, Passes

\* The lost connection of a thread; it may begin a call of Connect.
LEMMA LosePlaces ==
    ASSUME Places, NEW t \in Threads, NEW o, NEW error, NEW after \in Stacks,
           Lose(t, o, error, after)
    PROVE  Places'
<1>1. lock' = None /\ known' \subseteq Addrs /\ cap' \in Caps \cup {0}
  BY DEF Lose, PoolWithout, Places
<1>2. \A b \in BOOLEAN : (IF b THEN <<[at |-> "begin"]>> ELSE <<>>) \o after \in Stacks
  <2>1. [at |-> "begin"] \in Calls /\ after \in Seq(Calls)
    BY StackMoves DEF Calls
  <2>2. <<>> \o after = after
    BY <2>1
  <2>3. <<[at |-> "begin"]>> \o after \in Stacks
    BY <2>1, StackMoves
  <2>. QED
    BY <2>2, <2>3
<1>3. PICK b \in BOOLEAN :
        run' = [run EXCEPT ![t] = (IF b THEN <<[at |-> "begin"]>> ELSE <<>>) \o after]
  BY DEF Lose
<1>4. run' \in [Threads -> Stacks]
  BY <1>2, <1>3, RunMoves DEF Places
<1>. QED
  BY <1>1, <1>4, UnlockedPlaces

\* A call that goes on, or begins to dial with the lock.
LEMMA GoesOn ==
    ASSUME Places, NEW t \in Threads, run[t] # <<>>, known' \subseteq Addrs, cap' = cap,
           NEW c \in Calls, c.at \notin {"lost", "uncount", "drain"}, Goes(t, c),
           lock' = None \/ (lock' = t /\ c.at \in Passes)
    PROVE  Places'
<1>1. run' = [run EXCEPT ![t] = <<c>> \o Tail(run[t])]
  BY DEF Goes
<1>2. Tail(run[t]) \in Seq(Calls) /\ <<c>> \o Tail(run[t]) \in Stacks
  BY RunMoves, StackMoves DEF Places
<1>3. run' \in [Threads -> Stacks] /\ run'[t] = <<c>> \o Tail(run[t])
  BY <1>1, <1>2, RunMoves DEF Places
<1>4. run'[t] # <<>> /\ Head(run'[t]) = c
  BY <1>2, <1>3
<1>. QED
  BY <1>3, <1>4 DEF Places

\* A thread that passes the door of Connect.
LEMMA EnterPlaces ==
    ASSUME Places, NEW t \in Threads, NEW still, run[t] # <<>>, lock = None, Enter(t, still)
    PROVE  Places'
<1>1. [at |-> "found"] \in Calls
  BY DEF Calls
<1>2. /\ known' = known /\ cap' = cap
      /\ \/ lock' = t /\ Goes(t, Place(FALSE))
         \/ lock' = lock /\ Goes(t, [at |-> "found"])
  BY DEF Enter
<1>3. CASE lock' = t /\ Goes(t, Place(FALSE))
  BY <1>2, <1>3, PlaceIsCall, GoesOn DEF Places
<1>4. CASE lock' = lock /\ Goes(t, [at |-> "found"])
  BY <1>1, <1>2, <1>4, GoesOn DEF Places
<1>. QED
  BY <1>2, <1>3, <1>4

\* A step of Connect on thread t.
LEMMA ConnectPlaces ==
    ASSUME Places, NEW t \in Threads, OfConnect(t)
    PROVE  Places'
<1>. USE DEF At
<1>1. ASSUME NEW still, Notified(t, still) PROVE Places'
  BY <1>1, EnterPlaces DEF Notified
<1>2. ASSUME NEW behind, NEW still, Begin(t, behind, still) PROVE Places'
  <2>1. CASE Enter(t, still)
    BY <1>2, <2>1, EnterPlaces DEF Begin
  <2>2. CASE Goes(t, [at |-> "notified"]) /\ UNCHANGED <<known, cap, lock>>
    <3>1. [at |-> "notified"] \in Calls
      BY DEF Calls
    <3>. QED
      BY <1>2, <2>2, <3>1, GoesOn DEF Begin, Places
  <2>. QED
    BY <1>2, <2>1, <2>2 DEF Begin
<1>3. CASE Found(t)
  BY <1>3, PlaceIsCall, GoesOn DEF Found, Places
<1>4. CASE EndConnect(t)
  <2>1. lock = t /\ run[t] # <<>>
    BY <1>4, DistinctThreads DEF EndConnect, Places, Threads
  <2>2. run' = [run EXCEPT ![t] = Tail(run[t])] /\ Tail(run[t]) \in Stacks
    BY <1>4, <2>1, RunMoves DEF EndConnect, Places
  <2>3. run' \in [Threads -> Stacks]
    BY <2>2, RunMoves DEF Places
  <2>. QED
    BY <1>4, <2>3, UnlockedPlaces DEF EndConnect, Places
<1>5. CASE DialNotStarted(t)
  <2>1. run[t] # <<>> /\ Head(run[t]).at = "lost" /\ run[t] \in Stacks
    BY <1>5 DEF DialNotStarted, Places
  <2>2. <<[at |-> "uncount"]>> \o Tail(run[t]) \in Stacks
    BY <2>1, StackMoves
  <2>. QED
    BY <1>5, <2>2, LosePlaces DEF DialNotStarted
<1>6. CASE Dial(t)
  <2>1. /\ lock = t /\ run[t] # <<>> /\ Head(run[t]).at \in Passes /\ run[t] \in Seq(Calls)
    BY <1>6, DistinctThreads DEF Dial, Places, Threads, Stacks
  <2>2. Head(run[t]) \in [at : Passes, any : BOOLEAN, pool : SUBSET Addrs]
    <3>1. Head(run[t]) \in Calls
      BY <2>1
    <3>. QED
      BY <2>1, <3>1 DEF Calls, Passes
  <2>3. PICK dial \in NextDials(Head(run[t])), o \in Spare :
          \/ lock' = None /\ run' = [run EXCEPT ![t] = <<[at |-> "lost", obj |-> o], dial.next>>
                                                       \o Tail(run[t])]
          \/ lock' = lock /\ Goes(t, dial.next)
    BY <1>6 DEF Dial
  <2>4. /\ dial.next \in [at : Passes, any : BOOLEAN, pool : SUBSET Addrs]
        /\ dial.next \in Calls /\ dial.next.at \in Passes
    <3>1. dial.next \in [at : Passes, any : BOOLEAN, pool : SUBSET Addrs]
      BY <2>2, NewAddress DEF Places
    <3>. QED
      BY <3>1 DEF Calls, Passes
  <2>5. known' \subseteq Addrs /\ cap' = cap /\ cap' \in Caps \cup {0}
    BY <1>6 DEF Dial, Places
  <2>6. CASE lock' = None /\ run' = [run EXCEPT ![t] = <<[at |-> "lost", obj |-> o], dial.next>>
                                                         \o Tail(run[t])]
    <3>. DEFINE c == [at |-> "lost", obj |-> o]
    <3>1. c \in Calls /\ c.at = "lost"
      BY DEF Calls, Spare
    <3>. HIDE DEF c
    <3>2. run[t] \in Stacks /\ <<c, dial.next>> \o Tail(run[t]) \in Stacks
      BY <2>1, <2>4, <3>1, StackMoves DEF Places
    <3>3. run' \in [Threads -> Stacks]
      BY <2>6, <3>2, RunMoves DEF Places, c
    <3>. QED
      BY <2>5, <2>6, <3>3, UnlockedPlaces
  <2>7. CASE lock' = lock /\ Goes(t, dial.next)
    BY <2>1, <2>4, <2>5, <2>7, GoesOn DEF Passes
  <2>. QED
    BY <2>3, <2>6, <2>7
<1>7. CASE Uncount(t)
  <2>1. lock = None /\ lock' = t /\ run[t] # <<>> /\ run' = [run EXCEPT ![t] = Tail(run[t])]
    BY <1>7 DEF Uncount
  <2>2. run[t] \in Stacks /\ Head(run[t]).at = "uncount"
    BY <1>7 DEF Uncount, Places
  <2>3. Tail(run[t]) \in Stacks /\ Tail(run[t]) # <<>> /\ Head(Tail(run[t])).at \in Passes
    BY <2>1, <2>2, StackMoves
  <2>4. run' \in [Threads -> Stacks] /\ run'[t] = Tail(run[t])
    BY <2>1, <2>3, RunMoves DEF Places
  <2>. QED
    BY <1>7, <2>1, <2>3, <2>4 DEF Places, Uncount
<1>. QED
  BY <1>1, <1>2, <1>3, <1>4, <1>5, <1>6, <1>7 DEF OfConnect

\* A step of a peer's thread, a message of it included.
LEMMA PeerPlaces ==
    ASSUME Places, NEW o \in Objs, OfPeer(o)
    PROVE  Places'
<1>1. CASE OpenSocket(o) \/ DidConnect(o) \/ ThreadEnds(o) \/ ThreadCleanup(o)
  BY <1>1, SamePlaces DEF OpenSocket, DidConnect, ThreadEnds, ThreadCleanup, Places
<1>2. CASE PostSyncDone(o) \/ \E last \in BOOLEAN : RelayedBlock(o, last)
  BY <1>2, SamePlaces DEF PostSyncDone, RelayedBlock, Places
<1>3. CASE PeerMisbehavin(o)
  BY <1>3, SamePlaces DEF PeerMisbehavin, PoolWithout, Places
<1>4. ASSUME NEW services, PeerConnected(o, services) PROVE Places'
  BY <1>4, SamePlaces DEF PeerConnected, Places
<1>5. ASSUME NEW error, PeerDisconnected(o, error) PROVE Places'
  <2>1. o \in Threads /\ <<>> \in Stacks
    BY DEF Threads, Stacks
  <2>. QED
    BY <1>5, <2>1, LosePlaces DEF PeerDisconnected
<1>6. ASSUME NEW a \in Filters, RelayedPeer(o, a) PROVE Places'
  BY <1>6, SmallPool, SamePlaces DEF RelayedPeer, Places
<1>. QED
  BY <1>1, <1>2, <1>3, <1>4, <1>5, <1>6 DEF OfPeer

\* The steps of a peer's thread keep the lists of peers and the download peer sound.
LEMMA PeerLinks ==
    ASSUME Links, NEW o \in Objs, OfPeer(o)
    PROVE  Links'
<1>1. CASE OpenSocket(o) \/ DidConnect(o) \/ ThreadEnds(o) \/ ThreadCleanup(o)
  BY <1>1, OwnStepsPreserve
<1>2. CASE PostSyncDone(o) \/ (\E last \in BOOLEAN : RelayedBlock(o, last))
           \/ (\E a \in Filters : RelayedPeer(o, a))
  BY <1>2, Untouched DEF PostSyncDone, RelayedBlock, RelayedPeer
<1>3. CASE PeerMisbehavin(o)
  BY <1>3, ClosingPreserves DEF PeerMisbehavin
<1>4. ASSUME NEW services, PeerConnected(o, services) PROVE Links'
  BY <1>4, PeerConnectedPreserves
<1>5. ASSUME NEW error, PeerDisconnected(o, error) PROVE Links'
  BY <1>5, LosePreserves DEF PeerDisconnected
<1>. QED
  BY <1>1, <1>2, <1>3, <1>4, <1>5 DEF OfPeer

\* So do the steps of Connect ...
LEMMA ConnectLinks ==
    ASSUME Inv, NEW t \in Threads, OfConnect(t)
    PROVE  Links'
<1>1. ASSUME NEW still, Notified(t, still) PROVE Links'
  BY <1>1, EnterPreserves DEF Notified, Inv
<1>2. ASSUME NEW behind, NEW still, Begin(t, behind, still) PROVE Links'
  <2>1. CASE Enter(t, still)
    BY <2>1, EnterPreserves DEF Inv
  <2>2. CASE UNCHANGED <<conn, download>>
    BY <2>2, Untouched DEF Inv
  <2>. QED
    BY <1>2, <2>1, <2>2 DEF Begin
<1>3. CASE Found(t) \/ EndConnect(t) \/ Uncount(t)
  BY <1>3, Untouched DEF Found, EndConnect, Uncount, Inv
<1>4. CASE DialNotStarted(t)
  BY <1>4, LosePreserves DEF DialNotStarted, Inv
<1>5. CASE Dial(t)
  BY <1>5, DialPreserves
<1>. QED
  BY <1>1, <1>2, <1>3, <1>4, <1>5 DEF OfConnect

\* ... and the calls of the application and of a lookup.
LEMMA CallLinks ==
    ASSUME Links, OfCallers
    PROVE  Links'
<1>1. CASE Disconnect
  BY <1>1, ClosingPreserves DEF Disconnect
<1>2. ASSUME NEW height, Rescan(height) PROVE Links'
  BY <1>2, ClosingPreserves DEF Rescan
<1>3. CASE UNCHANGED <<conn, download>>
  BY <1>3, Untouched
<1>. QED
  BY <1>1, <1>2, <1>3 DEF OfCallers, Lookup, Connect, Free, AddPeer, SetMaxConnectCount, Disconnected

\* A call of the application begins on a thread that is in no call.
LEMMA CallPlaces ==
    ASSUME Places, OfCallers
    PROVE  Places'
<1>1. App \in Threads /\ <<>> \in Stacks
  BY DEF Threads, Stacks
<1>2. ASSUME NEW c \in Calls, c.at \notin {"lost", "uncount"} PROVE <<c>> \in Stacks
  <2>1. <<c>> \in Seq(Calls) /\ Len(<<c>>) = 1 /\ <<c>>[1] = c
    OBVIOUS
  <2>. QED
    BY <1>2, <2>1 DEF Stacks
<1>3. <<[at |-> "begin"]>> \in Stacks
  <2>1. [at |-> "begin"] \in Calls
    BY DEF Calls
  <2>. QED
    BY <2>1, <1>2
<1>4. <<[at |-> "drain", cap |-> cap]>> \in Stacks
  <2>. DEFINE d == [at |-> "drain", cap |-> cap]
  <2>1. d \in Calls /\ d.at \notin {"lost", "uncount"}
    BY DEF Calls, Places
  <2>. HIDE DEF d
  <2>2. <<d>> \in Stacks
    BY <2>1, <1>2
  <2>. QED
    BY <2>2 DEF d
<1>5. \A s \in Stacks : [run EXCEPT ![App] = s] \in [Threads -> Stacks]
  BY <1>1, RunMoves DEF Places
<1>6. ASSUME NEW answer \in SUBSET Filters, Lookup(answer) PROVE Places'
  BY <1>6, SmallPool, SamePlaces DEF Lookup, Places
<1>7. ASSUME NEW a \in Addrs, AddPeer(a) PROVE Places'
  BY <1>7, SamePlaces DEF AddPeer, Places
<1>8. CASE Free
  BY <1>8 DEF Free, Places
<1>9. CASE Connect
  <2>1. run' \in [Threads -> Stacks] /\ \A t \in Threads : t # App => run'[t] = run[t]
    BY <1>1, <1>3, <1>5, <1>9 DEF Connect, Places
  <2>2. run[App] = <<>>
    BY <1>9 DEF Connect, Calling
  <2>. QED
    BY <1>9, <2>1, <2>2 DEF Connect, Places
<1>10. ASSUME NEW n \in Caps, SetMaxConnectCount(n) PROVE Places'
  <2>1. run' \in [Threads -> Stacks]
    BY <1>3, <1>5, <1>10 DEF SetMaxConnectCount, Places
  <2>. QED
    BY <1>10, <2>1, UnlockedPlaces DEF SetMaxConnectCount, Places
<1>11. ASSUME NEW height, Rescan(height) PROVE Places'
  <2>1. run' \in [Threads -> Stacks]
    BY <1>3, <1>5, <1>11 DEF Rescan
  <2>. QED
    BY <1>11, <2>1, UnlockedPlaces DEF Rescan, Places
<1>12. CASE Disconnect
  <2>1. run' \in [Threads -> Stacks]
    BY <1>4, <1>5, <1>12 DEF Disconnect
  <2>. QED
    BY <1>12, <2>1, UnlockedPlaces DEF Disconnect, Places
<1>13. ASSUME NEW inTime, Disconnected(inTime) PROVE Places'
  <2>1. run' \in [Threads -> Stacks]
    BY <1>1, <1>5, <1>13 DEF Disconnected
  <2>2. Head(run[App]) \in Calls /\ Head(run[App]).at = "drain"
    <3>1. run[App] # <<>> /\ Head(run[App]).at = "drain"
      BY <1>13 DEF Disconnected, At
    <3>2. run[App] \in Seq(Calls)
      BY <1>1, StackMoves DEF Places
    <3>. QED
      BY <3>1, <3>2
  <2>3. cap' \in Caps \cup {0}
    BY <1>13, <2>2 DEF Disconnected, Calls
  <2>. QED
    BY <1>13, <2>1, <2>3, UnlockedPlaces DEF Disconnected, Places
<1>. QED
  BY <1>6, <1>7, <1>8, <1>9, <1>10, <1>11, <1>12, <1>13 DEF OfCallers

----------------------------------------------------------------------------

\* Every step preserves the invariant.
LEMMA NextPreserves == Inv /\ [Next]_vars => Inv'
<1>. SUFFICES ASSUME Inv, [Next]_vars PROVE Links' /\ Places'
  BY DEF Inv
<1>1. ASSUME NEW o \in Objs, OfPeer(o) PROVE Links' /\ Places'
  BY <1>1, PeerLinks, PeerPlaces DEF Inv
<1>2. ASSUME NEW t \in Threads, OfConnect(t) PROVE Links' /\ Places'
  BY <1>2, ConnectLinks, ConnectPlaces DEF Inv
<1>3. CASE OfCallers
  BY <1>3, CallLinks, CallPlaces DEF Inv
<1>4. CASE UNCHANGED vars
  BY <1>4, Untouched, SamePlaces DEF vars, Inv, Places
<1>. QED
  <2>1. CASE Next
    <3>1. \/ \E o \in Objs : OfPeer(o)
          \/ \E t \in Threads : OfConnect(t)
          \/ OfCallers \/ UNCHANGED vars
      BY <2>1 DEF Next, Freed
    <3>. QED
      BY <1>1, <1>2, <1>3, <1>4, <3>1
  <2>. QED
    BY <1>4, <2>1

\* However calls of Connect, lookups and lost connections interleave, no address is
\* connected to twice.
THEOREM NoAddressTwice == Spec => []OnePerAddress
<1>1. Inv => OnePerAddress
  BY DEF Inv, Links
<1>. QED
  BY InitEstablishes, NextPreserves, <1>1, PTL DEF Spec

\* The download peer is never a released object, and a follower that is still usable is
\* promoted when the leader is lost.
THEOREM DownloadHasALeader == Spec => []SomeoneLeads
<1>1. Inv => SomeoneLeads
  BY DEF Inv, Links
<1>. QED
  BY InitEstablishes, NextPreserves, <1>1, PTL DEF Spec

----------------------------------------------------------------------------
(* The threads, counted *)

\* The dials of a thread that are being taken back, and those of all threads.
Marked(c) == c.at \in {"lost", "uncount"}
Marks(s)  == {i \in DOMAIN s : s[i].at \in {"lost", "uncount"}}
Back(r)   == UNION {{u} \X Marks(r[u]) : u \in Threads}

\* Objects with a thread, or a dial that waits for the network.
Bodies == {o \in Objs : conn[o].phase \notin {"none", "failed"}}

\* A dial that failed is the object of one call that handles it, and a peer's
\* thread is in calls of the manager only after its connection was lost.
Frames ==
    /\ \A t \in Threads : \A i \in DOMAIN run[t] : run[t][i].at = "lost" => i = 1
    /\ \A t \in Threads : At(t, "lost") => /\ Head(run[t]).obj \in Objs
                                           /\ conn[Head(run[t]).obj].phase = "failed"
    /\ \A t, u \in Threads : At(t, "lost") /\ At(u, "lost") /\ Head(run[t]).obj = Head(run[u]).obj
                               => t = u
    /\ \A o \in Objs : conn[o].phase = "failed" =>
          \E t \in Threads : At(t, "lost") /\ Head(run[t]).obj = o
    /\ \A o \in Objs : run[o] # <<>> => conn[o].phase = "gone"

----------------------------------------------------------------------------
(* Counting *)

\* The calls of one thread are finitely many, and a call on top adds itself.
LEMMA MarksFinite ==
    ASSUME NEW s \in Seq(Calls)
    PROVE  /\ IsFiniteSet(Marks(s)) /\ Cardinality(Marks(s)) \in Nat
           /\ Marks(s) \subseteq 1..Len(s) /\ Marks(s) \subseteq Nat \ {0}
<1>1. Marks(s) \subseteq 1..Len(s) /\ Len(s) \in Nat
  BY DEF Marks
<1>2. IsFiniteSet(1..Len(s))
  BY <1>1, FS_Interval
<1>3. IsFiniteSet(Marks(s))
  BY <1>1, <1>2, FS_Subset
<1>. QED
  BY <1>1, <1>3, FS_CardinalityType

\* A call entered adds to the dials taken back only when it is the count of one ...
LEMMA MarksOnTop ==
    ASSUME NEW s \in Seq(Calls), NEW c \in Calls
    PROVE  Cardinality(Marks(<<c>> \o s)) = Cardinality(Marks(s)) + IF Marked(c) THEN 1 ELSE 0
<1>. DEFINE n    == <<c>> \o s
            rest == Marks(n) \ {1}
            f    == [i \in Marks(s) |-> i + 1]
<1>1. /\ n \in Seq(Calls) /\ Len(n) = Len(s) + 1 /\ Len(s) \in Nat
      /\ \A i \in 1..Len(n) : n[i] = IF i = 1 THEN c ELSE s[i - 1]
      /\ DOMAIN n = 1..Len(n) /\ DOMAIN s = 1..Len(s)
  OBVIOUS
<1>. HIDE DEF n
<1>2. IsFiniteSet(Marks(s)) /\ IsFiniteSet(Marks(n)) /\ Cardinality(Marks(n)) \in Nat
      /\ Cardinality(Marks(s)) \in Nat
  BY <1>1, MarksFinite
<1>3. \A i \in Marks(s) : i \in 1..Len(s) /\ i + 1 \in rest
  <2>. SUFFICES ASSUME NEW i \in Marks(s) PROVE i \in 1..Len(s) /\ i + 1 \in rest
    OBVIOUS
  <2>1. i \in 1..Len(s) /\ s[i].at \in {"lost", "uncount"}
    BY <1>1 DEF Marks
  <2>2. i + 1 \in 1..Len(n) /\ i + 1 # 1 /\ (i + 1) - 1 = i
    BY <1>1, <2>1
  <2>3. n[i + 1] = s[i]
    BY <1>1, <2>2
  <2>. QED
    BY <1>1, <2>1, <2>2, <2>3 DEF Marks
<1>4. \A j \in rest : j - 1 \in Marks(s) /\ (j - 1) + 1 = j
  <2>. SUFFICES ASSUME NEW j \in rest PROVE j - 1 \in Marks(s) /\ (j - 1) + 1 = j
    OBVIOUS
  <2>1. j \in 1..Len(n) /\ j # 1 /\ n[j].at \in {"lost", "uncount"}
    BY <1>1 DEF Marks
  <2>2. j - 1 \in 1..Len(s) /\ (j - 1) + 1 = j
    BY <1>1, <2>1
  <2>3. n[j] = s[j - 1]
    BY <1>1, <2>1
  <2>. QED
    BY <1>1, <2>1, <2>2, <2>3 DEF Marks
<1>5. f \in Bijection(Marks(s), rest)
  <2>1. f \in [Marks(s) -> rest]
    BY <1>3
  <2>2. \A i, j \in Marks(s) : f[i] = f[j] => i = j
    BY <1>3
  <2>3. \A j \in rest : \E i \in Marks(s) : f[i] = j
    BY <1>4
  <2>. QED
    BY <2>1, <2>2, <2>3 DEF Bijection, Injection, Surjection, IsInjective
<1>6. Cardinality(rest) = Cardinality(Marks(s))
  BY <1>2, <1>5, FS_Bijection DEF ExistsBijection
<1>7. 1 \in Marks(n) <=> Marked(c)
  BY <1>1 DEF Marks, Marked
<1>8. Cardinality(rest) = IF 1 \in Marks(n) THEN Cardinality(Marks(n)) - 1
                          ELSE Cardinality(Marks(n))
  BY <1>2, FS_RemoveElement
<1>9. Cardinality(Marks(n)) = Cardinality(Marks(s)) + IF Marked(c) THEN 1 ELSE 0
  BY <1>2, <1>6, <1>7, <1>8
<1>. QED
  BY <1>9 DEF n

\* ... and a call returned from removes no more than itself.
LEMMA MarksBelow ==
    ASSUME NEW s \in Seq(Calls), s # <<>>
    PROVE  Cardinality(Marks(s)) = Cardinality(Marks(Tail(s))) + IF Marked(Head(s)) THEN 1 ELSE 0
<1>1. Tail(s) \in Seq(Calls) /\ Head(s) \in Calls /\ s = <<Head(s)>> \o Tail(s)
  OBVIOUS
<1>. QED
  BY <1>1, MarksOnTop

\* Only finitely many dials are being taken back.
LEMMA BackFinite ==
    ASSUME NEW r \in [Threads -> Stacks]
    PROVE  IsFiniteSet(Back(r)) /\ Cardinality(Back(r)) \in Nat
<1>. DEFINE of(u) == {u} \X Marks(r[u])
            all   == {of(u) : u \in Threads}
            f     == [u \in Threads |-> of(u)]
<1>1. IsFiniteSet(Threads)
  BY DistinctThreads, FS_AddElement DEF Threads
<1>2. f \in Surjection(Threads, all)
  BY DEF Surjection
<1>3. IsFiniteSet(all)
  BY <1>1, <1>2, FS_Surjection
<1>4. ASSUME NEW u \in Threads PROVE IsFiniteSet(of(u))
  <2>1. IsFiniteSet(Marks(r[u]))
    BY MarksFinite, StackMoves
  <2>2. [i \in Marks(r[u]) |-> <<u, i>>] \in Surjection(Marks(r[u]), of(u))
    BY DEF Surjection
  <2>. QED
    BY <2>1, <2>2, FS_Surjection
<1>5. IsFiniteSet(UNION all)
  <2>1. \A T \in all : IsFiniteSet(T)
    BY <1>4
  <2>. HIDE DEF all
  <2>. QED
    BY <1>3, <2>1, FS_UNION
<1>6. IsFiniteSet(Back(r))
  BY <1>5 DEF Back
<1>. QED
  BY <1>6, FS_CardinalityType

\* What one thread's calls contribute.
LEMMA BackOf ==
    ASSUME NEW r \in [Threads -> Stacks], NEW t \in Threads
    PROVE  LET rest == {p \in Back(r) : p[1] # t}
           IN  /\ IsFiniteSet(rest) /\ Cardinality(rest) \in Nat
               /\ Cardinality(Back(r)) = Cardinality(rest) + Cardinality(Marks(r[t]))
<1>. DEFINE rest == {p \in Back(r) : p[1] # t}
            mine == {t} \X Marks(r[t])
            f    == [i \in Marks(r[t]) |-> <<t, i>>]
<1>1. IsFiniteSet(Back(r)) /\ Cardinality(Back(r)) \in Nat
  BY BackFinite
<1>2. IsFiniteSet(rest) /\ Cardinality(rest) \in Nat
  <2>1. rest \subseteq Back(r)
    OBVIOUS
  <2>2. IsFiniteSet(rest)
    BY <1>1, <2>1, FS_Subset
  <2>. QED
    BY <2>2, FS_CardinalityType
<1>3. IsFiniteSet(Marks(r[t])) /\ Cardinality(Marks(r[t])) \in Nat
  BY MarksFinite, StackMoves
<1>4. f \in Bijection(Marks(r[t]), mine)
  <2>1. f \in [Marks(r[t]) -> mine]
    OBVIOUS
  <2>2. \A i, j \in Marks(r[t]) : f[i] = f[j] => i = j
    OBVIOUS
  <2>3. \A p \in mine : \E i \in Marks(r[t]) : f[i] = p
    OBVIOUS
  <2>. HIDE DEF f, mine
  <2>. QED
    BY <2>1, <2>2, <2>3 DEF Bijection, Injection, Surjection, IsInjective
<1>5. IsFiniteSet(mine) /\ Cardinality(mine) = Cardinality(Marks(r[t]))
  BY <1>3, <1>4, FS_Bijection DEF ExistsBijection
<1>6. Back(r) = rest \cup mine
  <2>1. mine \subseteq Back(r)
    BY DEF Back
  <2>2. \A p \in Back(r) : p[1] = t => p \in mine
    BY DEF Back
  <2>. QED
    BY <2>1, <2>2
<1>7. rest \cap mine = {}
  OBVIOUS
<1>8. Cardinality(Back(r)) = Cardinality(rest) + Cardinality(mine) - Cardinality({})
  <2>. HIDE DEF rest, mine
  <2>. QED
    BY <1>2, <1>5, <1>6, <1>7, FS_Union
<1>9. Cardinality({}) = 0
  BY FS_EmptySet
<1>10. Cardinality(Back(r)) = Cardinality(rest) + Cardinality(Marks(r[t]))
  <2>. HIDE DEF rest
  <2>. QED
    BY <1>2, <1>3, <1>5, <1>8, <1>9
<1>. QED
  BY <1>2, <1>10

\* A thread whose calls change alone changes the count by its own.
LEMMA BackMoves ==
    ASSUME NEW r \in [Threads -> Stacks], NEW t \in Threads, NEW s \in Stacks
    PROVE  Cardinality(Back([r EXCEPT ![t] = s]))
             = Cardinality(Back(r)) - Cardinality(Marks(r[t])) + Cardinality(Marks(s))
<1>. DEFINE q == [r EXCEPT ![t] = s]
<1>1. q \in [Threads -> Stacks] /\ q[t] = s /\ \A u \in Threads : u # t => q[u] = r[u]
  OBVIOUS
<1>. HIDE DEF q
<1>2. {p \in Back(q) : p[1] # t} = {p \in Back(r) : p[1] # t}
  BY <1>1 DEF Back
<1>3. /\ Cardinality({p \in Back(r) : p[1] # t}) \in Nat
      /\ Cardinality(Back(r)) = Cardinality({p \in Back(r) : p[1] # t}) + Cardinality(Marks(r[t]))
  BY BackOf
<1>4. Cardinality(Back(q)) = Cardinality({p \in Back(q) : p[1] # t}) + Cardinality(Marks(q[t]))
  BY <1>1, BackOf
<1>5. Cardinality(Marks(r[t])) \in Nat /\ Cardinality(Marks(s)) \in Nat
  BY MarksFinite, StackMoves
<1>6. Cardinality(Back(q)) = Cardinality({p \in Back(r) : p[1] # t}) + Cardinality(Marks(s))
  BY <1>1, <1>2, <1>4
<1>7. Cardinality(Back(q)) = Cardinality(Back(r)) - Cardinality(Marks(r[t])) + Cardinality(Marks(s))
  BY <1>3, <1>5, <1>6
<1>. QED
  BY <1>7 DEF q

----------------------------------------------------------------------------
(* Where failed dials are *)

\* A step that leaves the calls alone, and no failed dial behind.
LEMMA SameFrames ==
    ASSUME Frames, run' = run,
           \A o \in Objs : conn'[o].phase = "failed" <=> conn[o].phase = "failed",
           \A o \in Objs : conn[o].phase = "gone" /\ run[o] # <<>> => conn'[o].phase = "gone"
    PROVE  Frames'
BY DEF Frames, At

\* A thread that handles no failed dial before or after its step.
LEMMA MovedFrames ==
    ASSUME Frames, Places, NEW t \in Threads, NEW s \in Stacks, run' = [run EXCEPT ![t] = s],
           ~At(t, "lost"), \A i \in DOMAIN s : s[i].at # "lost",
           \A o \in Objs : conn'[o].phase = "failed" <=> conn[o].phase = "failed",
           \A o \in Objs : run'[o] # <<>> => conn'[o].phase = "gone"
    PROVE  Frames'
<1>1. run'[t] = s /\ \A u \in Threads : u # t => run'[u] = run[u]
  BY DEF Places
<1>2. s # <<>> => Head(s).at # "lost"
  <2>1. s \in Seq(Calls)
    BY StackMoves
  <2>. QED
    BY <2>1
<1>3. \A u \in Threads : At(u, "lost")' <=> At(u, "lost") /\ u # t
  BY <1>1, <1>2 DEF At
<1>. QED
  BY <1>1, <1>3 DEF Frames, At

\* Below the innermost call no dial is being handled.
LEMMA NoLostBelow ==
    ASSUME Frames, Places, NEW t \in Threads, run[t] # <<>>
    PROVE  /\ \A i \in DOMAIN Tail(run[t]) : Tail(run[t])[i].at # "lost"
           /\ \A c \in Calls : c.at # "lost" =>
                 \A i \in DOMAIN (<<c>> \o Tail(run[t])) : (<<c>> \o Tail(run[t]))[i].at # "lost"
<1>1. run[t] \in Seq(Calls)
  BY StackMoves DEF Places
<1>2. /\ Tail(run[t]) \in Seq(Calls) /\ Len(Tail(run[t])) = Len(run[t]) - 1
      /\ \A i \in 1..Len(Tail(run[t])) : Tail(run[t])[i] = run[t][i + 1] /\ i + 1 # 1
                                        /\ i + 1 \in DOMAIN run[t]
  BY <1>1
<1>3. \A i \in DOMAIN Tail(run[t]) : Tail(run[t])[i].at # "lost"
  BY <1>1, <1>2 DEF Frames
<1>4. ASSUME NEW c \in Calls, c.at # "lost"
      PROVE  \A i \in DOMAIN (<<c>> \o Tail(run[t])) : (<<c>> \o Tail(run[t]))[i].at # "lost"
  <2>. DEFINE q == Tail(run[t])
  <2>0. DOMAIN q = 1..Len(q)
    BY <1>2
  <2>1. q \in Seq(Calls) /\ \A i \in 1..Len(q) : q[i].at # "lost"
    BY <1>2, <1>3, <2>0
  <2>. HIDE DEF q
  <2>2. \A i \in DOMAIN (<<c>> \o q) : (<<c>> \o q)[i].at # "lost"
    BY <1>4, <2>1
  <2>. QED
    BY <2>2 DEF q
<1>. QED
  BY <1>3, <1>4

\* A call that goes on with nothing to take back.
LEMMA GoesFrames ==
    ASSUME Frames, Places, NEW t \in Threads, run[t] # <<>>, NEW c \in Calls, ~Marked(c),
           c.at # "drain", ~At(t, "lost"), ~Marked(Head(run[t])), Goes(t, c),
           \A o \in Objs : conn'[o].phase = "failed" <=> conn[o].phase = "failed",
           \A o \in Objs : conn[o].phase = "gone" => conn'[o].phase = "gone"
    PROVE  Frames' /\ Cardinality(Back(run')) = Cardinality(Back(run))
<1>. DEFINE s == <<c>> \o Tail(run[t])
<1>1. run' = [run EXCEPT ![t] = s]
  BY DEF Goes
<1>2. run[t] \in Seq(Calls) /\ Tail(run[t]) \in Stacks /\ Tail(run[t]) \in Seq(Calls) /\ s \in Stacks
  BY StackMoves, RunMoves DEF Places, Marked
<1>3. \A i \in DOMAIN s : s[i].at # "lost"
  BY NoLostBelow DEF Marked
<1>4. Cardinality(Marks(s)) = Cardinality(Marks(run[t])) /\ Cardinality(Marks(s)) \in Nat
  <2>1. Cardinality(Marks(Tail(run[t]))) \in Nat
    BY <1>2, MarksFinite
  <2>2. Cardinality(Marks(s)) = Cardinality(Marks(Tail(run[t]))) + IF Marked(c) THEN 1 ELSE 0
    BY <1>2, MarksOnTop
  <2>3. Cardinality(Marks(run[t])) = Cardinality(Marks(Tail(run[t])))
                                       + IF Marked(Head(run[t])) THEN 1 ELSE 0
    BY <1>2, MarksBelow
  <2>. QED
    BY <2>1, <2>2, <2>3
<1>5. \A o \in Objs : run'[o] # <<>> => conn'[o].phase = "gone"
  <2>1. \A o \in Objs : run'[o] # <<>> => run[o] # <<>>
    BY <1>1 DEF Places, Threads
  <2>. QED
    BY <2>1 DEF Frames
<1>. HIDE DEF s
<1>6. Frames'
  BY <1>1, <1>2, <1>3, <1>5, MovedFrames
<1>7. Cardinality(Back(run')) = Cardinality(Back(run)) - Cardinality(Marks(run[t])) + Cardinality(Marks(s))
  BY <1>1, <1>2, BackMoves DEF Places
<1>8. Cardinality(Back(run)) \in Nat
  BY BackFinite DEF Places
<1>. QED
  BY <1>4, <1>6, <1>7, <1>8

\* The objects that a thread belongs to are finitely many.
LEMMA BodiesFinite ==
    IsFiniteSet(Bodies) /\ Cardinality(Bodies) \in Nat
<1>1. Bodies \subseteq Objs
  BY DEF Bodies
<1>2. IsFiniteSet(Bodies)
  BY <1>1, DistinctThreads, FS_Subset
<1>. QED
  BY <1>2, FS_CardinalityType

\* The count as the proofs use it.
LEMMA CountIs ==
    ThreadsAreCounted <=> threads = Cardinality(Bodies) + Cardinality(Back(run))
BY DEF ThreadsAreCounted, TakenBack, Back, Marks, Bodies

\* What is counted after a step.
LEMMA CountIsNext ==
    ThreadsAreCounted' <=> threads' = Cardinality(Bodies') + Cardinality(Back(run'))
BY DEF ThreadsAreCounted, TakenBack, Back, Marks, Bodies

Tally == Inv /\ Frames /\ ThreadsAreCounted

\* A step that counts nothing and moves no failed dial.
LEMMA SameTally ==
    ASSUME Tally, Inv', run' = run, threads' = threads,
           \A o \in Objs : conn'[o].phase \in {"none", "failed"} <=> conn[o].phase \in {"none", "failed"},
           \A o \in Objs : conn'[o].phase = "failed" <=> conn[o].phase = "failed",
           \A o \in Objs : conn[o].phase = "gone" => conn'[o].phase = "gone"
    PROVE  Tally'
<1>1. Frames'
  BY SameFrames DEF Tally
<1>2. Bodies' = Bodies
  BY DEF Bodies
<1>. QED
  BY <1>1, <1>2, CountIs, CountIsNext DEF Tally

\* The calls of a thread with nothing to take back, before and after, count nothing.
LEMMA UnmarkedMoves ==
    ASSUME Tally, Inv', NEW t \in Threads, NEW s \in Stacks, run' = [run EXCEPT ![t] = s],
           Marks(run[t]) = {}, Marks(s) = {}, threads' = threads, Bodies' = Bodies,
           \A o \in Objs : conn'[o].phase = "failed" <=> conn[o].phase = "failed",
           \A o \in Objs : run'[o] # <<>> => conn'[o].phase = "gone"
    PROVE  Tally'
<1>1. \A i \in DOMAIN s : s[i].at # "lost"
  BY DEF Marks
<1>2. ~At(t, "lost")
  <2>1. run[t] \in Seq(Calls)
    BY StackMoves DEF Tally, Inv, Places
  <2>2. run[t] # <<>> => 1 \in DOMAIN run[t] /\ Head(run[t]) = run[t][1]
    BY <2>1
  <2>. QED
    BY <2>2 DEF At, Marks
<1>3. Frames'
  BY <1>1, <1>2, MovedFrames DEF Tally, Inv
<1>4. Cardinality(Back(run')) = Cardinality(Back(run))
  <2>1. Cardinality({}) = 0
    BY FS_EmptySet
  <2>0. run \in [Threads -> Stacks]
    BY DEF Tally, Inv, Places
  <2>2. Cardinality(Back(run')) = Cardinality(Back(run)) - Cardinality(Marks(run[t]))
                                    + Cardinality(Marks(s))
    BY <2>0, BackMoves
  <2>3. Cardinality(Back(run)) \in Nat
    BY BackFinite DEF Tally, Inv, Places
  <2>. QED
    BY <2>1, <2>2, <2>3
<1>. QED
  BY <1>3, <1>4, CountIs, CountIsNext DEF Tally

\* What a step of Connect does to the count.
LEMMA GoesTally ==
    ASSUME Tally, Inv', NEW t \in Threads, run[t] # <<>>, NEW c \in Calls, ~Marked(c),
           c.at # "drain", ~Marked(Head(run[t])), Goes(t, c), threads' \in Int,
           threads' - threads = Cardinality(Bodies') - Cardinality(Bodies),
           \A o \in Objs : conn'[o].phase = "failed" <=> conn[o].phase = "failed",
           \A o \in Objs : conn[o].phase = "gone" => conn'[o].phase = "gone"
    PROVE  Tally'
<1>1. ~At(t, "lost")
  BY DEF Marked, At
<1>2. Frames' /\ Cardinality(Back(run')) = Cardinality(Back(run))
  BY <1>1, GoesFrames DEF Tally, Inv
<1>3. Cardinality(Back(run)) \in Nat /\ Cardinality(Bodies) \in Nat
  BY BackFinite, BodiesFinite DEF Tally, Inv, Places
<1>4. Cardinality(Bodies') \in Nat
  <2>1. Bodies' \subseteq Objs
    BY DEF Bodies
  <2>2. IsFiniteSet(Bodies')
    BY <2>1, DistinctThreads, FS_Subset
  <2>. QED
    BY <2>2, FS_CardinalityType
<1>5. threads' = Cardinality(Bodies') + Cardinality(Back(run'))
  <2>1. threads = Cardinality(Bodies) + Cardinality(Back(run))
    BY CountIs DEF Tally
  <2>. QED
    BY <1>2, <1>3, <1>4, <2>1
<1>. QED
  BY <1>2, <1>5, CountIsNext DEF Tally

----------------------------------------------------------------------------
(* The steps *)

\* A lost connection's thread is counted until its cleanup.
LEMMA PeerTally ==
    ASSUME Tally, Inv', NEW o \in Objs, OfPeer(o)
    PROVE  Tally'
<1>. USE DEF Tally
<1>1. /\ conn \in [Objs -> [addr : Addrs \cup {None}, phase : Phases, cut : BOOLEAN,
                           joined : BOOLEAN]]
      /\ run[o] # <<>> => conn[o].phase = "gone"
  BY DEF Inv, Links, Shape, Frames
<1>2. CASE OpenSocket(o)
  BY <1>1, <1>2, SameTally DEF OpenSocket
<1>3. CASE DidConnect(o)
  BY <1>1, <1>3, SameTally DEF DidConnect
<1>4. CASE ThreadEnds(o)
  BY <1>1, <1>4, SameTally DEF ThreadEnds
<1>5. CASE PostSyncDone(o) \/ (\E last \in BOOLEAN : RelayedBlock(o, last))
           \/ (\E a \in Filters : RelayedPeer(o, a))
  BY <1>5, SameTally DEF PostSyncDone, RelayedBlock, RelayedPeer
<1>6. CASE PeerMisbehavin(o)
  <2>1. \A p \in Objs : conn'[p].phase = conn[p].phase
    BY <1>1, <1>6, ClosedKeeps DEF PeerMisbehavin
  <2>. QED
    BY <1>6, <2>1, SameTally DEF PeerMisbehavin
<1>7. ASSUME NEW services, PeerConnected(o, services) PROVE Tally'
  <2>. DEFINE joined == [conn EXCEPT ![o].joined = TRUE]
  <2>1. /\ joined \in [Objs -> [addr : Addrs \cup {None}, phase : Phases, cut : BOOLEAN,
                               joined : BOOLEAN]]
        /\ \A p \in Objs : joined[p].phase = conn[p].phase
    BY <1>1
  <2>2. PICK S : conn' = Closed(joined, S) \/ conn' = joined
    BY <1>7 DEF PeerConnected
  <2>3. \A p \in Objs : conn'[p].phase = conn[p].phase
    <3>. HIDE DEF joined
    <3>. QED
      BY <2>1, <2>2, ClosedKeeps
  <2>4. run' = run /\ threads' = threads
    BY <1>7 DEF PeerConnected
  <2>. QED
    BY <2>3, <2>4, SameTally
<1>8. CASE ThreadCleanup(o)
  <2>1. /\ conn[o].phase = "gone" /\ conn'[o].phase = "none" /\ run[o] = <<>>
        /\ \A p \in Objs : p # o => conn'[p] = conn[p]
        /\ threads' = threads - 1 /\ run' = run
    BY <1>1, <1>8 DEF ThreadCleanup, Unborn
  <2>2. Frames'
    BY <2>1, SameFrames
  <2>3. Bodies' = Bodies \ {o} /\ o \in Bodies
    BY <2>1 DEF Bodies
  <2>4. Cardinality(Bodies') = Cardinality(Bodies) - 1
    BY <2>3, BodiesFinite, FS_RemoveElement
  <2>5. Cardinality(Back(run)) \in Nat /\ Cardinality(Bodies) \in Nat
    BY BackFinite, BodiesFinite DEF Inv, Places
  <2>6. threads = Cardinality(Bodies) + Cardinality(Back(run))
    BY CountIs
  <2>7. threads' = Cardinality(Bodies') + Cardinality(Back(run'))
    BY <2>1, <2>4, <2>5, <2>6
  <2>. QED
    BY <2>2, <2>7, CountIsNext
<1>9. ASSUME NEW error, PeerDisconnected(o, error) PROVE Tally'
  <2>1. /\ conn[o].phase = "down" /\ conn'[o].phase = "gone" /\ run[o] = <<>>
        /\ \A p \in Objs : p # o => conn'[p] = conn[p]
        /\ threads' = threads
    BY <1>1, <1>9 DEF PeerDisconnected, Lose, Released, Unborn
  <2>2. PICK b \in BOOLEAN :
          run' = [run EXCEPT ![o] = (IF b THEN <<[at |-> "begin"]>> ELSE <<>>) \o <<>>]
    BY <1>9 DEF PeerDisconnected, Lose
  <2>. DEFINE s == (IF b THEN <<[at |-> "begin"]>> ELSE <<>>) \o <<>>
  <2>3. s \in Stacks /\ Marks(s) = {}
    <3>1. [at |-> "begin"] \in Calls /\ <<[at |-> "begin"]>> \o <<>> = <<[at |-> "begin"]>>
          /\ <<>> \o <<>> = <<>>
      BY DEF Calls
    <3>2. <<[at |-> "begin"]>> \in Stacks /\ <<>> \in Stacks
      BY <3>1 DEF Stacks
    <3>3. Marks(<<[at |-> "begin"]>>) = {} /\ Marks(<<>>) = {}
      BY DEF Marks
    <3>. QED
      BY <3>1, <3>2, <3>3
  <2>4. Marks(run[o]) = {}
    BY <2>1 DEF Marks
  <2>5. Bodies' = Bodies
    BY <2>1 DEF Bodies
  <2>6. o \in Threads /\ run' = [run EXCEPT ![o] = s]
    BY <2>2 DEF Threads
  <2>. HIDE DEF s
  <2>7. \A p \in Objs : run'[p] # <<>> => conn'[p].phase = "gone"
    BY <2>1, <2>6 DEF Inv, Places, Threads, Frames
  <2>. QED
    BY <2>1, <2>3, <2>4, <2>5, <2>6, <2>7, UnmarkedMoves
<1>. QED
  BY <1>2, <1>3, <1>4, <1>5, <1>6, <1>7, <1>8, <1>9 DEF OfPeer

\* Dials that waited and start now are counted as before.
LEMMA EnterTally ==
    ASSUME Tally, Inv', NEW t \in Threads, NEW still, run[t] # <<>>, ~Marked(Head(run[t])),
           Enter(t, still), threads' = threads
    PROVE  Tally'
<1>1. /\ conn \in [Objs -> [addr : Addrs \cup {None}, phase : Phases, cut : BOOLEAN,
                           joined : BOOLEAN]]
      /\ \A p \in Objs : \/ conn'[p].phase = conn[p].phase
                         \/ /\ conn[p].phase = "waiting"
                            /\ conn'[p].phase \in {"waiting", "started"}
  BY KnownDials DEF Enter, PhaseOf, Tally, Inv, Links, Shape
<1>2. Bodies' = Bodies
  BY <1>1 DEF Bodies
<1>3. /\ \A o \in Objs : conn'[o].phase = "failed" <=> conn[o].phase = "failed"
      /\ \A o \in Objs : conn[o].phase = "gone" => conn'[o].phase = "gone"
  BY <1>1
<1>4. PICK c \in Calls : Goes(t, c) /\ ~Marked(c) /\ c.at # "drain"
  <2>1. [at |-> "found"] \in Calls /\ ~Marked([at |-> "found"])
    BY DEF Calls, Marked
  <2>2. Goes(t, Place(FALSE)) \/ Goes(t, [at |-> "found"])
    BY DEF Enter
  <2>. QED
    BY <2>1, <2>2, PlaceIsCall DEF Marked, Passes
<1>5. threads' \in Int /\ threads' - threads = Cardinality(Bodies') - Cardinality(Bodies)
  <2>1. Cardinality(Back(run)) \in Nat /\ Cardinality(Bodies) \in Nat
    BY BackFinite, BodiesFinite DEF Tally, Inv, Places
  <2>2. threads = Cardinality(Bodies) + Cardinality(Back(run))
    BY CountIs DEF Tally
  <2>. QED
    BY <1>2, <2>1, <2>2
<1>. QED
  BY <1>3, <1>4, <1>5, GoesTally

\* A dial is counted before its thread starts.
LEMMA DialTally ==
    ASSUME Tally, Inv', NEW t \in Threads, Dial(t)
    PROVE  Tally'
<1>1. /\ lock = t /\ run[t] # <<>> /\ Head(run[t]).at \in Passes /\ run[t] \in Seq(Calls)
      /\ run[t] \in Stacks /\ run \in [Threads -> Stacks] /\ known \subseteq Addrs
      /\ conn \in [Objs -> [addr : Addrs \cup {None}, phase : Phases, cut : BOOLEAN,
                           joined : BOOLEAN]]
  BY DistinctThreads DEF Tally, Inv, Links, Shape, Dial, Places, Threads, Stacks
<1>2. Head(run[t]) \in [at : Passes, any : BOOLEAN, pool : SUBSET Addrs]
  <2>1. Head(run[t]) \in Calls
    BY <1>1
  <2>. QED
    BY <1>1, <2>1 DEF Calls, Passes
<1>3. ~Marked(Head(run[t]))
  BY <1>1 DEF Marked, Passes
<1>4. PICK dial \in NextDials(Head(run[t])), o \in Spare :
        \E way \in Dials[dial.addr] :
          /\ conn' = [conn EXCEPT ![o] = [Unborn EXCEPT !.addr = dial.addr, !.phase = PhaseOf(way)]]
          /\ threads' = threads + 1
          /\ \/ /\ way = "fails"
                /\ run' = [run EXCEPT ![t] = <<[at |-> "lost", obj |-> o], dial.next>> \o Tail(run[t])]
             \/ way # "fails" /\ Goes(t, dial.next)
  BY ZenonT(60) DEF Dial
<1>5. /\ dial.addr \in Addrs /\ dial.next \in Calls /\ dial.next.at \in Passes
      /\ ~Marked(dial.next) /\ dial.next.at # "drain"
  <2>1. dial.addr \in Addrs /\ dial.next \in [at : Passes, any : BOOLEAN, pool : SUBSET Addrs]
    BY <1>1, <1>2, NewAddress
  <2>. QED
    BY <2>1 DEF Calls, Passes, Marked
<1>6. /\ threads' = threads + 1 /\ o \in Objs /\ conn[o].phase = "none"
      /\ \A p \in Objs : p # o => conn'[p] = conn[p]
  BY <1>1, <1>4 DEF Spare
<1>7. /\ Cardinality(Back(run)) \in Nat /\ Cardinality(Bodies) \in Nat
      /\ threads = Cardinality(Bodies) + Cardinality(Back(run))
  BY BackFinite, BodiesFinite, CountIs DEF Tally, Inv, Places
<1>8. CASE conn'[o].phase \in {"started", "waiting"} /\ Goes(t, dial.next)
  <2>1. Bodies' = Bodies \cup {o} /\ o \notin Bodies
    BY <1>6, <1>8 DEF Bodies
  <2>2. Cardinality(Bodies') = Cardinality(Bodies) + 1
    BY <2>1, BodiesFinite, FS_AddElement
  <2>3. /\ \A p \in Objs : conn'[p].phase = "failed" <=> conn[p].phase = "failed"
        /\ \A p \in Objs : conn[p].phase = "gone" => conn'[p].phase = "gone"
    BY <1>6, <1>8
  <2>4. threads' \in Int /\ threads' - threads = Cardinality(Bodies') - Cardinality(Bodies)
    BY <1>6, <1>7, <2>2
  <2>. QED
    BY <1>1, <1>3, <1>5, <1>8, <2>3, <2>4, GoesTally
<1>9. CASE /\ conn'[o].phase = "failed"
           /\ run' = [run EXCEPT ![t] = <<[at |-> "lost", obj |-> o], dial.next>> \o Tail(run[t])]
  <2>. DEFINE c == [at |-> "lost", obj |-> o]
              d == dial.next
              q == Tail(run[t])
              s == <<c, d>> \o q
  <2>1. c \in Calls /\ c.at = "lost" /\ c.obj = o /\ Marked(c)
    BY <1>6 DEF Calls, Marked
  <2>2. q \in Seq(Calls) /\ run[t] = <<Head(run[t])>> \o q /\ q \in Stacks
    BY <1>1, StackMoves
  <2>3. run' = [run EXCEPT ![t] = s]
    BY <1>9
  <2>4. s \in Stacks /\ s \in Seq(Calls)
    BY <1>1, <1>5, <2>1, StackMoves
  <2>5. \A i \in DOMAIN q : q[i].at # "lost"
    BY <1>1, NoLostBelow DEF Tally, Inv
  <2>. HIDE DEF c, d, q
  <2>6. s = <<c>> \o (<<d>> \o q) /\ <<d>> \o q \in Seq(Calls) /\ s # <<>> /\ Head(s) = c
    <3>1. d \in Calls
      BY <1>5 DEF d
    <3>2. s = <<c>> \o (<<d>> \o q)
      BY <2>1, <2>2, <3>1, TwoCalls
    <3>3. <<d>> \o q \in Seq(Calls)
      BY <2>2, <3>1
    <3>. QED
      BY <2>1, <3>2, <3>3
  <2>7. \A i \in DOMAIN s : s[i].at = "lost" => i = 1
    <3>1. d.at # "lost" /\ d \in Calls
      BY <1>5 DEF d, Marked
    <3>2. \A i \in 1..Len(s) : s[i] = IF i = 1 THEN c ELSE IF i = 2 THEN d ELSE q[i - 2]
      BY <2>1, <2>2, <3>1
    <3>3. Len(s) = Len(q) + 2 /\ DOMAIN s = 1..Len(s) /\ DOMAIN q = 1..Len(q) /\ Len(q) \in Nat
      BY <2>1, <2>2, <3>1
    <3>4. ASSUME NEW i \in 1..Len(s), i # 1, s[i].at = "lost" PROVE FALSE
      <4>1. CASE i = 2
        BY <3>1, <3>2, <3>4, <4>1
      <4>2. CASE i # 2
        <5>1. i - 2 \in DOMAIN q
          BY <3>3, <3>4, <4>2
        <5>. QED
          BY <2>5, <3>2, <3>4, <4>2, <5>1
      <4>. QED
        BY <4>1, <4>2
    <3>. QED
      BY <3>3, <3>4
  <2>8. Cardinality(Marks(s)) = Cardinality(Marks(run[t])) + 1 /\ Cardinality(Marks(run[t])) \in Nat
    <3>1. Cardinality(Marks(q)) \in Nat
      BY <2>2, MarksFinite
    <3>2. Cardinality(Marks(<<d>> \o q)) = Cardinality(Marks(q)) + IF Marked(d) THEN 1 ELSE 0
      BY <1>5, <2>2, MarksOnTop DEF d
    <3>3. Cardinality(Marks(<<c>> \o (<<d>> \o q))) = Cardinality(Marks(<<d>> \o q))
                                                       + IF Marked(c) THEN 1 ELSE 0
      BY <2>1, <2>6, MarksOnTop
    <3>4. Cardinality(Marks(run[t])) = Cardinality(Marks(q)) + IF Marked(Head(run[t])) THEN 1 ELSE 0
      BY <1>1, MarksBelow DEF q
    <3>5. ~Marked(d)
      BY <1>5 DEF d
    <3>. QED
      BY <1>3, <2>1, <2>6, <3>1, <3>2, <3>3, <3>4, <3>5
  <2>. HIDE DEF s
  <2>9. Cardinality(Back(run')) = Cardinality(Back(run)) + 1
    <3>1. Cardinality(Back(run')) = Cardinality(Back(run)) - Cardinality(Marks(run[t]))
                                      + Cardinality(Marks(s))
      BY <1>1, <2>3, <2>4, BackMoves
    <3>. QED
      BY <1>7, <2>8, <3>1
  <2>10. Bodies' = Bodies
    BY <1>6, <1>9 DEF Bodies
  <2>11. run'[t] = s /\ \A u \in Threads : u # t => run'[u] = run[u]
    BY <1>1, <2>3
  <2>12. ~At(t, "lost") /\ At(t, "lost")' /\ Head(run'[t]).obj = o
    BY <1>3, <2>1, <2>6, <2>11 DEF At, Marked
  <2>13. \A u \in Threads : u # t => /\ At(u, "lost")' <=> At(u, "lost")
                                     /\ Head(run'[u]).obj = Head(run[u]).obj
    BY <2>11 DEF At
  <2>14. Frames'
    <3>1. \A u \in Threads : \A i \in DOMAIN run'[u] : run'[u][i].at = "lost" => i = 1
      BY <2>7, <2>11 DEF Tally, Frames
    <3>2. \A u \in Threads : At(u, "lost")' => /\ Head(run'[u]).obj \in Objs
                                               /\ conn'[Head(run'[u]).obj].phase = "failed"
      <4>. SUFFICES ASSUME NEW u \in Threads, At(u, "lost")'
                    PROVE  /\ Head(run'[u]).obj \in Objs
                           /\ conn'[Head(run'[u]).obj].phase = "failed"
        OBVIOUS
      <4>1. CASE u = t
        BY <1>6, <1>9, <2>12, <4>1
      <4>2. CASE u # t
        BY <1>6, <2>13, <4>2 DEF Tally, Frames
      <4>. QED
        BY <4>1, <4>2
    <3>3. \A u, v \in Threads : At(u, "lost")' /\ At(v, "lost")' /\ Head(run'[u]).obj = Head(run'[v]).obj
                                  => u = v
      <4>1. \A u \in Threads : u # t /\ At(u, "lost") => Head(run[u]).obj # o
        BY <1>6 DEF Tally, Frames
      <4>. QED
        BY <2>12, <2>13, <4>1 DEF Tally, Frames
    <3>4. \A p \in Objs : conn'[p].phase = "failed" =>
             \E u \in Threads : At(u, "lost")' /\ Head(run'[u]).obj = p
      <4>. SUFFICES ASSUME NEW p \in Objs, conn'[p].phase = "failed"
                    PROVE  \E u \in Threads : At(u, "lost")' /\ Head(run'[u]).obj = p
        OBVIOUS
      <4>1. CASE p = o
        BY <2>12, <4>1
      <4>2. CASE p # o
        <5>1. PICK u \in Threads : At(u, "lost") /\ Head(run[u]).obj = p
          BY <1>6, <4>2 DEF Tally, Frames
        <5>. QED
          BY <2>12, <2>13, <5>1
      <4>. QED
        BY <4>1, <4>2
    <3>5. \A p \in Objs : run'[p] # <<>> => conn'[p].phase = "gone"
      <4>1. \A p \in Objs : run'[p] # <<>> => run[p] # <<>>
        BY <1>1, <2>11 DEF Threads
      <4>. QED
        BY <1>6, <4>1 DEF Tally, Frames
    <3>. QED
      BY <3>1, <3>2, <3>3, <3>4, <3>5 DEF Frames
  <2>. QED
    BY <1>6, <1>7, <2>9, <2>10, <2>14, CountIsNext DEF Tally
<1>10. \/ conn'[o].phase \in {"started", "waiting"} /\ Goes(t, dial.next)
       \/ /\ conn'[o].phase = "failed"
          /\ run' = [run EXCEPT ![t] = <<[at |-> "lost", obj |-> o], dial.next>> \o Tail(run[t])]
  <2>1. PICK way \in Dials[dial.addr] :
          /\ conn' = [conn EXCEPT ![o] = [Unborn EXCEPT !.addr = dial.addr, !.phase = PhaseOf(way)]]
          /\ \/ /\ way = "fails"
                /\ run' = [run EXCEPT ![t] = <<[at |-> "lost", obj |-> o], dial.next>> \o Tail(run[t])]
             \/ way # "fails" /\ Goes(t, dial.next)
    BY <1>4
  <2>2. way \in {"starts", "waits", "fails"}
    BY <1>5, <2>1, KnownDials
  <2>3. conn'[o].phase = PhaseOf(way)
    BY <1>1, <1>6, <2>1 DEF Unborn
  <2>. QED
    BY <2>1, <2>2, <2>3 DEF PhaseOf
<1>. QED
  BY <1>8, <1>9, <1>10

\* The dial that was not started is released; its thread is still to be taken off.
LEMMA DialNotStartedTally ==
    ASSUME Tally, Inv', NEW t \in Threads, DialNotStarted(t)
    PROVE  Tally'
<1>. DEFINE o == Head(run[t]).obj
            q == Tail(run[t])
            c == [at |-> "uncount"]
            b == [at |-> "begin"]
<1>1. /\ run \in [Threads -> Stacks] /\ run[t] \in Stacks /\ run[t] # <<>> /\ Head(run[t]).at = "lost"
      /\ run[t] \in Seq(Calls) /\ At(t, "lost") /\ threads' = threads
      /\ conn \in [Objs -> [addr : Addrs \cup {None}, phase : Phases, cut : BOOLEAN,
                           joined : BOOLEAN]]
  BY StackMoves DEF Tally, Inv, Links, Shape, Places, DialNotStarted, At
<1>2. o \in Objs /\ conn[o].phase = "failed" /\ run[o] = <<>>
  BY <1>1 DEF Tally, Frames
<1>3. /\ conn'[o].phase = "none"
      /\ \A p \in Objs : p # o => conn'[p] = conn[p]
  BY <1>1, <1>2 DEF DialNotStarted, Lose, Released, Unborn
<1>4. q \in Seq(Calls) /\ c \in Calls /\ b \in Calls /\ Marked(c) /\ ~Marked(b) /\ c.at # "lost"
      /\ b.at = "begin"
  BY <1>1 DEF Calls, Marked
<1>5. <<c>> \o q \in Stacks /\ <<c>> \o q \in Seq(Calls)
  BY <1>1, StackMoves
<1>6. \A i \in DOMAIN (<<c>> \o q) : (<<c>> \o q)[i].at # "lost"
  BY <1>1, <1>4, NoLostBelow DEF Tally, Inv
<1>7. Cardinality(Marks(<<c>> \o q)) = Cardinality(Marks(run[t])) /\ Cardinality(Marks(run[t])) \in Nat
  <2>1. Cardinality(Marks(q)) \in Nat /\ Cardinality(Marks(run[t])) \in Nat
    BY <1>1, <1>4, MarksFinite
  <2>2. Cardinality(Marks(run[t])) = Cardinality(Marks(q)) + IF Marked(Head(run[t])) THEN 1 ELSE 0
    BY <1>1, MarksBelow
  <2>3. Cardinality(Marks(<<c>> \o q)) = Cardinality(Marks(q)) + IF Marked(c) THEN 1 ELSE 0
    BY <1>4, MarksOnTop
  <2>4. Marked(Head(run[t]))
    BY <1>1 DEF Marked
  <2>. QED
    BY <1>4, <2>1, <2>2, <2>3, <2>4
<1>8. PICK s \in {<<b>> \o (<<c>> \o q), <<c>> \o q} : run' = [run EXCEPT ![t] = s]
  <2>. DEFINE r == <<c>> \o q
  <2>1. \/ run' = [run EXCEPT ![t] = <<b>> \o r]
        \/ run' = [run EXCEPT ![t] = <<>> \o r]
    BY DEF DialNotStarted, Lose
  <2>2. r \in Seq(Calls)
    BY <1>5
  <2>. HIDE DEF r
  <2>3. <<>> \o r = r
    BY <2>2
  <2>4. \E s \in {<<b>> \o r, r} : run' = [run EXCEPT ![t] = s]
    BY <2>1, <2>3
  <2>. QED
    BY <2>4 DEF r
<1>. HIDE DEF o, b, c, q
<1>9. /\ s \in Stacks /\ s \in Seq(Calls)
      /\ Cardinality(Marks(s)) = Cardinality(Marks(run[t]))
      /\ \A i \in DOMAIN s : s[i].at # "lost"
  <2>. DEFINE r == <<c>> \o q
  <2>1. r \in Stacks /\ r \in Seq(Calls) /\ Cardinality(Marks(r)) = Cardinality(Marks(run[t]))
        /\ \A i \in DOMAIN r : r[i].at # "lost"
    BY <1>5, <1>6, <1>7
  <2>. HIDE DEF r
  <2>2. <<b>> \o r \in Stacks /\ <<b>> \o r \in Seq(Calls)
    BY <1>4, <2>1, StackMoves DEF Marked
  <2>3. Cardinality(Marks(<<b>> \o r)) = Cardinality(Marks(run[t]))
    <3>1. Cardinality(Marks(<<b>> \o r)) = Cardinality(Marks(r)) + IF Marked(b) THEN 1 ELSE 0
      BY <1>4, <2>1, MarksOnTop
    <3>. QED
      BY <1>4, <1>7, <2>1, <3>1, SMTT(60)
  <2>4. \A i \in DOMAIN (<<b>> \o r) : (<<b>> \o r)[i].at # "lost"
    BY <1>4, <2>1
  <2>5. s \in {<<b>> \o r, r}
    BY DEF r
  <2>. QED
    BY <2>1, <2>2, <2>3, <2>4, <2>5
<1>10. run'[t] = s /\ \A u \in Threads : u # t => run'[u] = run[u]
  BY <1>1, <1>8
<1>11. ~At(t, "lost")' /\ \A u \in Threads : u # t => (At(u, "lost")' <=> At(u, "lost"))
                                                   /\ Head(run'[u]).obj = Head(run[u]).obj
  <2>1. s # <<>> => Head(s).at # "lost"
    BY <1>9
  <2>. QED
    BY <1>10, <2>1 DEF At
<1>12. Frames'
  <2>1. \A u \in Threads : u # t /\ At(u, "lost") => Head(run[u]).obj # o
    BY <1>1 DEF Tally, Frames, o
  <2>2. \A u \in Threads : \A i \in DOMAIN run'[u] : run'[u][i].at = "lost" => i = 1
    BY <1>9, <1>10 DEF Tally, Frames
  <2>3. \A u \in Threads : At(u, "lost")' => /\ Head(run'[u]).obj \in Objs
                                             /\ conn'[Head(run'[u]).obj].phase = "failed"
    BY <1>3, <1>11, <2>1 DEF Tally, Frames
  <2>4. \A u, v \in Threads : At(u, "lost")' /\ At(v, "lost")' /\ Head(run'[u]).obj = Head(run'[v]).obj
                                => u = v
    BY <1>11 DEF Tally, Frames
  <2>5. \A p \in Objs : conn'[p].phase = "failed" =>
           \E u \in Threads : At(u, "lost")' /\ Head(run'[u]).obj = p
    <3>. SUFFICES ASSUME NEW p \in Objs, conn'[p].phase = "failed"
                  PROVE  \E u \in Threads : At(u, "lost")' /\ Head(run'[u]).obj = p
      OBVIOUS
    <3>1. p # o /\ conn[p].phase = "failed"
      BY <1>3
    <3>2. PICK u \in Threads : At(u, "lost") /\ Head(run[u]).obj = p
      BY <3>1 DEF Tally, Frames
    <3>3. u # t
      BY <3>1, <3>2 DEF o
    <3>. QED
      BY <1>11, <3>2, <3>3
  <2>6. \A p \in Objs : run'[p] # <<>> => conn'[p].phase = "gone"
    <3>1. \A p \in Objs : run'[p] # <<>> => run[p] # <<>>
      BY <1>1, <1>10 DEF Threads
    <3>. QED
      BY <1>2, <1>3, <3>1 DEF Tally, Frames
  <2>. QED
    BY <2>2, <2>3, <2>4, <2>5, <2>6 DEF Frames
<1>13. Bodies' = Bodies
  BY <1>2, <1>3 DEF Bodies
<1>14. Cardinality(Back(run')) = Cardinality(Back(run))
  <2>1. Cardinality(Back(run')) = Cardinality(Back(run)) - Cardinality(Marks(run[t]))
                                    + Cardinality(Marks(s))
    BY <1>1, <1>8, <1>9, BackMoves
  <2>2. Cardinality(Back(run)) \in Nat
    BY <1>1, BackFinite
  <2>. QED
    BY <1>7, <1>9, <2>1, <2>2
<1>. QED
  BY <1>1, <1>12, <1>13, <1>14, CountIs, CountIsNext DEF Tally

\* A thread goes off the count when the dial was taken back.
LEMMA UncountTally ==
    ASSUME Tally, Inv', NEW t \in Threads, Uncount(t)
    PROVE  Tally'
<1>1. /\ run \in [Threads -> Stacks] /\ run[t] \in Stacks /\ run[t] # <<>>
      /\ Head(run[t]).at = "uncount" /\ run[t] \in Seq(Calls) /\ ~At(t, "lost")
      /\ threads' = threads - 1 /\ run' = [run EXCEPT ![t] = Tail(run[t])] /\ conn' = conn
  BY StackMoves DEF Tally, Inv, Places, Uncount, At
<1>2. Tail(run[t]) \in Stacks /\ Tail(run[t]) \in Seq(Calls)
  BY <1>1, StackMoves
<1>3. \A i \in DOMAIN Tail(run[t]) : Tail(run[t])[i].at # "lost"
  BY <1>1, NoLostBelow DEF Tally, Inv
<1>4. \A o \in Objs : run'[o] # <<>> => conn'[o].phase = "gone"
  <2>1. \A p \in Objs : run'[p] # <<>> => run[p] # <<>>
    BY <1>1 DEF Threads
  <2>. QED
    BY <1>1, <2>1 DEF Tally, Frames
<1>5. Frames'
  BY <1>1, <1>2, <1>3, <1>4, MovedFrames DEF Tally, Inv
<1>6. Cardinality(Marks(run[t])) = Cardinality(Marks(Tail(run[t]))) + 1
  <2>1. Marked(Head(run[t]))
    BY <1>1 DEF Marked
  <2>2. Cardinality(Marks(run[t])) = Cardinality(Marks(Tail(run[t])))
                                       + IF Marked(Head(run[t])) THEN 1 ELSE 0
    BY <1>1, MarksBelow
  <2>. QED
    BY <2>1, <2>2
<1>7. Cardinality(Back(run')) = Cardinality(Back(run)) - Cardinality(Marks(run[t]))
                                  + Cardinality(Marks(Tail(run[t])))
  BY <1>1, <1>2, BackMoves
<1>8. /\ Cardinality(Marks(Tail(run[t]))) \in Nat /\ Cardinality(Back(run)) \in Nat
      /\ Cardinality(Bodies) \in Nat /\ threads = Cardinality(Bodies) + Cardinality(Back(run))
  BY <1>1, <1>2, MarksFinite, BackFinite, BodiesFinite, CountIs DEF Tally
<1>9. threads' = Cardinality(Bodies) + Cardinality(Back(run'))
  BY <1>1, <1>6, <1>7, <1>8
<1>10. Bodies' = Bodies
  BY <1>1 DEF Bodies
<1>. QED
  BY <1>5, <1>9, <1>10, CountIsNext DEF Tally

\* A call of Connect that returns.
LEMMA EndConnectTally ==
    ASSUME Tally, Inv', NEW t \in Threads, EndConnect(t)
    PROVE  Tally'
<1>1. /\ run \in [Threads -> Stacks] /\ run[t] \in Stacks /\ run[t] # <<>>
      /\ Head(run[t]).at \in Passes /\ run[t] \in Seq(Calls)
      /\ threads' = threads /\ run' = [run EXCEPT ![t] = Tail(run[t])] /\ conn' = conn
  BY DistinctThreads, StackMoves DEF Tally, Inv, Places, EndConnect, Threads
<1>2. ~At(t, "lost") /\ ~Marked(Head(run[t]))
  BY <1>1 DEF At, Marked, Passes
<1>3. Tail(run[t]) \in Stacks /\ Tail(run[t]) \in Seq(Calls)
  BY <1>1, StackMoves
<1>4. \A i \in DOMAIN Tail(run[t]) : Tail(run[t])[i].at # "lost"
  BY <1>1, NoLostBelow DEF Tally, Inv
<1>5. \A o \in Objs : run'[o] # <<>> => conn'[o].phase = "gone"
  <2>1. \A p \in Objs : run'[p] # <<>> => run[p] # <<>>
    BY <1>1 DEF Threads
  <2>. QED
    BY <1>1, <2>1 DEF Tally, Frames
<1>6. Frames'
  BY <1>1, <1>2, <1>3, <1>4, <1>5, MovedFrames DEF Tally, Inv
<1>7. /\ Cardinality(Marks(Tail(run[t]))) \in Nat /\ Cardinality(Back(run)) \in Nat
      /\ threads = Cardinality(Bodies) + Cardinality(Back(run))
  BY <1>1, <1>3, MarksFinite, BackFinite, CountIs DEF Tally
<1>8. Cardinality(Marks(run[t])) = Cardinality(Marks(Tail(run[t])))
  <2>1. Cardinality(Marks(run[t])) = Cardinality(Marks(Tail(run[t])))
                                       + IF Marked(Head(run[t])) THEN 1 ELSE 0
    BY <1>1, MarksBelow
  <2>. QED
    BY <1>2, <1>7, <2>1
<1>9. Cardinality(Back(run')) = Cardinality(Back(run)) - Cardinality(Marks(run[t]))
                                  + Cardinality(Marks(Tail(run[t])))
  BY <1>1, <1>3, BackMoves
<1>10. Cardinality(Back(run')) = Cardinality(Back(run))
  BY <1>7, <1>8, <1>9
<1>11. Bodies' = Bodies
  BY <1>1 DEF Bodies
<1>. QED
  BY <1>1, <1>6, <1>7, <1>10, <1>11, CountIsNext DEF Tally

\* Connect counts a dial before it starts, and takes it back when it does not.
LEMMA ConnectTally ==
    ASSUME Tally, Inv', NEW t \in Threads, OfConnect(t)
    PROVE  Tally'
<1>. DEFINE note == [at |-> "notified"]
<1>1. note \in Calls /\ ~Marked(note) /\ note.at # "drain"
  BY DEF Calls, Marked
<1>2. /\ Cardinality(Back(run)) \in Nat /\ Cardinality(Bodies) \in Nat
      /\ threads = Cardinality(Bodies) + Cardinality(Back(run))
  BY BackFinite, BodiesFinite, CountIs DEF Tally, Inv, Places
<1>3. ASSUME NEW still, Notified(t, still) PROVE Tally'
  <2>1. run[t] # <<>> /\ ~Marked(Head(run[t])) /\ Enter(t, still) /\ threads' = threads
    BY <1>3 DEF Notified, At, Marked, Enter
  <2>. QED
    BY <2>1, EnterTally
<1>4. ASSUME NEW behind, NEW still, Begin(t, behind, still) PROVE Tally'
  <2>1. run[t] # <<>> /\ ~Marked(Head(run[t])) /\ ~At(t, "lost")
    BY <1>4 DEF Begin, At, Marked
  <2>2. CASE Enter(t, still)
    <3>1. threads' = threads
      BY <2>2 DEF Enter
    <3>. QED
      BY <2>1, <2>2, <3>1, EnterTally
  <2>3. CASE Goes(t, note) /\ UNCHANGED <<conn, threads>>
    <3>1. Bodies' = Bodies
      BY <2>3 DEF Bodies
    <3>2. threads' \in Int /\ threads' - threads = Cardinality(Bodies') - Cardinality(Bodies)
      BY <1>2, <2>3, <3>1
    <3>. QED
      BY <1>1, <2>1, <2>3, <3>2, GoesTally
  <2>. QED
    BY <1>4, <2>2, <2>3 DEF Begin
<1>5. CASE Found(t)
  <2>1. run[t] # <<>> /\ ~Marked(Head(run[t])) /\ Goes(t, Place(TRUE)) /\ conn' = conn /\ threads' = threads
    BY <1>5 DEF Found, At, Marked
  <2>2. Place(TRUE) \in Calls /\ ~Marked(Place(TRUE)) /\ Place(TRUE).at # "drain"
    BY PlaceIsCall DEF Marked, Passes
  <2>3. Bodies' = Bodies
    BY <2>1 DEF Bodies
  <2>4. threads' \in Int /\ threads' - threads = Cardinality(Bodies') - Cardinality(Bodies)
    BY <1>2, <2>1, <2>3
  <2>. QED
    BY <2>1, <2>2, <2>4, GoesTally
<1>6. CASE Dial(t)
  BY <1>6, DialTally
<1>7. CASE EndConnect(t)
  BY <1>7, EndConnectTally
<1>8. CASE DialNotStarted(t)
  BY <1>8, DialNotStartedTally
<1>9. CASE Uncount(t)
  BY <1>9, UncountTally
<1>. QED
  BY <1>3, <1>4, <1>5, <1>6, <1>7, <1>8, <1>9 DEF OfConnect

\* Calls of the application begin and end without a dial being taken back.
LEMMA CallTally ==
    ASSUME Tally, Inv', OfCallers
    PROVE  Tally'
<1>1. /\ run \in [Threads -> Stacks] /\ App \in Threads
      /\ conn \in [Objs -> [addr : Addrs \cup {None}, phase : Phases, cut : BOOLEAN,
                           joined : BOOLEAN]]
      /\ run[App] \in Seq(Calls)
  BY StackMoves DEF Tally, Inv, Links, Shape, Places, Threads
<1>2. ASSUME run' = run, threads' = threads, conn' = conn PROVE Tally'
  BY <1>2, SameTally
<1>3. ASSUME NEW s, s = <<>> \/ \E c \in Calls : ~Marked(c) /\ s = <<c>>,
             run' = [run EXCEPT ![App] = s], Marks(run[App]) = {}, threads' = threads,
             \A o \in Objs : conn'[o].phase = conn[o].phase
      PROVE  Tally'
  <2>1. s \in Stacks /\ Marks(s) = {}
    <3>1. <<>> \in Stacks /\ Marks(<<>>) = {}
      BY DEF Stacks, Marks
    <3>2. ASSUME NEW c \in Calls, ~Marked(c) PROVE <<c>> \in Stacks /\ Marks(<<c>>) = {}
      <4>1. <<c>> \in Seq(Calls) /\ Len(<<c>>) = 1 /\ <<c>>[1] = c /\ DOMAIN <<c>> = 1..1
        OBVIOUS
      <4>. QED
        BY <3>2, <4>1 DEF Stacks, Marks, Marked
    <3>. QED
      BY <1>3, <3>1, <3>2
  <2>2. \A o \in Objs : run'[o] # <<>> => conn'[o].phase = "gone"
    <3>1. \A o \in Objs : run'[o] = run[o]
      BY <1>1, <1>3, DistinctThreads DEF Threads
    <3>. QED
      BY <1>3, <3>1 DEF Tally, Frames
  <2>3. Bodies' = Bodies
    BY <1>3 DEF Bodies
  <2>. QED
    BY <1>1, <1>3, <2>1, <2>2, <2>3, UnmarkedMoves
<1>4. /\ [at |-> "begin"] \in Calls /\ ~Marked([at |-> "begin"])
      /\ [at |-> "drain", cap |-> cap] \in Calls /\ ~Marked([at |-> "drain", cap |-> cap])
  BY DEF Calls, Marked, Tally, Inv, Places
<1>5. Marks(<<>>) = {}
  BY DEF Marks
<1>6. ASSUME NEW S PROVE \A o \in Objs : Closed(conn, S)[o].phase = conn[o].phase
  BY <1>1, ClosedKeeps
<1>7. CASE (\E answer \in SUBSET Filters : Lookup(answer)) \/ (\E a \in Addrs : AddPeer(a)) \/ Free
  BY <1>2, <1>7 DEF Lookup, AddPeer, Free
<1>8. CASE Connect
  BY <1>3, <1>4, <1>5, <1>8 DEF Connect, Calling
<1>9. ASSUME NEW n \in Caps, SetMaxConnectCount(n) PROVE Tally'
  BY <1>2, <1>3, <1>4, <1>5, <1>9 DEF SetMaxConnectCount, Calling
<1>10. ASSUME NEW height, Rescan(height) PROVE Tally'
  BY <1>3, <1>4, <1>5, <1>6, <1>10 DEF Rescan, Calling
<1>11. CASE Disconnect
  BY <1>3, <1>4, <1>5, <1>6, <1>11 DEF Disconnect, Calling
<1>12. ASSUME NEW inTime, Disconnected(inTime) PROVE Tally'
  <2>1. Marks(run[App]) = {}
    <3>1. run[App] # <<>> /\ Head(run[App]).at = "drain" /\ run[App] \in Stacks
      BY <1>1, <1>12 DEF Disconnected, At
    <3>2. Tail(run[App]) = <<>>
      BY <3>1, StackBelow
    <3>3. DOMAIN run[App] = {1} /\ run[App][1] = Head(run[App])
      <4>1. Len(Tail(run[App])) = Len(run[App]) - 1 /\ Len(Tail(run[App])) = 0
        <5>. DEFINE q == run[App]
                    p == Tail(q)
        <5>1. q \in Seq(Calls) /\ q # <<>> /\ p = <<>> /\ p = Tail(q)
          BY <1>1, <3>1, <3>2
        <5>. HIDE DEF q
        <5>2. Len(p) = Len(q) - 1
          BY <5>1
        <5>. HIDE DEF p
        <5>3. Len(p) = 0
          BY <5>1
        <5>. QED
          BY <5>2, <5>3 DEF p, q
      <4>2. Len(run[App]) = 1
        BY <1>1, <4>1
      <4>. QED
        BY <1>1, <4>2
    <3>. QED
      BY <3>1, <3>3 DEF Marks
  <2>. QED
    BY <1>3, <1>12, <2>1 DEF Disconnected
<1>. QED
  BY <1>7, <1>8, <1>9, <1>10, <1>11, <1>12 DEF OfCallers

\* A manager begins with no thread and a count of none.
LEMMA InitTally == Init => Tally
<1>. SUFFICES ASSUME Init PROVE Tally
  OBVIOUS
<1>1. Inv
  BY InitEstablishes
<1>2. /\ \A t \in Threads : run[t] = <<>> /\ Marks(run[t]) = {}
      /\ \A o \in Objs : run[o] = <<>> /\ conn[o].phase = "none"
      /\ threads = 0
  BY DEF Init, Unborn, Threads, Marks
<1>3. Frames
  BY <1>2 DEF Frames, At
<1>4. Back(run) = {} /\ Bodies = {}
  BY <1>2 DEF Back, Bodies
<1>5. Cardinality(Back(run)) = 0 /\ Cardinality(Bodies) = 0
  BY <1>4, FS_EmptySet
<1>. QED
  BY <1>1, <1>2, <1>3, <1>5, CountIs DEF Tally

\* Every step keeps the count.
LEMMA NextTally == Tally /\ [Next]_vars => Tally'
<1>. SUFFICES ASSUME Tally, [Next]_vars PROVE Tally'
  OBVIOUS
<1>1. Inv'
  BY NextPreserves DEF Tally
<1>2. ASSUME NEW o \in Objs, OfPeer(o) PROVE Tally'
  BY <1>1, <1>2, PeerTally
<1>3. ASSUME NEW t \in Threads, OfConnect(t) PROVE Tally'
  BY <1>1, <1>3, ConnectTally
<1>4. CASE OfCallers
  BY <1>1, <1>4, CallTally
<1>5. CASE UNCHANGED vars
  BY <1>1, <1>5, SameTally DEF vars
<1>. QED
  BY <1>2, <1>3, <1>4, <1>5 DEF Next, Freed

\* peerThreadCount counts every thread, and every dial that is still to be taken back, once.
THEOREM ThreadsCounted == Spec => []ThreadsAreCounted
<1>1. Tally => ThreadsAreCounted
  BY DEF Tally
<1>. QED
  BY <1>1, InitTally, NextTally, PTL DEF Spec

----------------------------------------------------------------------------
(* What hangs on the count *)

\* No object has a connection, a dial or a call.
Idle == \A o \in Objs : conn[o].phase = "none" /\ run[o] = <<>>

\* Without a thread nobody is in a call, but perhaps the application.
LEMMA NobodyLeft == Tally /\ threads = 0 => Idle
<1>. SUFFICES ASSUME Tally, threads = 0 PROVE Idle
  OBVIOUS
<1>1. Bodies = {} /\ Back(run) = {}
  <2>1. /\ Cardinality(Back(run)) \in Nat /\ Cardinality(Bodies) \in Nat
        /\ Cardinality(Bodies) + Cardinality(Back(run)) = 0
    BY BackFinite, BodiesFinite, CountIs DEF Tally, Inv, Places
  <2>2. Cardinality(Back(run)) = 0 /\ Cardinality(Bodies) = 0
    BY <2>1
  <2>3. IsFiniteSet(Back(run)) /\ IsFiniteSet(Bodies)
    BY BackFinite, BodiesFinite DEF Tally, Inv, Places
  <2>. QED
    BY <2>2, <2>3, FS_EmptySet
<1>2. \A t \in Threads : ~At(t, "lost")
  <2>. SUFFICES ASSUME NEW t \in Threads, At(t, "lost") PROVE FALSE
    OBVIOUS
  <2>1. run[t] \in Seq(Calls) /\ run[t] # <<>>
    BY StackMoves DEF Tally, Inv, Places, At
  <2>2. 1 \in DOMAIN run[t] /\ run[t][1].at = "lost"
    BY <2>1 DEF At
  <2>3. <<t, 1>> \in Back(run)
    BY <2>2 DEF Back, Marks
  <2>. QED
    BY <1>1, <2>3
<1>3. \A o \in Objs : conn[o].phase # "failed"
  BY <1>2 DEF Tally, Frames
<1>4. \A o \in Objs : conn[o].phase = "none"
  BY <1>1, <1>3 DEF Bodies
<1>. QED
  BY <1>4 DEF Idle, Tally, Frames

\* A stopped manager is at rest until a call, and a released one for good.
Rest ==
    /\ dns \in Nat
    /\ freeing # "no" => run[App] = <<>>
    /\ asked = "down" => Idle /\ run[App] = <<>>
    /\ freeing = "freed" => Idle /\ run[App] = <<>> /\ dns = 0

\* A peer's thread has nothing to do when stopped, and is the last when it releases.
LEMMA PeerRest ==
    ASSUME Tally, Tally', Rest, freeing # "freed", NEW o \in Objs, OfPeer(o)
    PROVE  Rest'
<1>1. (threads = 0 => Idle)'
  BY NobodyLeft, PTL
<1>2. asked # "down"
  BY DEF Rest, Idle, OfPeer, OpenSocket, DidConnect, ThreadEnds, ThreadCleanup, PostSyncDone,
         PeerMisbehavin, PeerConnected, PeerDisconnected, RelayedBlock, RelayedPeer
<1>3. run'[App] = run[App]
  <2>1. run' = run \/ \E s : run' = [run EXCEPT ![o] = s]
    BY DEF OfPeer, OpenSocket, DidConnect, ThreadEnds, ThreadCleanup, PostSyncDone,
           PeerMisbehavin, PeerConnected, PeerDisconnected, Lose, RelayedBlock, RelayedPeer
  <2>. QED
    BY <2>1, DistinctThreads DEF Tally, Inv, Places, Threads
<1>4. /\ dns' = dns /\ asked' = asked
      /\ freeing' = freeing \/ (freeing = "deferred" /\ threads' = 0 /\ dns' = 0)
  BY DEF OfPeer, OpenSocket, DidConnect, ThreadEnds, ThreadCleanup, PostSyncDone, FreeDue,
         PeerMisbehavin, PeerConnected, PeerDisconnected, Lose, RelayedBlock, RelayedPeer
<1>. QED
  BY <1>1, <1>2, <1>3, <1>4 DEF Rest

\* A call of Connect has begun before the stop, which waited for it.
LEMMA ConnectRest ==
    ASSUME Tally, Rest, freeing # "freed", NEW t \in Threads, OfConnect(t)
    PROVE  Rest'
<1>1. run[t] # <<>>
  BY DistinctThreads DEF Tally, Inv, Places, OfConnect, Notified, Begin, Found, Dial, EndConnect,
     DialNotStarted, Uncount, At, Threads
<1>2. asked # "down"
  BY <1>1 DEF Rest, Idle, Threads
<1>3. /\ asked' = asked /\ freeing' = freeing
      /\ dns' \in {dns, dns + 1}
  BY ZenonT(60) DEF OfConnect, Notified, Begin, Enter, Found, Dial, EndConnect, DialNotStarted, Lose, Uncount
<1>4. \E s : run' = [run EXCEPT ![t] = s]
  BY DEF OfConnect, Notified, Begin, Enter, Found, Dial, EndConnect, DialNotStarted, Lose, Uncount,
         Goes
<1>5. freeing # "no" => run'[App] = run[App]
  <2>1. freeing # "no" => t # App
    BY <1>1 DEF Rest
  <2>. QED
    BY <1>4, <2>1 DEF Tally, Inv, Places, Threads
<1>. QED
  BY <1>2, <1>3, <1>5 DEF Rest

\* The application's own calls, and the DNS threads.
LEMMA CallRest ==
    ASSUME Tally, Tally', Rest, freeing # "freed", OfCallers
    PROVE  Rest'
<1>1. threads = 0 => Idle
  BY NobodyLeft
<1>2. (threads = 0 => Idle)'
  BY NobodyLeft, PTL
<1>3. run \in [Threads -> Stacks] /\ App \in Threads /\ \A o \in Objs : o \in Threads /\ o # App
  BY DistinctThreads DEF Tally, Inv, Places, Threads
<1>4. ASSUME NEW answer, Lookup(answer) PROVE Rest'
  <2>1. dns - 1 \in Nat /\ dns' = dns - 1 /\ threads' = threads /\ run' = run /\ conn' = conn
        /\ asked' = asked
    BY <1>4 DEF Lookup, Rest
  <2>2. freeing' = freeing \/ (freeing = "deferred" /\ threads = 0 /\ dns' = 0)
    BY <1>4 DEF Lookup, FreeDue
  <2>. QED
    BY <1>1, <2>1, <2>2 DEF Rest, Idle
<1>5. CASE Connect
  BY <1>5 DEF Connect, Calling, Rest
<1>6. ASSUME NEW a, AddPeer(a) PROVE Rest'
  BY <1>6 DEF AddPeer, Calling, Rest, Idle
<1>7. ASSUME NEW n, SetMaxConnectCount(n) PROVE Rest'
  BY <1>7 DEF SetMaxConnectCount, Calling, Rest, Idle
<1>8. ASSUME NEW height, Rescan(height) PROVE Rest'
  BY <1>8 DEF Rescan, Calling, Rest
<1>9. CASE Disconnect
  BY <1>9 DEF Disconnect, Calling, Rest
<1>10. ASSUME NEW inTime, Disconnected(inTime) PROVE Rest'
  <2>1. /\ run' = [run EXCEPT ![App] = <<>>] /\ conn' = conn /\ dns' = dns /\ freeing' = freeing
        /\ asked' = "down" => threads = 0
    BY <1>10 DEF Disconnected, Drained
  <2>2. run'[App] = <<>> /\ \A o \in Objs : run'[o] = run[o]
    BY <1>3, <2>1
  <2>. QED
    BY <1>1, <2>1, <2>2 DEF Rest, Idle
<1>11. CASE Free
  <2>1. /\ run[App] = <<>> /\ run' = run /\ conn' = conn /\ dns' = dns /\ asked' = asked
        /\ freeing' = "freed" => ~(threads + dns > 0)
    BY <1>11 DEF Free, Calling
  <2>2. threads \in Nat /\ dns \in Nat
    BY BackFinite, BodiesFinite, CountIs DEF Tally, Inv, Places, Rest
  <2>3. freeing' = "freed" => threads = 0 /\ dns = 0
    BY <2>1, <2>2
  <2>. QED
    BY <1>1, <2>1, <2>3 DEF Rest, Idle
<1>. QED
  BY <1>4, <1>5, <1>6, <1>7, <1>8, <1>9, <1>10, <1>11 DEF OfCallers

\* A manager begins neither stopped nor freed.
LEMMA InitRest == Init => Rest
BY DEF Init, Rest, Idle, Unborn, Threads

\* A stopped manager stays quiet, and a freed one is alone, over every step.
LEMMA NextRest == Tally /\ Rest /\ [Next]_vars => Tally' /\ Rest'
<1>. SUFFICES ASSUME Tally, Rest, [Next]_vars PROVE Tally' /\ Rest'
  OBVIOUS
<1>1. Tally'
  BY NextTally
<1>2. CASE UNCHANGED vars
  BY <1>1, <1>2 DEF vars, Rest, Idle
<1>3. CASE freeing # "freed" /\ \E o \in Objs : OfPeer(o)
  BY <1>1, <1>3, PeerRest
<1>4. CASE freeing # "freed" /\ \E t \in Threads : OfConnect(t)
  BY <1>1, <1>4, ConnectRest
<1>5. CASE freeing # "freed" /\ OfCallers
  BY <1>1, <1>5, CallRest
<1>. QED
  BY <1>2, <1>3, <1>4, <1>5 DEF Next, Freed

\* A Disconnect that returned 1 has stopped every connection, dial and thread, whatever was
\* in flight when it was called.
THEOREM StopStops == Spec => []StaysDown
<1>1. Rest => StaysDown
  BY DEF Rest, Idle, StaysDown, Listed
<1>. QED
  BY <1>1, InitTally, InitRest, NextRest, PTL DEF Spec

\* A manager whose release was deferred is released by its last thread, and nobody is left
\* to touch it.
THEOREM ReleasedAlone == Spec => []FreedAlone
<1>1. Rest => FreedAlone
  BY DEF Rest, Idle, FreedAlone, Alive, Threads
<1>. QED
  BY <1>1, InitTally, InitRest, NextRest, PTL DEF Spec

----------------------------------------------------------------------------
(* Who owes a deferred release *)

\* A deferred release waits for a thread.
Owed == freeing = "deferred" => threads > 0 \/ dns > 0

\* The count of threads never passes below zero.
LEMMA CountNat == Tally => threads \in Nat
BY BodiesFinite, BackFinite, CountIs DEF Tally, Inv, Places

\* The last thread to end carries a deferred release out.
LEMMA PeerOwed ==
    ASSUME Tally', Owed, Rest, NEW o \in Objs, OfPeer(o)
    PROVE  Owed'
<1>1. CASE ThreadCleanup(o)
  <2>1. (threads \in Nat)'
    BY CountNat, PTL
  <2>2. dns' = dns /\ dns \in Nat /\ (freeing' = "deferred" => ~(threads' = 0 /\ dns = 0))
    BY <1>1 DEF ThreadCleanup, FreeDue, Rest
  <2>. QED
    BY <2>1, <2>2 DEF Owed
<1>2. CASE ~ThreadCleanup(o)
  <2>1. UNCHANGED <<freeing, threads, dns>>
    BY <1>2 DEF OfPeer, OpenSocket, DidConnect, ThreadEnds, PostSyncDone,
                PeerMisbehavin, PeerConnected, PeerDisconnected, Lose, RelayedBlock, RelayedPeer
  <2>. QED
    BY <2>1 DEF Owed
<1>. QED
  BY <1>1, <1>2

\* A thread in a call of Connect is not over.
LEMMA ConnectOwed ==
    ASSUME Tally, Tally', Rest, NEW t \in Threads, OfConnect(t)
    PROVE  Owed'
<1>. SUFFICES ASSUME freeing' = "deferred" PROVE threads' > 0
  BY DEF Owed
<1>1. run[t] # <<>> /\ freeing' = freeing
  BY DistinctThreads DEF Tally, Inv, Places, OfConnect, Notified, Begin, Enter, Found, Dial, EndConnect,
     DialNotStarted, Lose, Uncount, At, Threads
<1>2. t \in Objs /\ conn[t].phase = "gone"
  BY <1>1 DEF Rest, Threads, Tally, Frames
<1>3. conn'[t].phase = "gone"
  <2>1. conn \in [Objs -> [addr : Addrs \cup {None}, phase : Phases, cut : BOOLEAN,
                           joined : BOOLEAN]]
    BY DEF Tally, Inv, Links, Shape
  <2>2. CASE DialNotStarted(t)
    <3>1. conn[Head(run[t]).obj].phase = "failed"
      BY <2>2 DEF DialNotStarted, Tally, Frames
    <3>. QED
      BY <1>2, <2>1, <2>2, <3>1 DEF DialNotStarted, Lose, Released
  <2>3. CASE Dial(t)
    BY <1>2, <2>1, <2>3 DEF Dial, Spare
  <2>4. ASSUME NEW still, Enter(t, still) PROVE conn'[t].phase = "gone"
    BY <1>2, <2>1, <2>4 DEF Enter
  <2>. QED
    BY <1>2, <2>2, <2>3, <2>4 DEF OfConnect, Notified, Begin, Found, EndConnect, Uncount
<1>4. threads' # 0
  <2>1. (threads = 0 => Idle)'
    BY NobodyLeft, PTL
  <2>. QED
    BY <1>2, <1>3, <2>1 DEF Idle
<1>5. (threads \in Nat)'
  BY CountNat, PTL
<1>. QED
  BY <1>4, <1>5

\* So does the last DNS thread; a release is deferred only where one is left.
LEMMA CallOwed ==
    ASSUME Tally, Owed, Rest, OfCallers
    PROVE  Owed'
<1>1. threads \in Nat /\ dns \in Nat
  BY CountNat DEF Rest
<1>2. ASSUME NEW answer, Lookup(answer) PROVE Owed'
  <2>1. /\ dns > 0 /\ threads' = threads /\ dns' = dns - 1
        /\ freeing' = "deferred" => ~(threads = 0 /\ dns - 1 = 0)
    BY <1>2 DEF Lookup, FreeDue
  <2>. QED
    BY <1>1, <2>1 DEF Owed
<1>3. CASE Free
  BY <1>1, <1>3 DEF Free, Owed
<1>4. ASSUME NEW inTime, Disconnected(inTime) PROVE Owed'
  BY <1>4 DEF Disconnected, At, Owed, Rest
<1>5. CASE \/ Connect \/ Disconnect
           \/ \E a \in Addrs : AddPeer(a)
           \/ \E n \in Caps : SetMaxConnectCount(n)
           \/ \E height \in 1..tip : Rescan(height)
  BY <1>5 DEF Connect, Disconnect, AddPeer, SetMaxConnectCount, Rescan, Calling, Owed
<1>. QED
  BY <1>2, <1>3, <1>4, <1>5 DEF OfCallers

\* A release that was put off still has a thread that will see to it.
LEMMA NextOwed == Tally /\ Rest /\ Owed /\ [Next]_vars => Owed'
<1>. SUFFICES ASSUME Tally, Rest, Owed, [Next]_vars PROVE Owed'
  OBVIOUS
<1>1. Tally'
  BY NextTally
<1>2. ASSUME NEW o \in Objs, OfPeer(o) PROVE Owed'
  BY <1>1, <1>2, PeerOwed
<1>3. ASSUME NEW t \in Threads, OfConnect(t) PROVE Owed'
  BY <1>1, <1>3, ConnectOwed
<1>4. CASE OfCallers
  BY <1>4, CallOwed
<1>5. CASE UNCHANGED vars
  BY <1>5 DEF vars, Owed
<1>. QED
  BY <1>2, <1>3, <1>4, <1>5 DEF Next, Freed

\* A release that was deferred is never forgotten: a DNS thread, a peer's thread or a
\* dial that waits for the network is left, whose end carries it out.
THEOREM ReleaseIsOwed == Spec => []DeferredFreeIsOwed
<1>1. Init => Owed
  BY DEF Init, Owed
<1>2. Tally /\ Rest /\ Owed => DeferredFreeIsOwed
  <2>. SUFFICES ASSUME Tally, Rest, Owed, freeing = "deferred", ~(dns > 0)
                PROVE  \E o \in Objs : Alive(o) \/ conn[o].phase = "waiting"
    BY DEF DeferredFreeIsOwed
  <2>. SUFFICES ASSUME \A o \in Objs : ~Alive(o) /\ conn[o].phase # "waiting" PROVE FALSE
    OBVIOUS
  <2>1. Bodies = {}
    BY DEF Bodies, Alive, Tally, Inv, Links, Shape, Phases
  <2>2. \A u \in Threads : run[u] = <<>>
    BY DEF Rest, Tally, Frames, Alive, Threads
  <2>3. Back(run) = {}
    BY <2>2 DEF Back, Marks
  <2>4. Cardinality(Bodies) = 0 /\ Cardinality(Back(run)) = 0
    BY <2>1, <2>3, FS_EmptySet
  <2>5. threads = 0
    BY <2>4, CountIs DEF Tally
  <2>. QED
    BY <2>5 DEF Owed
<1>. QED
  BY <1>1, <1>2, InitTally, InitRest, NextRest, NextOwed, PTL DEF Spec

----------------------------------------------------------------------------
(* Types, and the end of a sync *)

\* The fields the invariants of the other proofs leave open.
Fields ==
    /\ penalised \subseteq Addrs /\ download \in Objs \cup {None} /\ failures \in Nat
    /\ dns \in 0..MaxLookups /\ tip \in Nat
    /\ freeing \in {"no", "deferred", "freed"} /\ asked \in {"up", "stopping", "down", "gaveUp"}

----------------------------------------------------------------------------
(* Types *)

\* A lost connection leaves the fields in range ...
LEMMA LoseFields ==
    ASSUME Fields, Inv, NEW t, NEW o \in Objs, NEW error, NEW after, Lose(t, o, error, after)
    PROVE  Fields'
<1>1. /\ UNCHANGED <<dns, tip, freeing, asked>> /\ penalised' = Penalised(conn[o].addr)
      /\ download' \in IF download = o THEN NextDownloadPeer(o) ELSE {download}
  BY DEF Lose
<1>2. failures' \in Nat
  BY Bounds DEF Lose, Clamped, Fields
<1>3. download' \in Objs \cup {None}
  BY <1>1 DEF NextDownloadPeer, Best, Up, Fields
<1>4. penalised' \subseteq Addrs
  BY <1>1, SmallPool DEF Penalised, Fields
<1>. QED
  BY <1>1, <1>2, <1>3, <1>4 DEF Fields

\* ... and so do the other steps of a peer's thread, ...
LEMMA PeerFields ==
    ASSUME Fields, Inv, NEW o \in Objs, OfPeer(o)
    PROVE  Fields'
<1>1. CASE OpenSocket(o) \/ DidConnect(o) \/ ThreadEnds(o) \/ ThreadCleanup(o)
  BY <1>1 DEF OpenSocket, DidConnect, ThreadEnds, ThreadCleanup, Fields
<1>2. CASE \/ PostSyncDone(o) \/ PeerMisbehavin(o) \/ \E last \in BOOLEAN : RelayedBlock(o, last)
           \/ \E a \in Filters : RelayedPeer(o, a)
  BY <1>2 DEF PostSyncDone, PeerMisbehavin, RelayedBlock, RelayedPeer, Fields
<1>3. ASSUME NEW services, PeerConnected(o, services) PROVE Fields'
  <2>1. /\ UNCHANGED <<dns, tip, freeing, asked>>
        /\ penalised' = penalised \/ penalised' = Penalised(conn[o].addr)
        /\ download' = download \/ download' \in Best(Up)
        /\ failures' \in {0, failures}
    BY <1>3 DEF PeerConnected
  <2>2. penalised' \subseteq Addrs /\ download' \in Objs \cup {None}
    BY <2>1, SmallPool DEF Penalised, Best, Up, Fields
  <2>. QED
    BY <2>1, <2>2 DEF Fields
<1>4. ASSUME NEW error, PeerDisconnected(o, error) PROVE Fields'
  BY <1>4, LoseFields DEF PeerDisconnected
<1>. QED
  BY <1>1, <1>2, <1>3, <1>4 DEF OfPeer

\* ... the steps of Connect ...
LEMMA ConnectFields ==
    ASSUME Fields, Inv, Frames, NEW t \in Threads, OfConnect(t)
    PROVE  Fields'
<1>1. ASSUME NEW still \in SUBSET penalised, dns < MaxLookups, Enter(t, still),
             failures' \in Nat
      PROVE  Fields'
  <2>1. /\ UNCHANGED <<download, tip, freeing, asked>> /\ penalised' \subseteq Addrs
        /\ dns' = dns \/ dns' = dns + 1
    BY <1>1 DEF Enter, Fields
  <2>2. dns' \in 0..MaxLookups
    BY <1>1, <2>1, Bounds DEF Fields
  <2>. QED
    BY <1>1, <2>1, <2>2 DEF Fields
<1>2. ASSUME NEW still \in SUBSET penalised, Notified(t, still) PROVE Fields'
  BY <1>1, <1>2 DEF Notified, Fields
<1>3. ASSUME NEW behind, NEW still \in SUBSET penalised, Begin(t, behind, still) PROVE Fields'
  <2>1. failures' \in Nat /\ dns < MaxLookups
    BY <1>3 DEF Begin, Fields
  <2>2. CASE Enter(t, still)
    BY <1>1, <2>1, <2>2 DEF Fields
  <2>3. CASE UNCHANGED <<penalised, download, dns, tip, freeing, asked>>
    BY <2>1, <2>3, SMTT(60) DEF Fields
  <2>. QED
    BY <1>3, <2>2, <2>3 DEF Begin
<1>4. CASE Found(t) \/ Dial(t) \/ EndConnect(t) \/ Uncount(t)
  BY <1>4 DEF Found, Dial, EndConnect, Uncount, Fields
<1>5. CASE DialNotStarted(t)
  <2>1. Head(run[t]).obj \in Objs
    BY <1>5 DEF Frames, DialNotStarted
  <2>. QED
    BY <1>5, <2>1, LoseFields DEF DialNotStarted
<1>. QED
  BY <1>2, <1>3, <1>4, <1>5 DEF OfConnect

\* ... and the calls of the application and of a lookup.
LEMMA CallFields ==
    ASSUME Fields, OfCallers
    PROVE  Fields'
<1>1. ASSUME NEW answer, Lookup(answer) PROVE Fields'
  <2>1. dns' \in 0..MaxLookups /\ (freeing' = "freed" \/ freeing' = freeing)
    BY <1>1, Bounds DEF Lookup, Fields
  <2>. QED
    BY <1>1, <2>1 DEF Lookup, Fields
<1>2. CASE Connect \/ (\E a \in Addrs : AddPeer(a)) \/ \E n \in Caps : SetMaxConnectCount(n)
  BY <1>2 DEF Connect, AddPeer, SetMaxConnectCount, Fields
<1>3. ASSUME NEW height \in 1..tip, Rescan(height) PROVE Fields'
  BY <1>3 DEF Rescan, Fields
<1>4. CASE Disconnect \/ Free
  BY <1>4, Bounds DEF Disconnect, Free, Fields
<1>5. ASSUME NEW inTime, Disconnected(inTime) PROVE Fields'
  BY <1>5 DEF Disconnected, Fields
<1>. QED
  BY <1>1, <1>2, <1>3, <1>4, <1>5 DEF OfCallers

\* Every step leaves the fields in range.
LEMMA NextFields == Tally /\ Fields /\ [Next]_vars => Fields'
<1>. SUFFICES ASSUME Tally, Fields, [Next]_vars PROVE Fields'
  OBVIOUS
<1>1. ASSUME NEW o \in Objs, OfPeer(o) PROVE Fields'
  BY <1>1, PeerFields DEF Tally
<1>2. ASSUME NEW t \in Threads, OfConnect(t) PROVE Fields'
  BY <1>2, ConnectFields DEF Tally
<1>3. CASE OfCallers
  BY <1>3, CallFields
<1>4. CASE UNCHANGED vars
  BY <1>4 DEF vars, Fields
<1>. QED
  BY <1>1, <1>2, <1>3, <1>4 DEF Next, Freed

Flag == syncing \in BOOLEAN

\* syncing is a flag after every step.
LEMMA NextFlag == Flag /\ [Next]_vars => Flag'
<1>. SUFFICES ASSUME syncing \in BOOLEAN, [Next]_vars PROVE syncing' \in BOOLEAN
  BY Zenon DEF Flag
<1>1. ASSUME NEW t, NEW o, NEW error, NEW after, Lose(t, o, error, after) PROVE syncing' \in BOOLEAN
  BY <1>1, Zenon DEF Lose
<1>2. ASSUME NEW o \in Objs, OfPeer(o) PROVE syncing' \in BOOLEAN
  <2>1. (\E error : PeerDisconnected(o, error)) => syncing' \in BOOLEAN
    BY <1>1 DEF PeerDisconnected
  <2>2. (\E services : PeerConnected(o, services)) => syncing' = syncing
    BY Zenon DEF PeerConnected
  <2>. QED
    BY <1>2, <2>1, <2>2, Zenon DEF OfPeer, OpenSocket, DidConnect, ThreadEnds, ThreadCleanup, PostSyncDone,
       PeerMisbehavin, RelayedBlock, RelayedPeer
<1>3. ASSUME NEW t \in Threads, OfConnect(t) PROVE syncing' \in BOOLEAN
  <2>1. DialNotStarted(t) => syncing' \in BOOLEAN
    BY <1>1 DEF DialNotStarted
  <2>. QED
    BY <1>3, <2>1, Zenon DEF OfConnect, Notified, Begin, Found, Dial, EndConnect, Uncount
<1>4. CASE OfCallers
  BY <1>4, Zenon DEF OfCallers, Lookup, Connect, AddPeer, SetMaxConnectCount, Rescan, Disconnect,
     Disconnected, Free
<1>5. CASE UNCHANGED vars
  BY <1>5, Zenon DEF vars
<1>. QED
  BY <1>2, <1>3, <1>4, <1>5, Zenon DEF Next, Freed

\* A manager begins with its fields in range.
LEMMA InitFields == Init => Fields
BY Bounds DEF Init, Fields

\* Every field keeps its range, the calls of every thread included.
THEOREM TypeCorrect == Spec => []TypeOK
<1>1. Tally /\ Fields /\ Flag => TypeOK
  <2>. SUFFICES ASSUME Tally, Fields, Flag PROVE TypeOK
    OBVIOUS
  <2>1. run \in [Threads -> Seq(Calls)]
    BY DEF Tally, Inv, Places, Stacks
  <2>2. threads \in Nat
    BY CountNat
  <2>3. lock \in Threads \cup {None}
    BY DEF Tally, Inv, Places
  <2>4. known \subseteq Addrs /\ cap \in Caps \cup {0}
    BY DEF Tally, Inv, Places
  <2>5. conn \in [Objs -> [addr : Addrs \cup {None}, cut : BOOLEAN, joined : BOOLEAN,
                          phase : {"none", "waiting", "started", "opening", "up", "down", "failed",
                                   "gone"}]]
    BY DEF Tally, Inv, Links, Shape, Phases
  <2>. QED
    BY <2>1, <2>2, <2>3, <2>4, <2>5, Zenon DEF TypeOK, Fields, Flag
<1>2. Init => Flag
  BY Zenon DEF Init, Flag
<1>. QED
  BY <1>1, <1>2, InitTally, NextTally, InitFields, NextFields, NextFlag, PTL DEF Spec

----------------------------------------------------------------------------
(* The end of the sync *)

\* When the failures have used up the connections, the sync is reported as over, unless
\* the application has asked to connect again and its call has yet to begin.
GivenUp ==
    asked = "up" /\ freeing = "no" /\ download = None /\ failures >= MaxFailures =>
        ~syncing \/ At(App, "begin")

\* The failure that uses them up is the one that reports the end.
LEMMA LoseGivesUp ==
    ASSUME Fields, Inv, GivenUp, NEW t \in Threads, ~At(t, "begin"), NEW o \in Objs, NEW error,
           NEW after \in Seq(Calls), Lose(t, o, error, after)
    PROVE  /\ GivenUp'
           /\ run'[t] = <<>> => failures' >= MaxFailures
<1>. DEFINE counted == failures + (IF error = "net" THEN 1 ELSE 0)
            n       == IF download = o THEN Clamped(counted) ELSE counted
            first   == IF n < MaxFailures THEN <<[at |-> "begin"]>> ELSE <<>>
<1>1. /\ UNCHANGED <<freeing, asked>> /\ failures' = n
      /\ download' \in IF download = o THEN NextDownloadPeer(o) ELSE {download}
      /\ run' = [run EXCEPT ![t] = first \o after]
  BY DEF Lose
<1>2. download' = None /\ n = MaxFailures => ~syncing'
  BY Zenon DEF Lose
<1>3. syncing' => syncing
  BY Zenon DEF Lose
<1>4. /\ counted \in Nat /\ n \in Nat /\ counted <= failures + 1
      /\ n > MaxFailures => download # o /\ failures >= MaxFailures
  BY Bounds DEF Clamped, Fields
<1>5. run'[t] = first \o after /\ \A u \in Threads : u # t => run'[u] = run[u]
  BY <1>1 DEF Inv, Places
<1>6. run'[t] = <<>> => n >= MaxFailures
  <2>1. [at |-> "begin"] \in Calls
    BY DEF Calls
  <2>2. <<[at |-> "begin"]>> \o after # <<>>
    BY <2>1
  <2>3. n < MaxFailures => run'[t] # <<>>
    BY <1>5, <2>2
  <2>. HIDE DEF n
  <2>. QED
    BY <1>4, <2>3, Bounds
<1>7. At(App, "begin") => At(App, "begin")'
  <2>1. At(App, "begin") => t # App
    OBVIOUS
  <2>2. App \in Threads
    BY DEF Threads
  <2>. QED
    BY <1>5, <2>1, <2>2 DEF At
<1>8. ASSUME asked = "up", freeing = "no", download' = None, n > MaxFailures
      PROVE  ~syncing \/ At(App, "begin")
  <2>1. download = None /\ failures >= MaxFailures
    BY <1>1, <1>4, <1>8
  <2>. QED
    BY <1>8, <2>1, Zenon DEF GivenUp
<1>. HIDE DEF n
<1>9. n >= MaxFailures => n = MaxFailures \/ n > MaxFailures
  BY <1>4, Bounds
<1>10. GivenUp'
  BY <1>1, <1>2, <1>3, <1>7, <1>8, <1>9, Zenon DEF GivenUp
<1>. QED
  BY <1>1, <1>6, <1>10

\* A call of Connect starts over with no failures.
LEMMA ConnectGivesUp ==
    ASSUME Fields, Tally, GivenUp, NEW t \in Threads, OfConnect(t)
    PROVE  GivenUp'
<1>0. /\ run \in [Threads -> Stacks] /\ App \in Threads
      /\ t # App => run'[App] = run[App]
  <2>1. \E s : run' = [run EXCEPT ![t] = s]
    BY DEF OfConnect, Notified, Begin, Enter, Found, Dial, EndConnect, DialNotStarted, Lose, Uncount,
           Goes
  <2>. QED
    BY <2>1 DEF Tally, Inv, Places, Threads
<1>1. CASE \E behind \in BOOLEAN : \E still : Begin(t, behind, still)
  <2>1. failures' \in Nat /\ failures' < MaxFailures
    BY <1>1, Bounds DEF Begin, Fields
  <2>2. ~(failures' >= MaxFailures)
    BY <2>1, Bounds
  <2>. QED
    BY <2>2, Zenon DEF GivenUp
<1>2. ASSUME ~At(t, "begin"), UNCHANGED <<asked, freeing, download, failures>>, syncing' => syncing
      PROVE  GivenUp'
  <2>1. At(App, "begin") => At(App, "begin")'
    BY <1>0, <1>2 DEF At
  <2>. QED
    BY <1>2, <2>1, Zenon DEF GivenUp
<1>3. ASSUME NEW still, Notified(t, still) PROVE GivenUp'
  <2>1. ~At(t, "begin") /\ UNCHANGED <<asked, freeing, download, failures>>
    BY <1>3 DEF Notified, Enter, At
  <2>2. syncing' => syncing
    BY <1>3, Zenon DEF Notified
  <2>. QED
    BY <1>2, <2>1, <2>2
<1>4. CASE Found(t) \/ Uncount(t)
  <2>1. ~At(t, "begin") /\ UNCHANGED <<asked, freeing, download, failures>>
    BY <1>4 DEF Found, Uncount, At
  <2>2. syncing' => syncing
    BY <1>4, Zenon DEF Found, Uncount
  <2>. QED
    BY <1>2, <2>1, <2>2
<1>5. CASE Dial(t) \/ EndConnect(t)
  <2>1. ~At(t, "begin")
    BY <1>5, DistinctThreads DEF Dial, EndConnect, Tally, Inv, Places, Passes, At, Threads
  <2>2. UNCHANGED <<asked, freeing, download, failures>>
    BY <1>5 DEF Dial, EndConnect
  <2>3. syncing' => syncing
    BY <1>5, Zenon DEF Dial, EndConnect
  <2>. QED
    BY <1>2, <2>1, <2>2, <2>3
<1>6. CASE DialNotStarted(t)
  <2>1. /\ Head(run[t]).obj \in Objs /\ ~At(t, "begin") /\ run[t] # <<>> /\ run[t] \in Seq(Calls)
        /\ Tail(run[t]) \in Seq(Calls)
    BY <1>0, <1>6, StackBelow, StackMoves DEF DialNotStarted, At, Tally, Frames
  <2>2. [at |-> "uncount"] \in Calls
    BY DEF Calls
  <2>3. <<[at |-> "uncount"]>> \o Tail(run[t]) \in Seq(Calls)
    BY <2>1, <2>2
  <2>. QED
    BY <1>6, <2>1, <2>3, LoseGivesUp DEF DialNotStarted, Tally
<1>. QED
  BY <1>1, <1>3, <1>4, <1>5, <1>6 DEF OfConnect

\* A download peer that is chosen, or serves, ends the failures.
LEMMA PeerGivesUp ==
    ASSUME Fields, Tally, GivenUp, NEW o \in Objs, OfPeer(o)
    PROVE  GivenUp'
<1>1. ASSUME run' = run, asked' = asked, download' = download,
             failures' >= MaxFailures => failures >= MaxFailures,
             freeing' = "no" => freeing = "no", syncing' => syncing
      PROVE  GivenUp'
  <2>1. At(App, "begin")' <=> At(App, "begin")
    BY <1>1 DEF At
  <2>. QED
    BY <1>1, <2>1, Zenon DEF GivenUp
<1>2. CASE \/ OpenSocket(o) \/ DidConnect(o) \/ ThreadEnds(o) \/ ThreadCleanup(o)
           \/ PostSyncDone(o) \/ PeerMisbehavin(o) \/ \E last \in BOOLEAN : RelayedBlock(o, last)
           \/ \E a \in Filters : RelayedPeer(o, a)
  <2>1. /\ run' = run /\ asked' = asked /\ download' = download
        /\ failures' = failures \/ failures' = 0
        /\ freeing' = "no" => freeing = "no"
    BY <1>2 DEF OpenSocket, DidConnect, ThreadEnds, ThreadCleanup, PostSyncDone,
       PeerMisbehavin, RelayedBlock, RelayedPeer
  <2>3. failures' >= MaxFailures => failures >= MaxFailures
    BY <2>1, Bounds
  <2>2. syncing' => syncing
    BY <1>2, Zenon DEF OpenSocket, DidConnect, ThreadEnds, ThreadCleanup, PostSyncDone,
       PeerMisbehavin, RelayedBlock, RelayedPeer
  <2>. QED
    BY <1>1, <2>1, <2>2, <2>3, Zenon
<1>3. ASSUME NEW services, PeerConnected(o, services) PROVE GivenUp'
  <2>1. /\ run' = run /\ asked' = asked /\ freeing' = freeing
        /\ failures' = failures \/ failures' = 0
        /\ download' = download \/ download' \in Best(Up)
    BY <1>3 DEF PeerConnected
  <2>5. failures' >= MaxFailures => failures >= MaxFailures
    BY <2>1, Bounds
  <2>2. syncing' = syncing
    BY <1>3, Zenon DEF PeerConnected
  <2>3. CASE download' = download
    BY <1>1, <2>1, <2>2, <2>3, <2>5, Zenon
  <2>4. CASE download' \in Best(Up)
    <3>1. download' # None
      BY <2>4, DistinctThreads DEF Best, Up
    <3>. QED
      BY <3>1, Zenon DEF GivenUp
  <2>. QED
    BY <2>1, <2>3, <2>4
<1>4. ASSUME NEW error, PeerDisconnected(o, error) PROVE GivenUp'
  <2>1. o \in Threads /\ ~At(o, "begin") /\ <<>> \in Seq(Calls)
    BY <1>4 DEF Threads, At, PeerDisconnected, Tally, Frames
  <2>. QED
    BY <1>4, <2>1, LoseGivesUp DEF PeerDisconnected, Tally
<1>. QED
  BY <1>2, <1>3, <1>4 DEF OfPeer

\* The application asks again by a call of Connect.
LEMMA CallGivesUp ==
    ASSUME Tally, GivenUp, OfCallers
    PROVE  GivenUp'
<1>1. run \in [Threads -> Stacks] /\ App \in Threads
  BY DEF Tally, Inv, Places, Threads
<1>2. ASSUME run' = run, asked' = asked, download' = download, failures' = failures,
             syncing' = syncing, freeing' = "no" => freeing = "no"
      PROVE  GivenUp'
  <2>1. At(App, "begin")' <=> At(App, "begin")
    BY <1>2 DEF At
  <2>2. failures' >= MaxFailures => failures >= MaxFailures
    BY <1>2
  <2>. QED
    BY <1>2, <2>1, <2>2, Zenon DEF GivenUp
<1>3. ASSUME run' = [run EXCEPT ![App] = <<[at |-> "begin"]>>] PROVE GivenUp'
  <2>1. At(App, "begin")'
    BY <1>1, <1>3 DEF At
  <2>. QED
    BY <2>1, Zenon DEF GivenUp
<1>4. ASSUME freeing' # "no" \/ asked' # "up" PROVE GivenUp'
  BY <1>4, Zenon DEF GivenUp
<1>5. ASSUME NEW answer, Lookup(answer) PROVE GivenUp'
  BY <1>2, <1>5 DEF Lookup
<1>6. ASSUME NEW a, AddPeer(a) PROVE GivenUp'
  BY <1>2, <1>6 DEF AddPeer
<1>7. CASE Connect
  BY <1>3, <1>7 DEF Connect
<1>8. ASSUME NEW m, SetMaxConnectCount(m) PROVE GivenUp'
  BY <1>2, <1>3, <1>8 DEF SetMaxConnectCount
<1>9. ASSUME NEW height, Rescan(height) PROVE GivenUp'
  BY <1>3, <1>9 DEF Rescan
<1>10. CASE Disconnect
  BY <1>4, <1>10 DEF Disconnect
<1>11. ASSUME NEW inTime, Disconnected(inTime) PROVE GivenUp'
  BY <1>4, <1>11 DEF Disconnected
<1>12. CASE Free
  BY <1>4, <1>12 DEF Free
<1>. QED
  BY <1>5, <1>6, <1>7, <1>8, <1>9, <1>10, <1>11, <1>12 DEF OfCallers

\* The last connection, lost for good, ends the sync; a call of Connect that finds nobody
\* to dial does so as well.
LEMMA PeerQuiet ==
    ASSUME Fields, Tally, GivenUp, GivenUp', QuietIsReported, NEW o \in Objs, OfPeer(o)
    PROVE  QuietIsReported'
<1>1. conn \in [Objs -> [addr : Addrs \cup {None}, phase : Phases, cut : BOOLEAN,
                         joined : BOOLEAN]]
  BY DEF Tally, Inv, Links, Shape
<1>2. ASSUME Listed' # {} PROVE QuietIsReported'
  BY <1>2, Zenon DEF QuietIsReported
<1>3. CASE \/ OpenSocket(o) \/ DidConnect(o) \/ ThreadEnds(o) \/ PostSyncDone(o)
           \/ PeerMisbehavin(o) \/ (\E last \in BOOLEAN : RelayedBlock(o, last))
           \/ (\E a \in Filters : RelayedPeer(o, a)) \/ \E services : PeerConnected(o, services)
  <2>1. conn'[o].phase \notin {"none", "gone"}
    <3>1. CASE OpenSocket(o) \/ DidConnect(o) \/ ThreadEnds(o)
      BY <1>1, <3>1 DEF OpenSocket, DidConnect, ThreadEnds
    <3>2. CASE PostSyncDone(o) \/ (\E last \in BOOLEAN : RelayedBlock(o, last))
               \/ (\E a \in Filters : RelayedPeer(o, a))
      BY <3>2 DEF PostSyncDone, RelayedBlock, RelayedPeer
    <3>3. CASE PeerMisbehavin(o)
      BY <1>1, <3>3, ClosedKeeps DEF PeerMisbehavin
    <3>4. ASSUME NEW services, PeerConnected(o, services) PROVE conn'[o].phase \notin {"none", "gone"}
      <4>. DEFINE joined == [conn EXCEPT ![o].joined = TRUE]
      <4>1. /\ joined \in [Objs -> [addr : Addrs \cup {None}, phase : Phases, cut : BOOLEAN,
                                   joined : BOOLEAN]]
            /\ joined[o].phase = "up"
        BY <1>1, <3>4 DEF PeerConnected
      <4>2. PICK S : conn' = Closed(joined, S) \/ conn' = joined
        BY <3>4 DEF PeerConnected
      <4>. HIDE DEF joined
      <4>. QED
        BY <4>1, <4>2, ClosedKeeps
    <3>. QED
      BY <1>3, <3>1, <3>2, <3>3, <3>4
  <2>. QED
    BY <1>2, <2>1 DEF Listed
<1>4. CASE ThreadCleanup(o)
  <2>1. Listed' = Listed
    BY <1>1, <1>4 DEF ThreadCleanup, Listed, Unborn
  <2>2. run' = run /\ asked' = asked /\ (freeing' = "no" => freeing = "no")
    BY <1>4 DEF ThreadCleanup
  <2>3. syncing' = syncing
    BY <1>4, Zenon DEF ThreadCleanup
  <2>. QED
    BY <2>1, <2>2, <2>3, Zenon DEF QuietIsReported
<1>5. ASSUME NEW error, PeerDisconnected(o, error) PROVE QuietIsReported'
  <2>. SUFFICES ASSUME asked' = "up", freeing' = "no", Listed' = {}, \A t \in Threads : run'[t] = <<>>
                PROVE  ~syncing'
    BY Zenon DEF QuietIsReported
  <2>1. o \in Threads /\ ~At(o, "begin") /\ <<>> \in Seq(Calls) /\ App \in Threads
    BY <1>5 DEF Threads, At, PeerDisconnected, Tally, Frames
  <2>2. failures' >= MaxFailures
    BY <1>5, <2>1, LoseGivesUp DEF PeerDisconnected, Tally
  <2>3. Listed \subseteq {o}
    BY <1>1, <1>5 DEF PeerDisconnected, Lose, Released, Listed
  <2>4. download' = None
    <3>1. download' \in IF download = o THEN NextDownloadPeer(o) ELSE {download}
      BY <1>5 DEF PeerDisconnected, Lose
    <3>2. Up \ {o} = {}
      BY <2>3 DEF Up, Listed
    <3>3. download = None \/ download = o
      BY <2>3 DEF Tally, Inv, Links, SomeoneLeads
    <3>. QED
      BY <3>1, <3>2, <3>3 DEF NextDownloadPeer
  <2>5. ~At(App, "begin")'
    BY <2>1 DEF At
  <2>. QED
    BY <2>2, <2>4, <2>5, Zenon DEF GivenUp
<1>. QED
  BY <1>3, <1>4, <1>5 DEF OfPeer

\* Connect does not leave a sync unreported with nothing listed.
LEMMA ConnectQuiet ==
    ASSUME Tally, NEW t \in Threads, OfConnect(t)
    PROVE  QuietIsReported'
<1>. SUFFICES ASSUME Listed' = {}, run'[t] = <<>> PROVE ~syncing'
  BY Zenon DEF QuietIsReported
<1>1. run \in [Threads -> Stacks] /\ run[t] \in Stacks
  BY DEF Tally, Inv, Places
<1>2. ASSUME NEW c, Goes(t, c), run[t] # <<>> PROVE FALSE
  BY <1>1, <1>2 DEF Goes, Stacks
<1>3. ~Dial(t)
  <2>. SUFFICES ASSUME Dial(t) PROVE FALSE
    OBVIOUS
  <2>1. run[t] # <<>> /\ Tail(run[t]) \in Seq(Calls)
    BY <1>1, DistinctThreads, StackBelow DEF Dial, Tally, Inv, Places, Threads
  <2>2. PICK dial \in NextDials(Head(run[t])), o \in Spare :
          \/ run' = [run EXCEPT ![t] = <<[at |-> "lost", obj |-> o], dial.next>> \o Tail(run[t])]
          \/ Goes(t, dial.next)
    BY DEF Dial
  <2>3. run'[t] = <<[at |-> "lost", obj |-> o], dial.next>> \o Tail(run[t])
    BY <1>1, <1>2, <2>1, <2>2
  <2>. QED
    BY <2>1, <2>3
<1>4. ~Uncount(t)
  BY <1>1, StackMoves DEF Uncount, At
<1>5. ~DialNotStarted(t)
  <2>. SUFFICES ASSUME DialNotStarted(t) PROVE FALSE
    OBVIOUS
  <2>1. run[t] # <<>> /\ Tail(run[t]) \in Seq(Calls)
    BY <1>1, StackBelow DEF DialNotStarted, At
  <2>. DEFINE r == <<[at |-> "uncount"]>> \o Tail(run[t])
  <2>2. run'[t] = <<[at |-> "begin"]>> \o r \/ run'[t] = <<>> \o r
    BY <1>1 DEF DialNotStarted, Lose
  <2>3. r # <<>> /\ r \in Seq(Calls) /\ [at |-> "begin"] \in Calls
    BY <2>1 DEF Calls
  <2>. HIDE DEF r
  <2>4. <<[at |-> "begin"]>> \o r # <<>> /\ <<>> \o r = r
    BY <2>3
  <2>. QED
    BY <2>2, <2>3, <2>4
<1>6. ASSUME NEW still, Enter(t, still), run[t] # <<>> PROVE FALSE
  BY <1>2, <1>6 DEF Enter
<1>7. ~Found(t) /\ (\A still : ~Notified(t, still)) /\ \A behind, still : ~Begin(t, behind, still)
  BY <1>2, <1>6 DEF Found, Notified, Begin, At
<1>8. EndConnect(t)
  BY <1>3, <1>4, <1>5, <1>7 DEF OfConnect
<1>9. Listed = {}
  BY <1>8 DEF EndConnect, Listed
<1>. QED
  BY <1>8, <1>9, Zenon DEF EndConnect

\* Nor do the calls of the application and of a lookup.
LEMMA CallQuiet ==
    ASSUME Tally, QuietIsReported, OfCallers
    PROVE  QuietIsReported'
<1>1. run \in [Threads -> Stacks] /\ App \in Threads
  BY DEF Tally, Inv, Places, Threads
<1>2. ASSUME run' = run, asked' = asked, conn' = conn, syncing' = syncing,
             freeing' = "no" => freeing = "no"
      PROVE  QuietIsReported'
  BY <1>2, Zenon DEF QuietIsReported, Listed
<1>3. ASSUME run' = [run EXCEPT ![App] = <<[at |-> "begin"]>>] PROVE QuietIsReported'
  <2>1. run'[App] # <<>>
    BY <1>1, <1>3
  <2>. QED
    BY <1>1, <2>1, Zenon DEF QuietIsReported
<1>4. ASSUME freeing' # "no" \/ asked' # "up" PROVE QuietIsReported'
  BY <1>4, Zenon DEF QuietIsReported
<1>5. ASSUME NEW answer, Lookup(answer) PROVE QuietIsReported'
  BY <1>2, <1>5 DEF Lookup
<1>6. ASSUME NEW a, AddPeer(a) PROVE QuietIsReported'
  BY <1>2, <1>6 DEF AddPeer
<1>7. CASE Connect
  BY <1>3, <1>7 DEF Connect
<1>8. ASSUME NEW m, SetMaxConnectCount(m) PROVE QuietIsReported'
  BY <1>2, <1>3, <1>8 DEF SetMaxConnectCount
<1>9. ASSUME NEW height, Rescan(height) PROVE QuietIsReported'
  BY <1>3, <1>9 DEF Rescan
<1>10. CASE Disconnect
  BY <1>4, <1>10 DEF Disconnect
<1>11. ASSUME NEW inTime, Disconnected(inTime) PROVE QuietIsReported'
  BY <1>4, <1>11 DEF Disconnected
<1>12. CASE Free
  BY <1>4, <1>12 DEF Free
<1>. QED
  BY <1>5, <1>6, <1>7, <1>8, <1>9, <1>10, <1>11, <1>12 DEF OfCallers

\* What a quiet manager has reported, and why it was time to.
Reported == GivenUp /\ QuietIsReported

\* Over every step, an end of the sync is reported.
LEMMA NextReported == Tally /\ Fields /\ Reported /\ [Next]_vars => Reported'
<1>. SUFFICES ASSUME Tally, Fields, GivenUp, QuietIsReported, [Next]_vars
              PROVE  GivenUp' /\ QuietIsReported'
  BY DEF Reported
<1>1. ASSUME NEW o \in Objs, OfPeer(o) PROVE GivenUp' /\ QuietIsReported'
  BY <1>1, PeerGivesUp, PeerQuiet
<1>2. ASSUME NEW t \in Threads, OfConnect(t) PROVE GivenUp' /\ QuietIsReported'
  BY <1>2, ConnectGivesUp, ConnectQuiet
<1>3. CASE OfCallers
  BY <1>3, CallGivesUp, CallQuiet
<1>4. CASE UNCHANGED vars
  <2>1. /\ run' = run /\ asked' = asked /\ conn' = conn /\ syncing' = syncing /\ freeing' = freeing
        /\ download' = download /\ failures' = failures
    BY <1>4, Zenon DEF vars
  <2>. QED
    BY <2>1, Zenon DEF GivenUp, QuietIsReported, Listed, At
<1>. QED
  BY <1>1, <1>2, <1>3, <1>4 DEF Next, Freed

\* A manager begins with no sync to report.
LEMMA InitReported == Init => Reported
<1>. SUFFICES ASSUME Init PROVE GivenUp /\ QuietIsReported
  BY DEF Reported
<1>1. asked = "down" /\ "down" # "up"
  BY DEF Init
<1>. QED
  BY <1>1, Zenon DEF GivenUp, QuietIsReported

\* However the connections were lost, and whoever was dialling meanwhile, a manager that
\* has nothing left to reconnect with has told the application that the sync is over.
THEOREM QuietReported == Spec => []QuietIsReported
<1>1. Reported => QuietIsReported
  BY DEF Reported
<1>. QED
  BY <1>1, InitTally, NextTally, InitFields, NextFields, InitReported, NextReported, PTL DEF Spec

=============================================================================
