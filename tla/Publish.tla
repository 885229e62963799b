------------------------------ MODULE Publish ------------------------------
(***************************************************************************)
(* The publish list of BRPeerManager.c: the transactions the wallet is     *)
(* sending, the callback each send waits for, and the objects behind them. *)
(* An object (a BRTransaction) has one owner at a time: the caller that    *)
(* built it, the publish list, or the wallet.  Several threads meet here:  *)
(* one per peer, which runs the handler of each message that peer sends,   *)
(* and the application's.  Every handler works under manager->lock and is  *)
(* one action; what it does after the unlock (calling the callbacks it     *)
(* took, then flushing pendingAnswers) is further actions of its thread.   *)
(*                                                                         *)
(* Abstracted: scripts and amounts (a transaction is a hash with a set of  *)
(* inputs), timestamps, the wallet's address growth, message encoding.     *)
(* The application's calls after BRPeerManagerFree are outside the API.    *)
(***************************************************************************)
EXTENDS Naturals, SequencesExt

CONSTANTS Txs,          \* transaction hashes
          Objs,         \* transaction objects
          HashOf,       \* the hash of each object
          Spends,       \* the transactions each transaction spends
          Ours,         \* transactions that touch the wallet's addresses
          Sends,        \* those that spend the wallet's coins
          Peers, App,   \* the threads
          Calls,        \* publish callbacks, each passed to one call
          None,
          Dandelion,    \* peers that take a stem
          Bloom,        \* peers whose mempool is requested
          Group,        \* the network group of each peer
          MaxConnect,   \* maxConnectCount
          MaxFailures,  \* MAX_CONNECT_FAILURES
          MaxRejects,   \* TX_REJECTS_PER_TX_MAX
          Messages,     \* the messages peers send in this instance
          Api           \* the calls the application makes in this instance

ASSUME PublishAssumption ==
    /\ HashOf \in [Objs -> Txs] /\ Spends \in [Txs -> SUBSET Txs]
    /\ Sends \subseteq Ours /\ Ours \subseteq Txs
    /\ Dandelion \subseteq Peers /\ Bloom \subseteq Peers
    /\ MaxConnect \in Nat /\ MaxFailures \in Nat \ {0} /\ MaxRejects \in Nat
    /\ IsFiniteSet(Txs) /\ IsFiniteSet(Peers)
    /\ None \notin Peers \cup Objs \cup Calls /\ App \notin Peers
    /\ None \notin [obj : Objs, call : Calls \cup {None}, tired : BOOLEAN]

VARIABLES
    m,         \* what manager->lock guards, and the wallet's records
    net,       \* the peers' connections
    download,  \* downloadPeer; isConnected is download # None
    syncing,   \* syncStartHeight > 0
    failures,  \* connectFailureCount
    phase,     \* "running", "parked" (freeDeferred) or "gone"
    hand,      \* what each thread has still to do after its unlock
    window,    \* PublishTx between the unlock and the relock, or None
    answers,   \* history: the verdicts each callback was given
    passed,    \* history: the callbacks handed to the manager
    unheard    \* history: those passed with a transaction already confirmed

vars == <<m, net, download, syncing, failures, phase, hand, window, answers, passed, unheard>>

Threads  == Peers \cup {App}
Verdicts == {"OK", "EINVAL", "ENOTCONN", "ETIMEDOUT", "ECANCELED", "EALREADY"}
Answer   == [call : Calls, error : Verdicts]
PubEntry == [hash : Txs, obj : Objs, call : Calls \cup {None}, owned : BOOLEAN,
             stem : Peers \cup {None}]
Link     == [state : {"off", "dialing", "up", "leaving"},
             known : [Txs -> {"no", "told", "inv", "mempool"}],
             synced : BOOLEAN, pinged : BOOLEAN, mempool : BOOLEAN]

Down == [state |-> "off", known |-> [h \in Txs |-> "no"],
         synced |-> FALSE, pinged |-> FALSE, mempool |-> FALSE]

Up        == {p \in Peers : net[p].state = "up"}
Connected == {p \in Peers : net[p].state # "off"}
Idle(t)   == hand[t].calls = <<>> /\ ~hand[t].flush /\ phase # "gone"
Running(p, message) == p \in Up /\ Idle(p) /\ message \in Messages
Calling(call)       == Idle(App) /\ window = None /\ phase = "running" /\ call \in Api

----------------------------------------------------------------------------
(* The list *)

EntriesOf(s, h)    == {e \in s.listed : e.hash = h}
Listed(s, h)       == EntriesOf(s, h) # {}
Stemming(s, h)     == \E e \in EntriesOf(s, h) : e.stem # None
HidesFrom(s, h, p) == \E e \in EntriesOf(s, h) : e.stem \notin {None, p}
Held(s, h)         == s.record[h] # None
Unconfirmed(s, h)  == Held(s, h) /\ s.record[h] \notin s.mined

\* What BRTransactionFree leaves: a second free of the same object shows.
Freed(alive, S) ==
    [o \in Objs |-> IF o \notin S THEN alive[o]
                    ELSE IF alive[o] = "live" THEN "freed" ELSE "twice"]

\* Mutant of AnswersTo: a null callback taken for a callback.
AnswersToAlsoNull(E, error) == SetToSeq({[call |-> e.call, error |-> error] : e \in E})

AnswersTo(E, error) ==
    SetToSeq({[call |-> e.call, error |-> error] : e \in {f \in E : f.call # None}})

\* Mutant of DropEntries: nobody is told.
DropEntriesUnanswered(s, E, error) ==
    [s EXCEPT !.listed = @ \ E, !.alive = Freed(@, {e.obj : e \in {f \in E : f.owned}})]

\* Mutant of DropEntries: the list's objects are not released.
DropEntriesLeaking(s, E, error) ==
    [s EXCEPT !.listed = @ \ E, !.queue = @ \o AnswersTo(E, error)]

\* Entries leave the list: each pending callback is queued its verdict and the
\* list's own objects are released.
DropEntries(s, E, error) ==
    [s EXCEPT !.listed = @ \ E,
              !.queue  = @ \o AnswersTo(E, error),
              !.alive  = Freed(@, {e.obj : e \in {f \in E : f.owned}})]

\* Mutant of Take: the callback stays with its entry.
TakeAndKeep(s, h) == s

\* The callbacks a handler takes from h's entries, and the list without them.
Taken(s, h) == AnswersTo(EntriesOf(s, h), "OK")
Take(s, h)  ==
    [s EXCEPT !.listed = {IF e.hash = h THEN [e EXCEPT !.call = None] ELSE e : e \in @}]

\* The unlisted, unconfirmed wallet records that the parent walk from h reaches.
ParentsToList(s, h) ==
    LET walk[n \in 0..Cardinality(Txs)] ==
          IF n = 0 THEN {h}
          ELSE LET seen == walk[n - 1]
               IN seen \cup {g \in Txs : /\ \E k \in seen : g \in Spends[k]
                                         /\ Unconfirmed(s, g)
                                         /\ ~Listed(s, g)}
    IN walk[Cardinality(Txs)] \ {h}

NewEntry(o, c, owned) ==
    [hash |-> HashOf[o], obj |-> o, call |-> c, owned |-> owned, stem |-> None]

\* Whether an equal entry stands in the way of listing o.
Duplicate(s, o) == EntriesOf(s, HashOf[o])

AddTxToPublishList(s, o, c, owned) ==
    IF o \in s.mined THEN [s |-> s, added |-> "duplicate"]
    ELSE IF Duplicate(s, o) # {}
         THEN LET e == CHOOSE f \in Duplicate(s, o) : TRUE
              IN IF c = None THEN [s |-> s, added |-> "duplicate"]
                 ELSE IF e.call # None THEN [s |-> s, added |-> "pending"]
                 ELSE [s |-> [s EXCEPT !.listed = (@ \ {e}) \cup {[e EXCEPT !.call = c]}],
                       added |-> "duplicate"]
    ELSE [s |-> [s EXCEPT !.listed =
                   @ \cup {NewEntry(o, c, owned /\ s.record[HashOf[o]] # o)}
                     \cup {NewEntry(s.record[g], None, FALSE) : g \in ParentsToList(s, HashOf[o])}],
          added |-> "taken"]

\* Records who relayed h, requested it, rejected it.
Vouch(s, h, p)    == [s EXCEPT !.relays[h] = @ \cup {p}, !.vouched = @ \cup {h}]
Unrequest(s, h, p) == [s EXCEPT !.requests[h] = @ \ {p}]

----------------------------------------------------------------------------
(* The wallet's records *)

\* keep says whether the wallet takes an object of a hash it does not hold: it
\* may refuse the signatures or the amounts, or be at its bound of foreign ones.
Register(s, o, keep) ==
    IF Held(s, HashOf[o]) \/ ~keep THEN s ELSE [s EXCEPT !.record[HashOf[o]] = o]

\* Its result: 1 for a hash already held, or for a wallet transaction taken now.
Registered(s, o, keep) == Held(s, HashOf[o]) \/ (keep /\ HashOf[o] \in Ours)

\* Mutant of OwnershipFollowsObject: the entry goes on owning the wallet's object.
OwnershipStays(s, h) == s

\* An entry whose object the wallet has taken follows it to the wallet's ownership.
OwnershipFollowsObject(s, h) ==
    [s EXCEPT !.listed = {IF Held(s, h) /\ e.obj = s.record[h] THEN [e EXCEPT !.owned = FALSE]
                          ELSE e : e \in @}]

\* Removing a transaction removes the wallet transactions that spend it first.
Dependants(s, h) ==
    LET walk[n \in 0..Cardinality(Txs)] ==
          IF n = 0 THEN {h}
          ELSE walk[n - 1] \cup {d \in Ours : /\ Held(s, d)
                                              /\ s.record[d] \notin s.mined \/ s.record[h] \in s.mined
                                              /\ Spends[d] \cap walk[n - 1] # {}}
    IN walk[Cardinality(Txs)]

WalletRemove(s, H) ==
    LET gone == UNION {Dependants(s, h) : h \in {g \in H : Held(s, g)}}
    IN [s EXCEPT !.record = [g \in Txs |-> IF g \in gone THEN None ELSE @[g]],
                 !.alive  = Freed(@, {s.record[g] : g \in gone})]

\* Mutants of Released: no entry, or none that the list owns.
ReleasedNone(before, after) == {}
ReleasedNotOwned(before, after) ==
    {e \in after.listed : Held(before, e.hash) /\ ~Held(after, e.hash) /\ ~e.owned}

\* The entries whose hash the wallet held before a removal and does not hold now.
Released(before, after) ==
    {e \in after.listed : Held(before, e.hash) /\ ~Held(after, e.hash)}

RemoveAndPurge(s, H) ==
    LET t == WalletRemove(s, H) IN DropEntries(t, Released(s, t), "ECANCELED")

\* The wallet's validity walk: a conflict confirmed against h or an ancestor.
Valid(s, h) ==
    LET walk[n \in 0..Cardinality(Txs)] ==
          IF n = 0 THEN {h} ELSE walk[n - 1] \cup UNION {Spends[k] : k \in walk[n - 1]}
    IN walk[Cardinality(Txs)] \cap s.invalid = {}

\* A block confirmed h: its entries are answered 0 and leave, what was known of
\* its relaying is dropped, and the wallet stamps its record, or lets go of a
\* confirmed record that is not its own.
UpdateTx(s, h) ==
    LET t == [DropEntries(s, EntriesOf(s, h), "OK") EXCEPT
                !.relays[h] = {}, !.vouched = @ \ {h}, !.rejects[h] = {}]
    IN IF ~Held(t, h) THEN t
       ELSE IF h \in Ours THEN [t EXCEPT !.mined = @ \cup {t.record[h]}]
       ELSE [t EXCEPT !.record[h] = None, !.alive = Freed(@, {t.record[h]})]

----------------------------------------------------------------------------
(* What goes out *)

\* PublishPendingTx to p: an inv of every listed hash p may be told and does not know.
Announced(s, link, p) ==
    [link EXCEPT !.known = [h \in Txs |->
        IF Listed(s, h) /\ ~HidesFrom(s, h, p) /\ @[h] = "no" THEN "told" ELSE @[h]]]

\* The mempool request marks every listed hash as known to p, once a connection.
Mempooled(s, link, p) ==
    IF p \notin Bloom \/ link.mempool THEN link
    ELSE [link EXCEPT !.mempool = TRUE,
                      !.known = [h \in Txs |-> IF Listed(s, h) /\ @[h] = "no" THEN "mempool" ELSE @[h]]]

AnnounceTo(s, N, P) == [p \in Peers |-> IF p \in P THEN Announced(s, N[p], p) ELSE N[p]]

LoadMempools(s, N) ==
    [p \in Peers |-> IF N[p].state = "up" THEN Mempooled(s, Announced(s, N[p], p), p) ELSE N[p]]

\* Mutant of ToAsk: a stemming transaction is asked for as well.
ToAskStemming(s, p) ==
    {h \in Ours : Unconfirmed(s, h) /\ p \notin s.relays[h] /\ p \notin s.requests[h]}

\* RequestUnrelayedTx: what p is asked for, and the record of it.
ToAsk(s, p) ==
    {h \in Ours : /\ Unconfirmed(s, h) /\ ~HidesFrom(s, h, p)
                  /\ p \notin s.relays[h] /\ p \notin s.requests[h]}

----------------------------------------------------------------------------
(* The end of a handler: its thread calls what it took, then flushes. *)

\* Mutant of Then: the handler returns without flushing.
ThenUnflushed(t, calls) == hand' = [hand EXCEPT ![t] = [calls |-> calls, flush |-> FALSE]]

Then(t, calls) == hand' = [hand EXCEPT ![t] = [calls |-> calls, flush |-> TRUE]]

Deliver(t) ==
    /\ hand[t].calls # <<>>
    /\ LET a == Head(hand[t].calls)
       IN answers' = [answers EXCEPT ![a.call] = Append(@, a.error)]
    /\ hand' = [hand EXCEPT ![t].calls = Tail(@)]
    /\ UNCHANGED <<m, net, download, syncing, failures, phase, window, passed, unheard>>

FlushAnswers(t) ==
    /\ hand[t].calls = <<>> /\ hand[t].flush
    /\ hand' = [hand EXCEPT ![t] = [calls |-> m.queue, flush |-> FALSE]]
    /\ m' = [m EXCEPT !.queue = <<>>]
    /\ UNCHANGED <<net, download, syncing, failures, phase, window, answers, passed, unheard>>

----------------------------------------------------------------------------
(* The application's calls *)

Born(s, o)    == [s EXCEPT !.alive[o] = "live"]
\* The application publishes what it sends: an object it built, or the wallet's record.
Offered(o)    == HashOf[o] \in Sends /\ (m.alive[o] = "unborn" \/ m.record[HashOf[o]] = o)
Fresh(c)      == c \notin passed
Reply(c, error) == IF c = None THEN <<>> ELSE <<[call |-> c, error |-> error]>>
Pass(c)       == passed' = passed \cup ({c} \ {None})

\* An object is handed over: listed, or released unless it is the wallet's own;
\* a callback whose publish duplicates one still pending is queued EALREADY.
HandOver(s, o, c) ==
    LET r     == AddTxToPublishList(s, o, c, TRUE)
        spare == IF r.added = "taken" \/ r.s.record[HashOf[o]] = o THEN {} ELSE {o}
        told  == IF r.added = "pending" THEN Reply(c, "EALREADY") ELSE <<>>
    IN [s |-> [r.s EXCEPT !.alive = Freed(@, spare), !.queue = @ \o told], added |-> r.added]

Unstemmed(s, h) ==
    [s EXCEPT !.listed = {IF e.hash = h THEN [e EXCEPT !.stem = None] ELSE e : e \in @}]

\* The locked half of PublishTx: the stem phase ends, the object is handed over
\* and announced to every peer but a busy download peer.
Flood(o, c) ==
    LET r == HandOver(Unstemmed(Born(m, o), HashOf[o]), o, c)
    IN /\ m' = r.s
       /\ net' = AnnounceTo(r.s, net, {p \in Up : p # download \/ Up = {p}})
       /\ unheard' = unheard \cup (IF o \in m.mined THEN {c} \ {None} ELSE {})
       /\ Then(App, <<>>)

PublishUnsigned(o, c) ==
    /\ Calling("publish") /\ m.alive[o] = "unborn" /\ Fresh(c)
    /\ m' = [m EXCEPT !.alive[o] = "freed"]
    /\ hand' = [hand EXCEPT ![App].calls = Reply(c, "EINVAL")]
    /\ Pass(c)
    /\ UNCHANGED <<net, download, syncing, failures, phase, window, answers, unheard>>

PublishTx(o, c) ==
    /\ Calling("publish") /\ Offered(o) /\ Fresh(c)
    /\ Pass(c)
    /\ IF download # None THEN Flood(o, c) /\ UNCHANGED window
       ELSE /\ window' = [obj |-> o, call |-> c, tired |-> failures >= MaxFailures]
            /\ m' = Born(m, o)
            /\ UNCHANGED <<net, hand, unheard>>
    /\ UNCHANGED <<download, syncing, failures, phase, answers>>

\* After networkIsReachable, asked with the lock released, PublishTx goes on.
PublishResume(reachable) ==
    /\ window # None
    /\ window' = None
    /\ IF window.tired \/ ~reachable
       THEN /\ m' = IF m.record[HashOf[window.obj]] = window.obj THEN m
                    ELSE [m EXCEPT !.alive = Freed(@, {window.obj})]
            /\ hand' = [hand EXCEPT ![App].calls = Reply(window.call, "ENOTCONN")]
            /\ UNCHANGED <<net, unheard>>
       ELSE Flood(window.obj, window.call)
    /\ UNCHANGED <<download, syncing, failures, phase, answers, passed>>

StemPublishTx(o, c, p) ==
    /\ Calling("stem") /\ Offered(o) /\ Fresh(c)
    /\ download # None /\ p \in Up \cap Dandelion
    /\ LET r == HandOver(Born(m, o), o, c)
           s == [r.s EXCEPT !.listed = {IF e.hash = HashOf[o] THEN [e EXCEPT !.stem = p] ELSE e : e \in @}]
       IN IF r.added = "pending" THEN m' = r.s /\ UNCHANGED net
          ELSE m' = s /\ net' = AnnounceTo(s, net, {p})
    /\ unheard' = unheard \cup (IF o \in m.mined THEN {c} \ {None} ELSE {})
    /\ Pass(c)
    /\ Then(App, <<>>)
    /\ UNCHANGED <<download, syncing, failures, phase, window, answers>>

FluffTx(h) ==
    /\ Calling("fluff") /\ Listed(m, h)
    /\ m' = Unstemmed(m, h)
    /\ net' = AnnounceTo(m', net, Up)
    /\ UNCHANGED <<download, syncing, failures, phase, hand, window, answers, passed, unheard>>

\* Mutant of TxRefusedByNetwork: evidence lapses with the peer that gave it.
TxRefusedWhenUnrelayed(s, h) ==
    s.relays[h] = {} /\ Cardinality({Group[p] : p \in s.rejects[h]}) >= 2

\* What the application is told when it asks whether the network refused h.
TxRefusedByNetwork(s, h) ==
    h \notin s.vouched /\ Cardinality({Group[p] : p \in s.rejects[h]}) >= 2

RemoveTransaction(h) ==
    /\ Calling("remove")
    /\ m' = [RemoveAndPurge(m, {h}) EXCEPT
               !.rejects[h] = {}, !.relays[h] = {}, !.vouched = @ \ {h}]
    /\ Then(App, <<>>)
    /\ UNCHANGED <<net, download, syncing, failures, phase, window, answers, passed, unheard>>

\* The application registers an object it built with the wallet, which keeps it.
RegisterTx(o) ==
    /\ Calling("register") /\ m.alive[o] = "unborn" /\ ~Held(m, HashOf[o])
    /\ m' = Register(Born(m, o), o, TRUE)
    /\ UNCHANGED <<net, download, syncing, failures, phase, hand, window, answers, passed, unheard>>

FreeNow(t) ==
    LET s == DropEntries(m, m.listed, "ENOTCONN")
    IN /\ m' = [s EXCEPT !.queue = <<>>]
       /\ hand' = [hand EXCEPT ![t].calls = s.queue]
       /\ phase' = "gone"

\* BRPeerManagerFree: with threads alive the manager is parked for the last of them.
Free ==
    /\ Calling("free")
    /\ IF Connected = {} /\ \A p \in Peers : Idle(p)
       THEN FreeNow(App) /\ UNCHANGED failures
       ELSE phase' = "parked" /\ failures' = MaxFailures /\ UNCHANGED <<m, hand>>
    /\ UNCHANGED <<net, download, syncing, window, answers, passed, unheard>>

LastThreadOut(p) ==
    /\ phase = "parked" /\ Connected = {} /\ \A q \in Peers : Idle(q)
    /\ FreeNow(p)
    /\ UNCHANGED <<net, download, syncing, failures, window, answers, passed, unheard>>

----------------------------------------------------------------------------
(* The messages of a peer *)

\* An inv of a hash p is not known to have: it is marked known and asked for.
InvNew(p, h) ==
    /\ Running(p, "inv") /\ net[p].known[h] = "no"
    /\ net' = [net EXCEPT ![p].known[h] = "inv"]
    /\ UNCHANGED <<m, download, syncing, failures, phase, hand, window, answers, passed, unheard>>

\* The object a handler works on when the wallet or the list has one.
ObjectOf(h) == IF Held(m, h) THEN m.record[h] ELSE (CHOOSE e \in EntriesOf(m, h) : TRUE).obj

\* A handler takes the callbacks of h, and counts p as relaying what is listed.
TakeAndVouch(s, h, p) == IF Listed(s, h) THEN Vouch(Take(s, h), h, p) ELSE s

\* An inv of a hash p already knows.
HasTx(p, h, keep) ==
    /\ Running(p, "inv") /\ net[p].known[h] # "no" /\ (Held(m, h) \/ Listed(m, h))
    /\ LET s == OwnershipFollowsObject(Register(TakeAndVouch(m, h, p), ObjectOf(h), keep), h)
       IN m' = Unrequest(IF syncing THEN s ELSE Vouch(s, h, p), h, p)
    /\ Then(p, Taken(m, h))
    /\ UNCHANGED <<net, download, syncing, failures, phase, window, answers, passed, unheard>>

RelayedTx(p, o, keep) ==
    /\ Running(p, "tx") /\ m.alive[o] = "unborn"
    /\ LET h    == HashOf[o]
           s    == TakeAndVouch(Born(m, o), h, p)
           kept == IF ~syncing \/ h \in Ours THEN Register(s, o, keep) ELSE s
           ours == (~syncing \/ h \in Ours) /\ Registered(s, o, keep)
           t    == IF kept.record[h] = o THEN kept ELSE [kept EXCEPT !.alive = Freed(@, {o})]
           u    == IF h \in Sends /\ Valid(t, h)
                   THEN AddTxToPublishList(t, t.record[h], None, FALSE).s ELSE t
       IN m' = IF ~ours THEN t ELSE Unrequest(IF syncing THEN u ELSE Vouch(u, h, p), h, p)
    /\ Then(p, Taken(m, HashOf[o]))
    /\ UNCHANGED <<net, download, syncing, failures, phase, window, answers, passed, unheard>>

\* p asks for a listed transaction: one the wallet judges invalid leaves the
\* list, another is answered for and served as a copy.
RequestedTx(p, h, keep) ==
    /\ Running(p, "getdata") /\ Listed(m, h)
    /\ LET o == (CHOOSE e \in EntriesOf(m, h) : TRUE).obj
           s == IF Stemming(m, h) THEN Take(m, h) ELSE Vouch(Take(m, h), h, p)
       IN IF Valid(m, h)
          THEN /\ m' = OwnershipFollowsObject(Register(s, o, keep), h)
               /\ Then(p, Taken(m, h))
          ELSE /\ m' = DropEntries(m, EntriesOf(m, h), "EINVAL")
               /\ Then(p, <<>>)
    /\ UNCHANGED <<net, download, syncing, failures, phase, window, answers, passed, unheard>>

\* The callbacks of h are queued error and leave their entries.
AnswerEntry(s, h, error) ==
    [Take(s, h) EXCEPT !.queue = @ \o AnswersTo(EntriesOf(s, h), error)]

\* code "invalid" stands for the codes every honest node shares.
RejectedTx(p, h, code) ==
    /\ Running(p, "reject")
    /\ LET s == [Unrequest(m, h, p) EXCEPT !.relays[h] = @ \ {p}]
           t == IF code = "invalid" /\ s.relays[h] = {} THEN AnswerEntry(s, h, "EINVAL") ELSE s
           counted == /\ code = "invalid" /\ (Held(m, h) \/ Listed(m, h))
                      /\ Cardinality(m.rejects[h]) < MaxRejects
           blamed  == /\ Held(m, h) /\ h \in Sends /\ code # "spent"
                      /\ \A g \in Spends[h] : ~Unconfirmed(m, g)
       IN /\ m' = IF counted THEN [t EXCEPT !.rejects[h] = @ \cup {p}] ELSE t
          /\ net' = IF blamed THEN [net EXCEPT ![p].state = "leaving"] ELSE net
    /\ Then(p, <<>>)
    /\ UNCHANGED <<download, syncing, failures, phase, window, answers, passed, unheard>>

DataNotfound(p, h) ==
    /\ Running(p, "notfound")
    /\ m' = [Unrequest(m, h, p) EXCEPT !.relays[h] = @ \ {p}]
    /\ UNCHANGED <<net, download, syncing, failures, phase, hand, window, answers, passed, unheard>>

\* A block confirms h (a transaction in conflict with a confirmed one does not).
Confirm(p, h) ==
    /\ Running(p, "block") /\ (Held(m, h) \/ Listed(m, h)) /\ Valid(m, h)
    /\ m' = UpdateTx(m, h)
    /\ Then(p, <<>>)
    /\ UNCHANGED <<net, download, syncing, failures, phase, window, answers, passed, unheard>>

\* A reorganisation leaves the wallet's transactions unconfirmed again.
Reorg(p) ==
    /\ Running(p, "reorg") /\ m.mined # {}
    /\ m' = [m EXCEPT !.mined = {}]
    /\ UNCHANGED <<net, download, syncing, failures, phase, hand, window, answers, passed, unheard>>

\* A block confirms a transaction that spends what h spends.
Conflict(p, h) ==
    /\ Running(p, "conflict") /\ ~(Held(m, h) /\ m.record[h] \in m.mined)
    /\ m' = [m EXCEPT !.invalid = @ \cup {h}]
    /\ UNCHANGED <<net, download, syncing, failures, phase, hand, window, answers, passed, unheard>>

\* The pong of a publish, or of the end of a sync: p is asked for what it has not relayed.
Pong(p, endsSync) ==
    /\ Running(p, "pong")
    /\ syncing' = (syncing /\ ~endsSync)
    /\ m' = [m EXCEPT !.requests = [h \in Txs |-> IF h \in ToAsk(m, p) THEN @[h] \cup {p} ELSE @[h]]]
    /\ net' = IF ToAsk(m, p) = {} THEN [net EXCEPT ![p].synced = TRUE]
              ELSE [net EXCEPT ![p].pinged = @ \/ ~net[p].synced]
    /\ UNCHANGED <<download, failures, phase, hand, window, answers, passed, unheard>>

\* Mutant of Unrelayed: a receive that a held send spends is no stake.
UnrelayedDespiteSpend(s) ==
    {h \in Ours \ Sends : /\ Unconfirmed(s, h) /\ s.relays[h] = {} /\ s.requests[h] = {}
                          /\ \A e \in EntriesOf(s, h) : e.call = None}

\* Unconfirmed transactions nobody relays, was asked for or waits on, and the wallet has no stake in.
Unrelayed(s) ==
    {h \in Ours \ Sends : /\ Unconfirmed(s, h) /\ s.relays[h] = {} /\ s.requests[h] = {}
                          /\ \A e \in EntriesOf(s, h) : e.call = None
                          /\ ~\E d \in Sends : Unconfirmed(s, d) /\ h \in Spends[d]}

\* The pong of that request, or its cancellation as the peer goes.
UnrelayedDone(p, success, atTip) ==
    /\ "pong" \in Messages /\ net[p].pinged /\ Idle(p)
    /\ net' = [net EXCEPT ![p].pinged = FALSE, ![p].synced = @ \/ success]
    /\ m' = IF (\A q \in Connected : net'[q].synced) /\ Cardinality(Up) >= MaxConnect /\ atTip
            THEN RemoveAndPurge(m, Unrelayed(m)) ELSE m
    /\ Then(p, <<>>)
    /\ UNCHANGED <<download, syncing, failures, phase, window, answers, passed, unheard>>

\* The chain reaches the height the peers report.
CaughtUp(p) ==
    /\ Running(p, "block") /\ syncing
    /\ net' = LoadMempools(m, net)
    /\ UNCHANGED <<m, download, syncing, failures, phase, hand, window, answers, passed, unheard>>

----------------------------------------------------------------------------
(* Connections *)

\* BRPeerManagerConnect dials p; after MaxFailures failures it is a manual retry.
Dial(p, syncs) ==
    /\ phase = "running" /\ net[p].state = "off" /\ Idle(p)
    /\ Cardinality(Connected) < MaxConnect
    /\ failures >= MaxFailures => Idle(App) /\ window = None
    /\ download = None => syncs
    /\ syncing' = (syncing \/ syncs)
    /\ failures' = IF failures >= MaxFailures THEN 0 ELSE failures
    /\ net' = [net EXCEPT ![p].state = "dialing"]
    /\ UNCHANGED <<m, download, phase, hand, window, answers, passed, unheard>>

\* _peerConnected: the peer is no use and is dropped.
Unusable(p) ==
    /\ net[p].state = "dialing" /\ Idle(p)
    /\ net' = [net EXCEPT ![p].state = "leaving"]
    /\ UNCHANGED <<m, download, syncing, failures, phase, hand, window, answers, passed, unheard>>

\* It joins a download peer that is as good: told of the list if the chain is at its tip.
Join(p, atTip) ==
    /\ net[p].state = "dialing" /\ Idle(p) /\ download # None
    /\ LET joined == [net[p] EXCEPT !.state = "up"]
       IN net' = [net EXCEPT ![p] = IF atTip THEN Mempooled(m, Announced(m, joined, p), p) ELSE joined]
    /\ failures' = IF atTip THEN 0 ELSE failures
    /\ UNCHANGED <<m, download, syncing, phase, hand, window, answers, passed, unheard>>

\* It, or a better connected peer q, becomes the download peer.
Lead(p, q, atTip) ==
    /\ net[p].state = "dialing" /\ Idle(p) /\ q \in Up \cup {p} /\ q # download
    /\ LET N == [net EXCEPT ![p].state = "up"]
           O == IF download = None THEN N ELSE [N EXCEPT ![download].state = "leaving"]
           A == AnnounceTo(m, O, {q})
       IN net' = IF atTip THEN LoadMempools(m, A) ELSE A
    /\ download' = q
    /\ failures' = IF atTip THEN 0 ELSE failures
    /\ UNCHANGED <<m, syncing, phase, hand, window, answers, passed, unheard>>

\* The error a departure cancels the pending publishes with, if it does: a publish
\* timeout with no other live peer, or the last of MaxFailures failures.
PublishTimedOut(p, error) ==
    /\ error = "ETIMEDOUT" /\ net[p].state # "dialing"
    /\ p # download \/ ~syncing \/ Cardinality(Connected) = 1
    /\ Up \ {p} = {}

Cancelled(s, error) ==
    DropEntries(s, {e \in s.listed : e.call # None}, error)

Disconnected(p, error, next) ==
    /\ net[p].state # "off" /\ ~net[p].pinged /\ Idle(p)
    /\ next \in (IF p = download /\ Up \ {p} # {} THEN Up \ {p} ELSE {None})
    /\ download' = IF p = download THEN next ELSE download
    /\ LET failed == IF error \in {"ETIMEDOUT", "other"} /\ failures <= MaxFailures
                     THEN failures + 1 ELSE failures
           gaveUp == download' = None /\ failures' = MaxFailures
           s      == [m EXCEPT !.relays = [h \in Txs |-> @[h] \ {p}]]
       IN /\ failures' = IF p = download /\ failed > MaxFailures THEN MaxFailures ELSE failed
          /\ m' = IF gaveUp THEN Cancelled(s, "ENOTCONN")
                  ELSE IF PublishTimedOut(p, error) THEN Cancelled(s, "ETIMEDOUT")
                  ELSE s
          /\ syncing' = (syncing /\ ~gaveUp)
    /\ net' = [AnnounceTo(m, net, {next}) EXCEPT ![p] = Down]
    /\ Then(p, <<>>)
    /\ UNCHANGED <<phase, window, answers, passed, unheard>>

----------------------------------------------------------------------------
Init ==
    /\ m = [listed |-> {}, queue |-> <<>>, record |-> [h \in Txs |-> None],
            alive |-> [o \in Objs |-> "unborn"], mined |-> {}, invalid |-> {},
            relays |-> [h \in Txs |-> {}], requests |-> [h \in Txs |-> {}],
            rejects |-> [h \in Txs |-> {}], vouched |-> {}]
    /\ net = [p \in Peers |-> Down]
    /\ download = None /\ syncing = FALSE /\ failures = 0 /\ phase = "running"
    /\ hand = [t \in Threads |-> [calls |-> <<>>, flush |-> FALSE]]
    /\ window = None
    /\ answers = [c \in Calls |-> <<>>] /\ passed = {} /\ unheard = {}

AppStep ==
    \/ \E o \in Objs, c \in Calls \cup {None} :
         \/ PublishUnsigned(o, c)
         \/ PublishTx(o, c)
         \/ \E p \in Peers : StemPublishTx(o, c, p)
    \/ \E reachable \in BOOLEAN : PublishResume(reachable)
    \/ \E h \in Txs : FluffTx(h) \/ RemoveTransaction(h)
    \/ \E o \in Objs : RegisterTx(o)
    \/ Free

MessageStep(p) ==
    \/ \E h \in Txs, keep \in BOOLEAN : HasTx(p, h, keep) \/ RequestedTx(p, h, keep)
    \/ \E o \in Objs, keep \in BOOLEAN : RelayedTx(p, o, keep)
    \/ \E h \in Txs : InvNew(p, h) \/ DataNotfound(p, h) \/ Confirm(p, h) \/ Conflict(p, h)
    \/ \E h \in Txs, code \in {"invalid", "spent", "other"} : RejectedTx(p, h, code)
    \/ Reorg(p) \/ CaughtUp(p)
    \/ \E endsSync \in BOOLEAN : Pong(p, endsSync)
    \/ \E success, atTip \in BOOLEAN : UnrelayedDone(p, success, atTip)

LinkStep(p) ==
    \/ \E syncs \in BOOLEAN : Dial(p, syncs)
    \/ Unusable(p)
    \/ \E atTip \in BOOLEAN : Join(p, atTip) \/ \E q \in Peers : Lead(p, q, atTip)
    \/ \E error \in {"none", "EPROTO", "ETIMEDOUT", "other"}, next \in Peers \cup {None} :
         Disconnected(p, error, next)
    \/ LastThreadOut(p)

Next ==
    \/ AppStep
    \/ \E p \in Peers : MessageStep(p) \/ LinkStep(p)
    \/ \E t \in Threads : Deliver(t) \/ FlushAnswers(t)

Spec == Init /\ [][Next]_vars

\* A thread that returned from a handler runs on until it has flushed.
FairSpec == Spec /\ \A t \in Threads : WF_vars(Deliver(t) \/ FlushAnswers(t))

----------------------------------------------------------------------------
(* Properties *)

\* Every variable has its type.
TypeOK ==
    /\ m.listed \subseteq PubEntry /\ m.queue \in Seq(Answer)
    /\ m.record \in [Txs -> Objs \cup {None}]
    /\ m.alive \in [Objs -> {"unborn", "live", "freed", "twice"}]
    /\ m.mined \subseteq Objs /\ m.invalid \subseteq Txs /\ m.vouched \subseteq Txs
    /\ m.relays \in [Txs -> SUBSET Peers] /\ m.requests \in [Txs -> SUBSET Peers]
    /\ m.rejects \in [Txs -> SUBSET Peers]
    /\ net \in [Peers -> Link] /\ download \in Peers \cup {None} /\ syncing \in BOOLEAN
    /\ failures \in 0..MaxFailures + 1 /\ phase \in {"running", "parked", "gone"}
    /\ hand \in [Threads -> [calls : Seq(Answer), flush : BOOLEAN]]
    /\ window \in [obj : Objs, call : Calls \cup {None}, tired : BOOLEAN] \cup {None}
    /\ answers \in [Calls -> Seq(Verdicts)] /\ passed \subseteq Calls /\ unheard \subseteq passed

\* Where a callback is: waiting in the list, queued, in a thread's hand, in the
\* window of its publish, or answered.
InSeq(c, s) == Cardinality({i \in DOMAIN s : s[i].call = c})
Places(c) ==
      Cardinality({e \in m.listed : e.call = c}) + InSeq(c, m.queue)
    + Cardinality(UNION {{t} \X {i \in DOMAIN hand[t].calls : hand[t].calls[i].call = c} : t \in Threads})
    + (IF window # None /\ window.call = c THEN 1 ELSE 0) + Len(answers[c])

\* Whatever the threads interleave, a callback passed with a publish is in exactly
\* one of these places, so it is never lost and never called twice; only one
\* passed with an already confirmed transaction is dropped.
AnsweredOnce ==
    \A c \in Calls : Places(c) = IF c \in passed \ unheard THEN 1 ELSE 0

\* Who would release o: the list, the wallet, or the caller in its window.
Owners(o) ==
      Cardinality({e \in m.listed : e.obj = o /\ e.owned})
    + (IF m.record[HashOf[o]] = o THEN 1 ELSE 0)
    + (IF window # None /\ window.obj = o /\ m.record[HashOf[o]] # o THEN 1 ELSE 0)

\* Every live object has exactly one owner and a released one none, so that none leaks
\* and none is released twice.
OneOwner == \A o \in Objs : Owners(o) = IF m.alive[o] = "live" THEN 1 ELSE 0

\* No entry points at an object that was released, by whichever owner.
NoStaleEntry == \A e \in m.listed : m.alive[e.obj] = "live" /\ HashOf[e.obj] = e.hash

\* When the wallet lets go of a record, removed itself or with what it depended
\* on, no entry goes on naming it.
NothingDiscardedStaysListed ==
    [][\A h \in Txs : Held(m, h) /\ ~Held(m', h) => ~Listed(m', h)]_vars

\* A send of the wallet leaves it only by the user's removal of it, or of what it spends:
\* the sweep of unrelayed receives takes none along.
OnlyTheUserRemovesASend ==
    [][\A h \in Sends : Held(m, h) /\ ~Held(m', h) => \E g \in Txs : RemoveTransaction(g)]_vars

\* A send whose publish was answered as taken by a peer is not reported refused by the
\* network later: in instances without blocks and removals, which end the evidence.
TakenIsNeverRefused ==
    \A c \in Calls, h \in Txs : "OK" \in ToSet(answers[c]) => ~TxRefusedByNetwork(m, h)

\* While a transaction stems no other peer is told of it or asked for it.
StemStaysPrivate ==
    [][\A p \in Peers, h \in Txs :
         \/ net'[p].known[h] = "told" /\ net[p].known[h] # "told"
         \/ p \in m'.requests[h] \ m.requests[h]
         => ~HidesFrom(m', h, p) /\ (HidesFrom(m, h, p) => Listed(m', h))]_vars

\* Ending a stem phase announces the transaction to every connected peer.
FluffReachesEveryPeer ==
    [][\A h \in Txs : FluffTx(h) =>
         \A p \in Up : net'[p].known[h] \in {"told", "inv"}]_vars

\* What was taken or queued for a callback is delivered.
QueuedIsDelivered ==
    \A c \in Calls : (InSeq(c, m.queue) > 0) ~> (answers[c] # <<>>)
=============================================================================
