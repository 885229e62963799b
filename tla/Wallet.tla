------------------------------- MODULE Wallet -------------------------------
(***************************************************************************)
(* The transactions of a BRWallet and what it derives from them: which     *)
(* transactions count, which of their outputs are coins the wallet offers, *)
(* and which coins are spent.                                              *)
(*                                                                         *)
(* The peer manager registers transactions that peers relay or blocks      *)
(* deliver, stamps their heights, takes heights back on a reorganisation   *)
(* and pushes the tip; the application removes transactions, marks asset   *)
(* outpoints and reloads the wallet.  Every action is one hold of          *)
(* wallet->lock: a call that releases the lock on its way is several.      *)
(*                                                                         *)
(* Coins are outpoints <<tx, n>>; amounts, fees and time stamps are not    *)
(* modelled, and a balance is the set of coins it sums.  Addresses are     *)
(* positions of one derived chain, of which the first `window` are         *)
(* generated; they are segwit ones, so that the tie-break of               *)
(* _BRWalletTxCompare on P2PKH chain positions never decides.              *)
(***************************************************************************)
EXTENDS Integers, Sequences, FiniteSets, SequencesExt, FiniteSetsExt, Functions, TLC

CONSTANTS
    Txs,         \* the transactions that exist
    Ins,         \* the outpoints each spends
    Pays,        \* the address each of its outputs pays, 0 for somebody else's
    Signed,      \* the inputs it signs validly
    Delayed,     \* those held back while unconfirmed: replaceable, dusty, postdated
    Coinbase,    \* coin-generation transactions
    MaxHeight,
    Maturity,    \* how far the tip is above a coin-generation output that is spendable
    Gap,         \* SEQUENCE_GAP_LIMIT_EXTERNAL
    Cushion,     \* what a load generates on top of it (100)
    ForeignMax,  \* WALLET_FOREIGN_TX_MAX_COUNT
    DualKey,     \* hasLegacyKey
    Claims,      \* the confirmations a server may report, <<tx, height>>
    Assets,      \* the outpoints found to carry an asset
    Api          \* the calls the environment makes

Outpoints == UNION {{t} \X DOMAIN Pays[t] : t \in Txs}
PaysOf(t) == {Pays[t][n] : n \in DOMAIN Pays[t]} \ {0}
Addresses == UNION {PaysOf(t) : t \in Txs}

ASSUME WalletConstants ==
    /\ IsFiniteSet(Txs) /\ Pays \in [Txs -> Seq(Nat)] /\ Addresses # {}
    /\ Ins \in [Txs -> SUBSET Outpoints]
    /\ \A t \in Txs : Signed[t] \subseteq Ins[t] /\ \A o \in Ins[t] : o[1] # t
    /\ Delayed \subseteq Txs /\ Coinbase \subseteq Txs
    /\ \A t \in Coinbase : Ins[t] = {}
    /\ {MaxHeight, Gap} \subseteq Nat \ {0} /\ {Maturity, Cushion, ForeignMax} \subseteq Nat
    /\ DualKey \in BOOLEAN
    /\ Claims \subseteq Txs \X (1..MaxHeight) /\ Assets \subseteq Outpoints
    /\ Api \subseteq {"restamp", "reorg", "remove", "load"}

VARIABLES
    rec,          \* allTx: the records held, by transaction
    transactions, \* the wallet's own, in their order
    foreign,      \* foreignTx: held, though none of the wallet's
    tip,          \* wallet->blockHeight
    window,       \* the addresses generated so far
    overrides,    \* assetOverrides
    credit,       \* what the last _BRWalletUpdateBalance derived
    growing,      \* does a registration still have to generate addresses
    removals,     \* what a removal in progress still has to remove, in order
    mined,        \* the main chain: the height of each transaction, 0 when not in it
    best          \* the height of the last block of the main chain

vars == <<rec, transactions, foreign, tip, window, overrides, credit, growing, removals, mined, best>>
wallet == <<rec, transactions, foreign, tip, window, overrides, credit, growing, removals>>
chain == <<mined, best>>

Unconfirmed == MaxHeight + 1    \* TX_UNCONFIRMED is above every height
MaxWindow == Max(Addresses) + Gap + Cushion

Record == [height : 1..Unconfirmed,
           always : BOOLEAN,                       \* WALLET_SIG_ALWAYS
           accepted : SUBSET SUBSET Outpoints]     \* the owned inputs it was last accepted for

Parents(t) == {o[1] : o \in Ins[t]}
Conflict(t, u) == t # u /\ Ins[t] \cap Ins[u] # {}

-----------------------------------------------------------------------------
(* Ownership and signatures, from the records r and the window w. *)

OwnedInputs(r, w, t) ==
    {o \in Ins[t] : o[1] \in DOMAIN r /\ Pays[o[1]][o[2]] \in 1..w}

ContainsTx(r, w, t) ==
    PaysOf(t) \cap 1..w # {} \/ OwnedInputs(r, w, t) # {}

(* Mutant of Unaccepted: what was accepted once needs no other check. *)
UnacceptedEver(e, owned) == e.accepted = {}

Unaccepted(e, owned) == e.accepted # {owned}

(* _BRWalletSpendsSigned: whether t, with record e, signs every coin it    *)
(* spends, or needs no check; and the record it leaves behind.             *)
SpendsSigned(r, w, t, e, always) ==
    LET owned == OwnedInputs(r, w, t)
        exempt == e.height # Unconfirmed /\ ~ always /\ ~ e.always
        fresh == Unaccepted(e, owned)
    IN [ok |-> exempt \/ ~ fresh \/ owned \subseteq Signed[t],
        rec |-> IF ~ exempt /\ fresh /\ owned \subseteq Signed[t]
                THEN [e EXCEPT !.accepted = {owned}] ELSE e]

-----------------------------------------------------------------------------
(* The order of the wallet's transactions. *)

(* _BRWalletTxIsAscending: t goes after u, by height or by descent.        *)
Ascending(r, t, u) ==
    LET asc[d \in 0..Cardinality(Txs)] ==
            {v \in DOMAIN r :
                \/ r[v].height > r[u].height
                \/ /\ r[v].height = r[u].height
                   /\ \/ u \in Parents(v)
                      \/ d > 0 /\ v \notin Parents(u) /\ Parents(v) \cap asc[d - 1] # {}}
    IN t \in asc[Cardinality(Txs)]

(* Mutant of InsertTx: a transaction is listed after all there are. *)
InsertTxLast(r, s, t) == Append(s, t)

(* _BRWalletInsertTx: after the last one that does not have to follow t.   *)
InsertTx(r, s, t) ==
    LET k == Max({0} \cup {i \in DOMAIN s : ~ Ascending(r, s[i], t)})
    IN InsertAt(s, k + 1, t)

-----------------------------------------------------------------------------
(* _BRWalletUpdateBalance: a pass over the transactions in their order.    *)

NoCredit == [spent |-> {}, invalid |-> {}, pending |-> {}, used |-> {}, utxos |-> {},
             assetUtxos |-> {}, immature |-> {}, nextMaturity |-> Unconfirmed + Maturity,
             coinbaseOutputs |-> 0, window |-> 0]

Coins(t, w) == {<<t, n>> : n \in {m \in DOMAIN Pays[t] : Pays[t][m] \in 1..w}}

Counted(c, t, h, w, wtip, over) ==
    LET coins == Coins(t, w)
        young == t \in Coinbase /\ (h = Unconfirmed \/ wtip < h + Maturity)
        paid == [c EXCEPT !.used = @ \cup PaysOf(t),
                          !.coinbaseOutputs = @ + (IF t \in Coinbase THEN Cardinality(coins) ELSE 0)]
    IN IF young
       THEN [paid EXCEPT !.immature = @ \cup coins,
                         !.nextMaturity = IF coins = {} \/ h = Unconfirmed THEN @
                                          ELSE Min({@, h + Maturity})]
       ELSE [paid EXCEPT !.utxos = @ \cup (coins \ over), !.assetUtxos = @ \cup (coins \cap over)]

(* One transaction: it is invalid, pending, or its outputs are coins.      *)
Weighed(acc, t, w, wtip, over) ==
    LET r == acc.rec
        c == acc.credit
        h == r[t].height
        unconfirmed == h = Unconfirmed
        doubled == unconfirmed /\ (Ins[t] \cap c.spent # {} \/ Parents(t) \cap c.invalid # {})
        check == SpendsSigned(r, w, t, r[t], FALSE)
        spends == [c EXCEPT !.spent = @ \cup Ins[t]]
        waits == unconfirmed /\ (t \in Delayed \/ Parents(t) \cap c.pending # {})
    IN IF doubled \/ ~ check.ok THEN [acc EXCEPT !.credit.invalid = @ \cup {t}]
       ELSE [rec |-> [r EXCEPT ![t] = check.rec],
             credit |-> IF waits THEN [spends EXCEPT !.pending = @ \cup {t}, !.used = @ \cup PaysOf(t)]
                        ELSE Counted(spends, t, h, w, wtip, over)]

(* Mutant of Rebuild: a coin is not held against a spend listed before it. *)
RebuildUnpruned(r, s, w, wtip, over) ==
    LET pass[n \in 0..Len(s)] ==
            IF n = 0 THEN [rec |-> r, credit |-> [NoCredit EXCEPT !.window = w]]
            ELSE LET next == Weighed(pass[n - 1], s[n], w, wtip, over)
                 IN IF s[n] \in next.credit.pending \cup next.credit.invalid THEN next
                    ELSE [next EXCEPT !.credit.utxos = @ \ next.credit.spent]
    IN pass[Len(s)]

Rebuild(r, s, w, wtip, over) ==
    LET pass[n \in 0..Len(s)] ==
            IF n = 0 THEN [rec |-> r, credit |-> [NoCredit EXCEPT !.window = w]]
            ELSE Weighed(pass[n - 1], s[n], w, wtip, over)
        all == pass[Len(s)]
    IN [all EXCEPT !.credit.utxos = @ \ all.credit.spent]

(* The records, order and tip after a call that rebuilds, or need not.     *)
Settle(r, s, w, wtip, over, needed) ==
    LET built == IF needed THEN Rebuild(r, s, w, wtip, over) ELSE [rec |-> r, credit |-> credit]
    IN /\ rec' = built.rec /\ credit' = built.credit
       /\ transactions' = s /\ tip' = wtip

-----------------------------------------------------------------------------
(* The tip, and the heights it makes coin-generation outputs spendable at. *)

(* Mutant of TipMatters: an output matures one block after its rebuild. *)
TipMattersLate(h) == credit.coinbaseOutputs > 0 /\ ~ (h >= tip /\ h <= credit.nextMaturity)

TipMatters(h) == credit.coinbaseOutputs > 0 /\ ~ (h >= tip /\ h < credit.nextMaturity)

(* BRWalletSetBlockHeight. *)
SetBlockHeight(h) ==
    /\ Settle(rec, transactions, window, h, overrides, TipMatters(h))
    /\ UNCHANGED <<foreign, window, overrides, growing, removals>>

-----------------------------------------------------------------------------
(* Registration.  mode: what the caller vouches for; own: it passes the    *)
(* wallet's own record.                                                    *)

(* Mutant of NotForeign: a record that becomes the wallet's stays foreign. *)
StillForeign(t) == foreign

NotForeign(t) == foreign \ {t}

With(r, t, e) == [u \in DOMAIN r \cup {t} |-> IF u = t THEN e ELSE r[u]]

Fresh(h) == [height |-> h, always |-> FALSE, accepted |-> {}]

CheckedMode(t, mode, own) == IF own /\ mode = "trusted" THEN "checked" ELSE mode

RegisterTx(t, asked, h, own) ==
    LET held == t \in DOMAIN rec
        mode == CheckedMode(t, asked, own)
        e == IF held THEN rec[t] ELSE Fresh(h)
        check == SpendsSigned(rec, window, t, e, mode = "unproven")
        owned == OwnedInputs(rec, window, t)
        new == CASE mode = "trusted"  -> [e EXCEPT !.accepted = {owned}]
                 [] mode = "checked"  -> check.rec
                 [] mode = "unproven" -> [check.rec EXCEPT !.always = TRUE]
        with == With(rec, t, new)
        mine == ContainsTx(rec, window, t)
    IN /\ own => held
       /\ held => t \in foreign /\ mine
       /\ mode # "trusted" => check.ok
       /\ IF mine
          THEN /\ Settle(with, InsertTx(with, transactions, t), window, tip, overrides, TRUE)
               /\ foreign' = NotForeign(t)
               /\ growing' = TRUE
          ELSE /\ h = Unconfirmed /\ Cardinality(foreign) < ForeignMax
               /\ rec' = with
               /\ foreign' = foreign \cup {t}
               /\ UNCHANGED <<transactions, tip, credit, growing>>
       /\ UNCHANGED <<window, overrides, removals>>

(* BRWalletUnusedAddrs: the chain reaches Gap addresses beyond the last    *)
(* one that is used.                                                       *)
GrownWindow(used, w, gap) ==
    Min({v \in w..Max({w, MaxWindow}) : \A a \in used : a <= v => a + gap <= v})

UnusedAddrs ==
    /\ growing
    /\ window' = GrownWindow(credit.used, window, Gap)
    /\ growing' = FALSE
    /\ UNCHANGED <<rec, transactions, foreign, tip, overrides, credit, removals>>

-----------------------------------------------------------------------------
(* Heights. *)

Without(s, t) ==
    IF t \in Range(s) THEN RemoveAt(s, CHOOSE i \in DOMAIN s : s[i] = t) ELSE s

(* One hash of _BRWalletUpdateTransactions: restamp is a new time stamp.   *)
Stamped(acc, t, h, unproven, restamp) ==
    LET r == acc.rec
        old == r[t].height
        back == old # Unconfirmed /\ h = Unconfirmed
        new == [r[t] EXCEPT !.height = h, !.always = @ \/ unproven,
                            !.accepted = IF back THEN {} ELSE @]
        with == [r EXCEPT ![t] = new]
        matters == \/ t \in credit.pending \cup credit.invalid \cup Coinbase
                   \/ old # Unconfirmed /\ old # h
    IN IF t \notin DOMAIN r \/ (old = h /\ ~ restamp) \/ (unproven /\ old # Unconfirmed) THEN acc
       ELSE IF ContainsTx(with, window, t)
       THEN [acc EXCEPT !.rec = with,
                        !.list = IF t \in Range(@) THEN InsertTx(with, Without(@, t), t) ELSE @,
                        !.needed = @ \/ matters]
       ELSE IF h # Unconfirmed /\ ~ DualKey
       THEN [acc EXCEPT !.rec = [u \in DOMAIN r \ {t} |-> r[u]], !.foreign = @ \ {t}]
       ELSE [acc EXCEPT !.rec = with]

UpdateTransactions(hashes, h, unproven, restamp) ==
    LET raised == ~ unproven /\ h # Unconfirmed /\ h > tip
        start == [rec |-> rec, list |-> transactions, foreign |-> foreign,
                  needed |-> raised /\ credit.coinbaseOutputs > 0 /\ h >= credit.nextMaturity]
        pass[n \in 0..Len(hashes)] ==
            IF n = 0 THEN start ELSE Stamped(pass[n - 1], hashes[n], h, unproven, restamp)
        done == pass[Len(hashes)]
    IN /\ Settle(done.rec, done.list, window, IF raised THEN h ELSE tip, overrides, done.needed)
       /\ foreign' = done.foreign
       /\ UNCHANGED <<window, overrides, growing, removals>>

Forgotten(e) == [e EXCEPT !.height = Unconfirmed, !.accepted = {}]

(* Mutant of StaysConfirmed: the first block of the branch is kept as well. *)
StaysConfirmedAtBranch(t, h) == rec[t].height <= h + 1

StaysConfirmed(t, h) == rec[t].height <= h

(* BRWalletSetTxUnconfirmedAfter: those at the end of the list, above h.   *)
SetTxUnconfirmedAfter(h) ==
    LET last == Max({0} \cup {i \in DOMAIN transactions : StaysConfirmed(transactions[i], h)})
        after == {transactions[i] : i \in (last + 1)..Len(transactions)}
        r == [t \in DOMAIN rec |-> IF t \in after THEN Forgotten(rec[t]) ELSE rec[t]]
    IN /\ Settle(r, transactions, window, h, overrides, after # {})
       /\ UNCHANGED <<foreign, window, overrides, growing, removals>>

-----------------------------------------------------------------------------
(* Removal.  BRWalletRemoveTransaction gives up the lock to remove the     *)
(* dependants it found, and then starts over.                              *)

Dependants(t) ==
    LET last == Max({0} \cup {i \in DOMAIN transactions :
                               rec[transactions[i]].height < rec[t].height})
    IN SelectSeq(SubSeq(transactions, last + 1, Len(transactions)), LAMBDA u : t \in Parents(u))

RemoveTransaction(t) ==
    LET rest == IF removals = <<>> THEN <<>> ELSE Tail(removals)
        dependants == IF t \in DOMAIN rec THEN Dependants(t) ELSE <<>>
    IN /\ removals # <<>> => t = Head(removals)
       /\ removals = <<>> => t \in DOMAIN rec
       /\ IF dependants # <<>>
          THEN /\ removals' = dependants \o <<t>> \o rest
               /\ UNCHANGED <<rec, transactions, foreign, tip, credit>>
          ELSE /\ removals' = rest
               /\ IF t \in DOMAIN rec
                  THEN /\ Settle([u \in DOMAIN rec \ {t} |-> rec[u]], Without(transactions, t),
                                 window, tip, overrides, TRUE)
                       /\ foreign' = NotForeign(t)
                  ELSE UNCHANGED <<rec, transactions, foreign, tip, credit>>
       /\ UNCHANGED <<window, overrides, growing>>

(* BRWalletRegisterAssetOutpoint. *)
RegisterAssetOutpoint(o) ==
    /\ o \notin overrides
    /\ overrides' = overrides \cup {o}
    /\ Settle(rec, transactions, window, tip, overrides', TRUE)
    /\ UNCHANGED <<foreign, window, growing, removals>>

(* BRWalletNewDual on the transactions saved, with their heights, and then *)
(* the tip BRPeerManagerNewEx pushes.                                      *)
Load ==
    LET saved == [t \in Range(transactions) |-> Fresh(rec[t].height)]
        pass[n \in 0..Len(transactions)] ==
            IF n = 0 THEN [rec |-> <<>>, list |-> <<>>]
            ELSE LET t == transactions[n]
                     r == With(pass[n - 1].rec, t, saved[t])
                 IN [rec |-> r, list |-> InsertTx(r, pass[n - 1].list, t)]
        loaded == pass[Len(transactions)]
        seed == Max({0} \cup ({saved[t].height : t \in DOMAIN saved} \ {Unconfirmed}))
        w == GrownWindow(UNION {PaysOf(t) : t \in DOMAIN saved}, Gap + Cushion, Gap + Cushion)
        first == Rebuild(loaded.rec, loaded.list, w, seed, {})
        again == first.credit.coinbaseOutputs > 0
                     /\ ~ (best >= seed /\ best < first.credit.nextMaturity)
        built == IF again THEN Rebuild(first.rec, loaded.list, w, best, {}) ELSE first
    IN /\ rec' = built.rec /\ credit' = built.credit /\ transactions' = loaded.list
       /\ foreign' = {} /\ tip' = best /\ window' = w /\ overrides' = {}
       /\ growing' = FALSE /\ removals' = <<>>

-----------------------------------------------------------------------------
(* The chain and the callers. *)

(* What a chain may hold: spends of mined coins, each spent once, signed.  *)
Mineable(m) ==
    \A t \in Txs : m[t] > 0 =>
        /\ Signed[t] = Ins[t]
        /\ \A p \in Parents(t) : m[p] \in 1..m[t] /\ (p \in Coinbase => m[p] + Maturity <= m[t])
        /\ \A u \in Txs : Conflict(t, u) => m[u] = 0

(* What the main chain may hold at `to` when it keeps its blocks up to from. *)
Extensions(from, to) ==
    {m \in [Txs -> 0..to] : Mineable(m) /\ \A t \in Txs : IF mined[t] \in 1..from THEN m[t] = mined[t]
                                                          ELSE m[t] \notin 1..from}

Block ==
    /\ best < MaxHeight
    /\ best' = best + 1
    /\ mined' \in Extensions(best, best + 1)
    /\ SetBlockHeight(best + 1)

Reorg(join) ==
    /\ "reorg" \in Api /\ best < MaxHeight /\ join < best
    /\ best' = best + 1
    /\ mined' \in Extensions(join, best + 1)
    /\ SetTxUnconfirmedAfter(join)

InBlocks(h) == {t \in Txs : mined[t] = h}

Relayed(t) == RegisterTx(t, "checked", Unconfirmed, FALSE) /\ UNCHANGED chain
Delivered(t) == mined[t] \in 1..best /\ RegisterTx(t, "trusted", Unconfirmed, FALSE) /\ UNCHANGED chain
HasTx(t, own) ==
    /\ ~ own => Signed[t] = Ins[t]
    /\ RegisterTx(t, "trusted", Unconfirmed, own)
    /\ UNCHANGED chain

Reported(t, h) ==
    /\ <<t, h>> \in Claims /\ h <= best
    /\ \/ RegisterTx(t, "unproven", h, FALSE)
       \/ t \in DOMAIN rec /\ UpdateTransactions(<<t>>, h, TRUE, FALSE)
    /\ UNCHANGED chain

Confirmed(h) ==
    /\ InBlocks(h) # {}
    /\ \E hashes \in SetToSeqs(InBlocks(h)) : UpdateTransactions(hashes, h, FALSE, FALSE)
    /\ UNCHANGED chain

Restamped(t) ==
    /\ "restamp" \in Api
    /\ t \in DOMAIN rec /\ rec[t].height = Unconfirmed
    /\ UpdateTransactions(<<t>>, Unconfirmed, FALSE, TRUE)
    /\ UNCHANGED chain

Removed(t) == "remove" \in Api /\ RemoveTransaction(t) /\ UNCHANGED chain
AssetFound(o) == RegisterAssetOutpoint(o) /\ UNCHANGED chain
Reloaded == "load" \in Api /\ Load /\ UNCHANGED chain
Generated == UnusedAddrs /\ UNCHANGED chain

Init ==
    /\ rec = <<>> /\ transactions = <<>> /\ foreign = {} /\ tip = 1
    /\ window = Gap + Cushion /\ overrides = {}
    /\ credit = [NoCredit EXCEPT !.window = Gap + Cushion]
    /\ growing = FALSE /\ removals = <<>>
    /\ best = 1 /\ mined \in {m \in [Txs -> 0..1] : Mineable(m)}

Next ==
    \/ Block \/ Reloaded \/ Generated
    \/ \E h \in 1..MaxHeight : Reorg(h) \/ Confirmed(h)
    \/ \E t \in Txs : \/ Relayed(t) \/ Delivered(t) \/ Restamped(t) \/ Removed(t)
                       \/ \E h \in 1..MaxHeight : Reported(t, h)
                       \/ \E own \in BOOLEAN : HasTx(t, own)
    \/ \E o \in Assets : AssetFound(o)

Spec == Init /\ [][Next]_vars

-----------------------------------------------------------------------------
(* Types; what the wallet lists it holds, once, and not as a foreign       *)
(* transaction (_BRWalletForgetForeignTx).                                 *)
TypeOK ==
    /\ DOMAIN rec \subseteq Txs /\ \A t \in DOMAIN rec : rec[t] \in Record
    /\ Range(transactions) \subseteq DOMAIN rec /\ IsInjective(transactions)
    /\ foreign \subseteq DOMAIN rec \ Range(transactions)
    /\ tip \in 0..MaxHeight /\ best \in 1..MaxHeight
    /\ window \in 1..(2 * MaxWindow)
    /\ overrides \subseteq Outpoints
    /\ growing \in BOOLEAN /\ mined \in [Txs -> 0..MaxHeight]

(* Whatever is stamped, taken back or loaded, the list stays in the order  *)
(* of heights, as the walks from its end take it to be                     *)
(* (BRWalletSetTxUnconfirmedAfter, BRWalletRemoveTransaction).             *)
ListedByHeight ==
    \A i, j \in DOMAIN transactions :
        i < j => rec[transactions[i]].height <= rec[transactions[j]].height

Accepted == Range(transactions) \ credit.invalid

(* A coin is offered only while nothing the wallet accepts spends it, nor  *)
(* a transaction it knows to be in the main chain: whatever order they     *)
(* came in, whoever reported a height, and across removals, reorganisations *)
(* and reloads.                                                            *)
SpentIsNeverOffered ==
    \A t \in Range(transactions) :
        (t \in Accepted \/ (mined[t] > 0 /\ rec[t].height = mined[t])) => Ins[t] \cap credit.utxos = {}

(* No accepted transaction spends one of the wallet's coins without        *)
(* signing it, although it may have been registered before the coin's      *)
(* transaction or its address was known (_BRWalletSpendsSigned).           *)
UnsignedSpendsNothing ==
    \A t \in Accepted : OwnedInputs(rec, credit.window, t) \subseteq Signed[t]

Coinage(h) == Rebuild(rec, transactions, credit.window, h, overrides).credit.utxos

(* The calls that skip the rebuild are right to: every coin offered is one *)
(* a fresh pass at the chain's tip would offer, and every coin a fresh     *)
(* pass at the wallet's own tip would offer is offered.  While two         *)
(* unconfirmed transactions conflict, a new time stamp may swap them, and  *)
(* the next rebuild then takes the other one.                              *)
CreditIsCurrent ==
    (\A t, u \in Range(transactions) : Conflict(t, u) =>
            rec[t].height # Unconfirmed \/ rec[u].height # Unconfirmed)
        => /\ credit.utxos \subseteq Coinage(best)
           /\ Coinage(tip) \subseteq credit.utxos

(* A coin-generation output is offered only when its block is deep enough  *)
(* in the main chain; a height only a server vouches for is excepted.      *)
CreditedCoinbaseIsMature ==
    \A o \in credit.utxos : o[1] \in Coinbase =>
        rec[o[1]].always \/ (mined[o[1]] > 0 /\ best >= mined[o[1]] + Maturity)
=============================================================================
