------------------------------ MODULE MCWallet ------------------------------
(* A mined reward f; a signed but replaceable send a of it, and an         *)
(* unsigned claim b on it that pays two of the wallet's addresses.         *)
EXTENDS Wallet
CONSTANTS f, a, b

RewardAndTwoSpends == (f :> {}) @@ (a :> {<<f, 1>>}) @@ (b :> {<<f, 1>>})
Addressed == (f :> <<1>>) @@ (a :> <<0>>) @@ (b :> <<2, 1>>)
ASigned == [RewardAndTwoSpends EXCEPT ![b] = {}]
AtEitherHeight == {<<a, 1>>, <<a, 2>>}
Rewards == {<<f, 1>>}
=============================================================================
