----------------------------- MODULE MCPublish -----------------------------
\* Instances of Publish: c1 and c2 are copies of a send, which spends the
\* wallet's receive r1 where the instance has one.
EXTENDS Publish, TLC

CONSTANTS c1, c2, r1, send, recv, p1, p2, k1, k2

ObjectHashes == [o \in Objs |-> IF o = r1 THEN recv ELSE send]
SpentBy      == [h \in Txs |-> IF h = send THEN {recv} \cap Txs ELSE {}]

Groups       == [p \in Peers |-> p]

Symmetric == Permutations(Calls) \cup Permutations(Objs \ {r1}) \cup Permutations(Peers)
=============================================================================
