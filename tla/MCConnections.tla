--------------------------- MODULE MCConnections ---------------------------
(* Small instances: a1 has the longer chain, a2 is not what it was said to be. *)
EXTENDS Connections, TLC
CONSTANTS a1, a2, o1, o2, o3

Claims == [a \in Addrs |-> IF a = a1 THEN 2 ELSE 1]
DialsByAddr ==
    [a \in Addrs |-> IF a = a1 THEN {"starts", "waits"} ELSE {"starts", "fails"}]
Shows == [a \in Addrs |-> IF a = a1 THEN {"fit"} ELSE {"fit", "no filters", "wrong node"}]

Symmetric == Permutations(Objs)
=============================================================================
