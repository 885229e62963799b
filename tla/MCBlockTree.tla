---------------------------- MODULE MCBlockTree ----------------------------
(* A chain of headers, and a branch from the one at height 1. *)
EXTENDS BlockTree
CONSTANTS g, a1, a2, a3, b2, b3

Links == [h \in Hashes |-> CASE h = g -> None [] h = a1 -> g [] h \in {a2, b2} -> a1
                             [] h = a3 -> a2 [] h = b3 -> b2]
Heights == [h \in Hashes |-> CASE h = g -> 0 [] h = a1 -> 1 [] h \in {a2, b2} -> 2 [] h \in {a3, b3} -> 3]

\* Which of two names an object bears says nothing: the only object of a header is the first.
Named(o) ==
    IF o \in [hash : Hashes, copy : {2}] /\ [o EXCEPT !.copy = 1] \notin m.live
    THEN [o EXCEPT !.copy = 1]
    ELSE IF o \in [hash : Hashes, copy : {1}] /\ o \notin m.live /\ [o EXCEPT !.copy = 2] \in m.live
    THEN [o EXCEPT !.copy = 2] ELSE o
UpToNames ==
    <<[h \in Hashes |-> Named(m.blocks[h])], [h \in Hashes |-> Named(m.orphans[h])],
      [n \in 0..MaxHeight |-> Named(m.checkpoints[n])], Named(m.lastBlock), Named(m.lastOrphan),
      Named(m.startSyncFrom), {Named(o) : o \in m.live}, {Named(o) : o \in m.dated},
      [m.memo EXCEPT !.tip = Named(@)], {Named(o) : o \in carried}, index, rewound>>
=============================================================================
