---------------------------- MODULE GaplessScan ----------------------------
(***************************************************************************)
(* What a compact-filter scan promises the wallet, without its tables of   *)
(* holes: heights are judged or reported as given up, and `scanned` passes *)
(* no other.  It goes back only when the verdicts from some height on are  *)
(* void, or when a scan starts.                                            *)
(***************************************************************************)
EXTENDS Naturals

CONSTANT Heights

VARIABLES
    start,      \* the first height of the scan
    scanned,    \* start..scanned is done
    judged,     \* the heights whose filter was judged
    reported    \* everything below it was reported to the user

vars == <<start, scanned, judged, reported>>

Lower(a, b) == IF a < b THEN a ELSE b

Done(h) == h \in judged \/ h < reported
Gapless == \A h \in start..scanned : Done(h)

Init ==
    /\ start \in Heights /\ scanned = start - 1
    /\ judged = {} /\ reported = 0

(* Verdicts and reports arrive, and the scan may get further. *)
Proceed ==
    /\ start' = start /\ scanned' >= scanned
    /\ judged \subseteq judged' /\ reported' >= reported
    /\ Gapless'

(* What was scanned from n on is to be scanned again, its verdicts being    *)
(* void or given for fewer addresses; reports stay made.                   *)
ScanAgain(n) ==
    /\ start' \in {start, Lower(start, n)} /\ scanned' >= Lower(scanned, n - 1)
    /\ judged' \subseteq judged /\ {h \in judged : h < n} \subseteq judged'
    /\ reported' >= reported
    /\ Gapless'

(* A new scan begins, and what is done below it stays done. *)
StartAnew ==
    /\ scanned' = start' - 1
    /\ reported' >= reported
    /\ \A h \in Heights : h < start' /\ Done(h) => Done(h)'

Next == Proceed \/ StartAnew \/ \E n \in Heights : ScanAgain(n)

Spec == Init /\ [][Next]_vars
=============================================================================
