------------------------------ MODULE MCCFScan ------------------------------
(* Small instances of the scan: peers are model values. *)
EXTENDS CFScan
CONSTANTS p1, p2
=============================================================================
