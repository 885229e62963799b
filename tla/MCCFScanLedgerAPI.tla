------------------------- MODULE MCCFScanLedgerAPI -------------------------
(* A small instance: two heights, one peer. *)
EXTENDS CFScanLedgerAPI
CONSTANT p1
=============================================================================
