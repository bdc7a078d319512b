----------------------------- MODULE MCBarFeed -----------------------------
(* Values of the constants of BarFeed for TLC. *)
EXTENDS BarFeed

BothTables == {"stitched", "filled"}
=============================================================================
