--------------------------- MODULE MCMarketFeeder ---------------------------
(* Values of the constants of MarketFeeder for TLC. *)
EXTENDS MarketFeeder

CONSTANTS c1, c2

TwoClients == {c1, c2}
=============================================================================
