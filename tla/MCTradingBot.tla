---------------------------- MODULE MCTradingBot ----------------------------
(* Values of the constants of TradingBot for TLC. *)
EXTENDS TradingBot

TwoSlots == 1 .. 2
=============================================================================
