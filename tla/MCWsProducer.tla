---------------------------- MODULE MCWsProducer ----------------------------
(* Values of the constants of WsProducer for TLC. *)
EXTENDS WsProducer

BothProducers == {"binance", "tradingview"}
QuotesOnly == {"tradingview"}
=============================================================================
