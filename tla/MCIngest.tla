------------------------------ MODULE MCIngest ------------------------------
(* Values of the constants of IngestPipeline for TLC. *)
EXTENDS IngestPipeline

CONSTANTS p1, p2

OneProducer == {p1}
TwoProducers == {p1, p2}

NoFaults == {}
SinkFaults == FaultKinds \ {"startCursor"}
RecoverableFaults == {"dhWrite", "journalAppend", "mark", "startCursor"}

NoReplay == {FALSE}
AnyReplay == BOOLEAN
=============================================================================
