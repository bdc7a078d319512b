---------------------------- MODULE MCGapBackfill ----------------------------
(* Values of the constants of GapBackfill for TLC. *)
EXTENDS GapBackfill, TLC

CONSTANTS w1, w2

OneWorker == {w1}
TwoWorkers == {w1, w2}
WorkerSymmetry == Permutations(TwoWorkers)

\* Every trade at its own millisecond; the second and third at the same one.
DistinctTimes == [i \in Ids |-> i]
TiedTimes == [i \in Ids |-> IF i = 3 THEN 2 ELSE i]
=============================================================================
