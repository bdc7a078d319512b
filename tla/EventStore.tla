----------------------------- MODULE EventStore -----------------------------
(***************************************************************************)
(* The durable write-ahead log of envelopes, DuckDbEventStore              *)
(* (storage/eventstore_duckdb.py).  A batch is known by the id the DuckDB  *)
(* sequence gave it; its rows are immutable once stored and are not        *)
(* modelled.  Table event_store is the set wal, the one row of table acks  *)
(* is committed, the sequence event_store_seq is nextBatch.  These three   *)
(* survive a crash; lastPruned is the _last_pruned_batch field of the open *)
(* store and does not.                                                     *)
(*                                                                         *)
(* Every operation runs under the store's lock in one step.  The prune     *)
(* timer (_prune_interval_s) is a choice: any commit may find it expired.  *)
(***************************************************************************)
EXTENDS Integers, FiniteSets

CONSTANT PruneSafety   \* prune_safety_batches

ASSUME PruneSafetyAssumption == PruneSafety \in Nat \ {0}

VARIABLES
  wal,         \* batch ids in table event_store
  committed,   \* acks.last_committed, 0 before the first commit
  nextBatch,   \* what nextval('event_store_seq') returns next
  lastPruned   \* _last_pruned_batch of the open store

storeVars == <<wal, committed, nextBatch, lastPruned>>

StoreTypeOK ==
  /\ wal \subseteq Nat \ {0}
  /\ committed \in Nat
  /\ nextBatch \in Nat \ {0}
  /\ lastPruned \in Nat

StoreInit ==
  /\ wal = {}
  /\ committed = 0
  /\ nextBatch = 1
  /\ lastPruned = 0

-----------------------------------------------------------------------------

\* Every batch id the sequence has handed out.
Issued == 1 .. nextBatch - 1

\* A mutant of NextFrom: `batch_id > from`.
NextFromAfter(from, limit) ==
  LET pending == {b \in wal : b > from}
  IN  {b \in pending : Cardinality({older \in pending : older < b}) < limit}

\* next_from(from, limit): the ids of the limit oldest stored batches from `from` on.
NextFrom(from, limit) ==
  LET pending == {b \in wal : b >= from}
  IN  {b \in pending : Cardinality({older \in pending : older < b}) < limit}

StoreAppend ==
  /\ wal' = wal \union {nextBatch}
  /\ nextBatch' = nextBatch + 1
  /\ UNCHANGED <<committed, lastPruned>>

\* Mutants of PruneCutoff: no safety window; pruning from the head of the log.
CutoffWithoutSafety(b) == b
CutoffFromHead(b) == nextBatch - 1 - PruneSafety

\* The cutoff _maybe_prune_locked computes right after b was committed.
PruneCutoff(b) == b - PruneSafety

PruneIsDue(b) ==
  /\ PruneCutoff(b) > 0
  /\ PruneCutoff(b) > lastPruned

\* mark_committed(b), with the retention that follows it under the same lock.
\* The UPDATE of acks is unconditional: committed may move backwards.
MarkCommitted(b) ==
  /\ committed' = b
  /\ UNCHANGED nextBatch
  /\ \/ UNCHANGED <<wal, lastPruned>>
     \/ /\ PruneIsDue(b)
        /\ wal' = {x \in wal : x > PruneCutoff(b)}
        /\ lastPruned' = PruneCutoff(b)

\* mark_committed(b) when the DELETE raises: the prune is rolled back and the
\* exception reaches the caller, but the UPDATE of acks has been committed.
MarkCommittedPruneFails(b) ==
  /\ PruneIsDue(b)
  /\ \E x \in wal : x <= PruneCutoff(b)
  /\ committed' = b
  /\ UNCHANGED <<wal, nextBatch, lastPruned>>

\* A mutant of ReseedFrom: the off-by-one that hands the newest id out again.
ReseedAtNewest(ids) ==
  IF ids = {} THEN 1 ELSE CHOOSE m \in ids : \A x \in ids : x <= m

\* COALESCE(MAX(batch_id), 0) + 1
ReseedFrom(ids) ==
  IF ids = {} THEN 1 ELSE (CHOOSE m \in ids : \A x \in ids : x <= m) + 1

\* Opening the store after a stop or a crash: _ensure_schema drops the
\* sequence and creates it again above the newest batch still stored.
StoreOpen ==
  /\ nextBatch' = ReseedFrom(wal)
  /\ lastPruned' = 0
  /\ UNCHANGED <<wal, committed>>

-----------------------------------------------------------------------------

(***************************************************************************)
(* What the rest of the pipeline may do to the store: append, commit a     *)
(* batch that was issued, fail while pruning, reopen.  It is the contract  *)
(* IngestPipeline is checked against.                                      *)
(***************************************************************************)
StoreNext ==
  \/ StoreAppend
  \/ \E b \in Issued : MarkCommitted(b) \/ MarkCommittedPruneFails(b)
  \/ StoreOpen

StoreSpec == StoreInit /\ [][StoreNext]_storeVars

\* Pruning up to `committed - PruneSafety` never empties the log of its newest
\* batch, which is what reseeding the sequence from MAX(batch_id) relies on.
NewestKept == nextBatch > 1 => nextBatch - 1 \in wal

\* No id above the sequence is stored or committed, so that the INSERT of the
\* next append cannot hit the primary key and its batch lies after `committed`.
NextIsFresh ==
  /\ \A b \in wal : b < nextBatch
  /\ committed < nextBatch

\* The sequence never runs backwards, a reopen included: an id is never issued
\* twice, however pruning, commits and restarts interleave.
SequenceMonotonic == [][nextBatch' >= nextBatch]_storeVars

=============================================================================
