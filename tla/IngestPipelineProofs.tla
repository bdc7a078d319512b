------------------------ MODULE IngestPipelineProofs ------------------------
(***************************************************************************)
(* What holds of the pipeline for any bounds and any faults.  With any     *)
(* number of producers: every variable has its type, no component ever     *)
(* names a batch id that was not issued, the pipeline uses the store as    *)
(* StoreSpec allows, and hence a fresh batch is fresh for everyone.  With  *)
(* one producer: nothing is lost, copies are paid for by faults, and the   *)
(* pipeline implements OrderedBus.                                         *)
(***************************************************************************)
EXTENDS IngestPipeline, FiniteOrders

-----------------------------------------------------------------------------
(* The store's own promises, for every PruneSafety >= 1: reseeding the       *)
(* sequence from the largest stored id never hands an id out again.  The     *)
(* argument is NewestKept: retention cuts below the committed batch by at    *)
(* least one, and no batch above the newest is ever committed.               *)

\* The inductive invariant of the store.
StoreInv == StoreTypeOK /\ NewestKept /\ NextIsFresh

\* What rebuilding the sequence yields: the same next id, when the log still
\* holds its newest batch and nothing newer.
LEMMA ReseedKeepsSequence ==
  ASSUME StoreTypeOK, NewestKept, NextIsFresh
  PROVE  ReseedFrom(wal) = nextBatch
<1>1. CASE wal = {}
  <2>1. nextBatch = 1
    BY <1>1 DEF StoreTypeOK, NewestKept
  <2>2. QED
    BY <1>1, <2>1 DEF ReseedFrom
<1>2. CASE wal # {}
  <2> DEFINE newest == CHOOSE m \in wal : \A x \in wal : x <= m
  <2>1. nextBatch - 1 \in wal
    <3>1. PICK x \in wal : TRUE
      BY <1>2
    <3>2. nextBatch > 1
      BY <3>1 DEF StoreTypeOK, NextIsFresh
    <3>3. QED
      BY <3>2 DEF NewestKept
  <2>2. \A x \in wal : x <= nextBatch - 1
    BY DEF StoreTypeOK, NextIsFresh
  <2>3. newest \in wal /\ \A x \in wal : x <= newest
    BY <2>1, <2>2
  <2>4. newest = nextBatch - 1
    <3>1. newest \in Nat /\ nextBatch \in Nat
      BY <2>3 DEF StoreTypeOK
    <3>2. newest <= nextBatch - 1 /\ nextBatch - 1 <= newest
      BY <2>1, <2>2, <2>3
    <3>3. QED
      BY <3>1, <3>2
  <2>5. ReseedFrom(wal) = newest + 1
    BY <1>2 DEF ReseedFrom
  <2>6. QED
    <3> HIDE DEF newest
    <3>1. QED
      BY <2>4, <2>5 DEF StoreTypeOK
<1>3. QED
  BY <1>1, <1>2

LEMMA StoreInitInv == StoreInit => StoreInv
BY DEF StoreInit, StoreInv, StoreTypeOK, NewestKept, NextIsFresh

\* A commit keeps the invariant: what it prunes lies below the newest batch.
LEMMA CommitKeepsInv ==
  ASSUME StoreInv, NEW b \in Issued, MarkCommitted(b)
  PROVE  StoreInv'
<1>1. b \in Nat /\ b <= nextBatch - 1
  BY DEF StoreInv, StoreTypeOK, Issued
<1>2. CASE UNCHANGED <<wal, lastPruned>>
  BY <1>1, <1>2 DEF StoreInv, StoreTypeOK, NewestKept, NextIsFresh, MarkCommitted
<1>3. CASE /\ PruneIsDue(b)
           /\ wal' = {x \in wal : x > PruneCutoff(b)}
           /\ lastPruned' = PruneCutoff(b)
  <2>1. PruneCutoff(b) \in Nat /\ PruneCutoff(b) < nextBatch - 1
    BY <1>1, <1>3, PruneSafetyAssumption DEF PruneIsDue, PruneCutoff, StoreInv, StoreTypeOK
  <2>2. StoreTypeOK'
    BY <1>1, <1>3, <2>1 DEF StoreInv, StoreTypeOK, MarkCommitted
  <2>3. NewestKept'
    BY <1>3, <2>1 DEF StoreInv, StoreTypeOK, NewestKept, MarkCommitted
  <2>4. NextIsFresh'
    BY <1>1, <1>3 DEF StoreInv, StoreTypeOK, NextIsFresh, MarkCommitted
  <2>5. QED
    BY <2>2, <2>3, <2>4 DEF StoreInv
<1>4. QED
  BY <1>2, <1>3 DEF MarkCommitted

LEMMA StoreStepInv == StoreInv /\ [StoreNext]_storeVars => StoreInv'
<1> SUFFICES ASSUME StoreInv, [StoreNext]_storeVars PROVE StoreInv'
  OBVIOUS
<1>1. CASE StoreAppend
  BY <1>1 DEF StoreInv, StoreTypeOK, NewestKept, NextIsFresh, StoreAppend
<1>2. ASSUME NEW b \in Issued, MarkCommitted(b) PROVE StoreInv'
  BY <1>2, CommitKeepsInv
<1>3. ASSUME NEW b \in Issued, MarkCommittedPruneFails(b) PROVE StoreInv'
  BY <1>3 DEF StoreInv, StoreTypeOK, NewestKept, NextIsFresh, Issued, MarkCommittedPruneFails
<1>4. CASE StoreOpen
  <2>1. nextBatch' = nextBatch
    BY <1>4, ReseedKeepsSequence DEF StoreOpen, StoreInv
  <2>2. QED
    BY <1>4, <2>1 DEF StoreInv, StoreTypeOK, NewestKept, NextIsFresh, StoreOpen
<1>5. CASE UNCHANGED storeVars
  BY <1>5 DEF StoreInv, StoreTypeOK, NewestKept, NextIsFresh, storeVars
<1>6. QED
  BY <1>1, <1>2, <1>3, <1>4, <1>5 DEF StoreNext

\* Whatever the clients commit and whenever the store is reopened, its newest
\* batch stays in the log and no stored or committed id reaches the sequence
\* (_ensure_schema, _maybe_prune_locked).
THEOREM StoreInvariant == StoreSpec => [](NewestKept /\ NextIsFresh)
<1>1. StoreInv => NewestKept /\ NextIsFresh
  BY DEF StoreInv
<1>2. QED
  BY <1>1, StoreInitInv, StoreStepInv, PTL DEF StoreSpec

\* The sequence never runs backwards, so that no batch id is issued twice.
THEOREM StoreSequence == StoreSpec => SequenceMonotonic
<1>1. ASSUME StoreInv, [StoreNext]_storeVars
      PROVE  [nextBatch' >= nextBatch]_storeVars
  <2>1. CASE StoreAppend
    BY <1>1, <2>1 DEF StoreInv, StoreTypeOK, StoreAppend
  <2>2. CASE \E b \in Issued : MarkCommitted(b) \/ MarkCommittedPruneFails(b)
    BY <1>1, <2>2 DEF StoreInv, StoreTypeOK, MarkCommitted, MarkCommittedPruneFails
  <2>3. CASE StoreOpen
    BY <1>1, <2>3, ReseedKeepsSequence DEF StoreInv, StoreTypeOK, StoreOpen
  <2>4. QED
    BY <1>1, <2>1, <2>2, <2>3 DEF StoreNext
<1>2. QED
  BY <1>1, StoreInitInv, StoreStepInv, PTL DEF StoreSpec, SequenceMonotonic

-----------------------------------------------------------------------------
(* The pipeline *)

USE PipelineAssumption, PruneSafetyAssumption, BufMaxAssumption

\* The inductive invariant of the pipeline.
Inv == TypeOK /\ NewestKept /\ NextIsFresh /\ IdsIssued

LEMMA InvGivesStoreInv == Inv => StoreInv
BY DEF Inv, TypeOK, StoreInv

\* The pages of the store and the lists drained from the bus hold issued batches.
LEMMA PagesAreIssued ==
  ASSUME Inv, NEW from \in Int, NEW n \in Nat
  PROVE  /\ AsEntries(NextFrom(from, n)) \subseteq Entry
         /\ \A e \in AsEntries(NextFrom(from, n)) : e.id \in Issued
<1>1. NextFrom(from, n) \subseteq wal
  BY DEF NextFrom
<1>2. wal \subseteq Issued
  BY DEF Inv, TypeOK, StoreTypeOK, NextIsFresh, Issued
<1>3. ASSUME NEW e \in AsEntries(NextFrom(from, n))
      PROVE  e \in Entry /\ e.id \in Issued
  <2>1. PICK b \in Issued : e = [at |-> b, id |-> b]
    BY <1>1, <1>2 DEF AsEntries
  <2>2. b \in Nat
    BY DEF Issued, Inv, TypeOK, StoreTypeOK
  <2>3. QED
    BY <2>1, <2>2 DEF Entry
<1>4. QED
  BY <1>3

LEMMA DrainsAreIssued ==
  ASSUME Inv, NEW cursor \in Nat, NEW n \in Nat
  PROVE  /\ Drained(cursor, n) \subseteq Entry
         /\ \A e \in Drained(cursor, n) : e.id \in Issued
<1> DEFINE live == {e \in buf : e.id > cursor}
<1>1. CASE live # {}
  <2>1. Drained(cursor, n) \subseteq buf
    BY <1>1 DEF Drained, FirstN
  <2>2. QED
    BY <2>1 DEF Inv, TypeOK, BusTypeOK, IdsIssued
<1>2. CASE live = {}
  <2>1. Drained(cursor, n) = AsEntries(NextFrom(cursor + 1, n))
    BY <1>2 DEF Drained
  <2>2. cursor + 1 \in Int
    OBVIOUS
  <2>3. QED
    BY <2>1, <2>2, PagesAreIssued
<1>3. QED
  BY <1>1, <1>2

\* The oldest envelope of a list is in it.
LEMMA HeadIsIssued ==
  ASSUME Inv, NEW e \in jrEnvs \union dhEnvs
  PROVE  e \in Entry /\ e.id \in Issued /\ e.id \in Nat
BY DEF Inv, TypeOK, IdsIssued, Entry

LEMMA InitInv == Init => Inv
<1> SUFFICES ASSUME Init PROVE Inv
  OBVIOUS
<1> USE DEF Init, StoreInit, BusInit
<1>1. TypeOK
  BY DEF TypeOK, StoreTypeOK, BusTypeOK, Entry
<1>2. NewestKept /\ NextIsFresh
  BY DEF NewestKept, NextIsFresh
<1>3. IdsIssued
  BY DEF IdsIssued, Journaled, Batches
<1>4. QED
  BY <1>1, <1>2, <1>3 DEF Inv

-----------------------------------------------------------------------------
(* The steps, one lemma per thread *)

LEMMA PublishInv ==
  ASSUME Inv, NEW p \in Producers, PublishAppend(p) \/ PublishEnqueue(p)
  PROVE  Inv'
<1> USE DEF busVars, jrVars, dhVars, sinkVars, historyVars, storeVars
<1>1. CASE PublishAppend(p)
  <2> USE <1>1 DEF PublishAppend, StoreAppend, Inv
  <2>1. TypeOK'
    BY DEF TypeOK, StoreTypeOK, BusTypeOK
  <2>2. NewestKept' /\ NextIsFresh'
    BY DEF NewestKept, NextIsFresh, TypeOK, StoreTypeOK
  <2>3. IdsIssued'
    <3>1. Issued \subseteq Issued'
      BY DEF Issued, TypeOK, StoreTypeOK
    <3>2. \A q \in Producers : publishing'[q] < nextBatch'
      BY DEF IdsIssued, TypeOK, StoreTypeOK
    <3>3. \A b \in Journaled' : b < nextBatch'
      BY DEF IdsIssued, Journaled, Batches, TypeOK, StoreTypeOK
    <3>4. \A i \in DOMAIN dhLog' : dhLog'[i] < nextBatch'
      BY DEF IdsIssued, TypeOK, StoreTypeOK
    <3>5. QED
      BY <3>1, <3>2, <3>3, <3>4 DEF IdsIssued, TypeOK, StoreTypeOK, BusTypeOK
  <2>4. QED
    BY <2>1, <2>2, <2>3
<1>2. CASE PublishEnqueue(p)
  <2> USE <1>2 DEF PublishEnqueue, Enqueue, Inv
  <2>1. publishing[p] \in Issued /\ publishing[p] \in Nat
    BY DEF TypeOK, StoreTypeOK, IdsIssued, Issued
  <2>2. /\ buf' \subseteq buf \union {[at |-> arrivals + 1, id |-> publishing[p]]}
        /\ arrivals' \in Nat
    BY DEF TypeOK, BusTypeOK
  <2>3. TypeOK'
    BY <2>1, <2>2 DEF TypeOK, StoreTypeOK, BusTypeOK, Entry
  <2>4. NewestKept' /\ NextIsFresh'
    BY DEF NewestKept, NextIsFresh
  <2>5. IdsIssued'
    <3>1. \A q \in Producers : publishing'[q] < nextBatch'
      BY DEF IdsIssued, TypeOK, StoreTypeOK
    <3>2. \A e \in (buf \union jrEnvs \union dhEnvs)' : e.id \in Issued'
      BY <2>1, <2>2 DEF IdsIssued, Issued
    <3>3. \A b \in Journaled' : b < nextBatch'
      BY DEF IdsIssued, Journaled
    <3>4. QED
      BY <3>1, <3>2, <3>3 DEF IdsIssued
  <2>6. QED
    BY <2>3, <2>4, <2>5
<1>3. QED
  BY <1>1, <1>2

\* Steps that leave the store alone keep what is said of the store.
LEMMA StoreUntouched ==
  ASSUME NewestKept, NextIsFresh, UNCHANGED storeVars
  PROVE  NewestKept' /\ NextIsFresh'
BY DEF NewestKept, NextIsFresh, storeVars

\* The steps of the journal consumer.
LEMMA JrInv ==
  ASSUME Inv, Jr \/ JrRestart
  PROVE  Inv'
<1> USE DEF busVars, dhVars, sinkVars, historyVars
<1>1. CASE JrFetch
  <2> USE <1>1 DEF JrFetch, Inv, jrVars
  <2>1. jrNext \in Int /\ PageMax \in Nat
    BY DEF TypeOK
  <2>2. jrEnvs' \subseteq Entry /\ \A e \in jrEnvs' : e.id \in Issued
    BY <2>1, PagesAreIssued
  <2>3. TypeOK'
    BY <2>2 DEF TypeOK, StoreTypeOK, BusTypeOK, storeVars
  <2>4. IdsIssued'
    BY <2>2 DEF IdsIssued, Issued, Journaled, TypeOK, StoreTypeOK, storeVars
  <2>5. QED
    BY <2>3, <2>4, StoreUntouched
<1>2. CASE JrDrain
  <2> USE <1>2 DEF JrDrain, Inv
  <2>1. jrCursor \in Nat /\ DrainMax \in Nat
    BY DEF TypeOK, BusTypeOK
  <2>2. jrEnvs' \subseteq Entry /\ \A e \in jrEnvs' : e.id \in Issued
    BY <2>1, DrainsAreIssued
  <2>3. TypeOK'
    BY <2>2 DEF TypeOK, StoreTypeOK, BusTypeOK, storeVars
  <2>4. IdsIssued'
    BY <2>2 DEF IdsIssued, Issued, Journaled, storeVars
  <2>5. QED
    BY <2>3, <2>4, StoreUntouched
<1>3. CASE JrAppend
  <2> USE <1>3 DEF JrAppend, Inv
  <2>1. PICK e \in jrEnvs : journal' = [journal EXCEPT ![e.id] = @ + 1]
    OBVIOUS
  <2>2. e.id \in Issued
    BY DEF IdsIssued
  <2>3. TypeOK'
    <3>1. journal \in [Batches -> Nat]
      BY DEF TypeOK
    <3>2. \A b \in Batches : journal'[b] \in Nat
      BY <2>1, <3>1, SMTT(30)
    <3>3. journal' \in [Batches -> Nat]
      BY <2>1, <3>1, <3>2
    <3>4. QED
      BY <3>3 DEF TypeOK, StoreTypeOK, BusTypeOK, storeVars
  <2>4. \A b \in Journaled' : b < nextBatch'
    BY <2>1, <2>2 DEF IdsIssued, Issued, Journaled, TypeOK, StoreTypeOK, storeVars
  <2>5. IdsIssued'
    BY <2>4 DEF IdsIssued, Issued, storeVars
  <2>6. QED
    BY <2>3, <2>5, StoreUntouched
<1>4. CASE JrAppendFails
  <2> USE <1>4 DEF JrAppendFails, Inv
  <2>1. PICK e \in jrEnvs : /\ JrContinue(jrEnvs \ {e})
                            /\ jrFailed' = jrFailed \union {e.id}
    OBVIOUS
  <2>2. e.id \in Nat
    BY DEF TypeOK, Entry
  <2>3. TypeOK'
    <3>1. faults' \in 0 .. MaxFaults
      BY DEF Raise, TypeOK
    <3>2. jrFailed' \subseteq Nat
      BY <2>1, <2>2 DEF TypeOK
    <3>3. jrEnvs' \subseteq Entry /\ jrPc' \in {"append", "ack"}
      BY <2>1 DEF JrContinue, TypeOK
    <3>4. QED
      BY <3>1, <3>2, <3>3 DEF TypeOK, StoreTypeOK, BusTypeOK, storeVars
  <2>4. IdsIssued'
    BY <2>1 DEF IdsIssued, Issued, Journaled, JrContinue, storeVars
  <2>5. QED
    BY <2>3, <2>4, StoreUntouched
<1>5. CASE JrMark
  <2> USE <1>5 DEF JrMark, Inv
  <2>1. PICK e \in jrEnvs : /\ MarkCommitted(e.id)
                            /\ jrNext' = e.id + 1
                            /\ jrLast' = e.id
                            /\ JrContinue(jrEnvs \ {e})
    OBVIOUS
  <2>2. e.id \in Issued /\ e.id \in Nat
    BY DEF IdsIssued, TypeOK, Entry
  <2>3. StoreInv'
    BY <2>1, <2>2, CommitKeepsInv, InvGivesStoreInv
  <2>4. nextBatch' = nextBatch
    BY <2>1 DEF MarkCommitted
  <2>5. TypeOK'
    <3>1. jrEnvs' \subseteq Entry /\ jrPc' \in {"append", "ack"}
      BY <2>1 DEF JrContinue, TypeOK
    <3>2. StoreTypeOK'
      BY <2>3 DEF StoreInv
    <3>3. jrNext' \in Nat /\ jrLast' \in Nat
      BY <2>1, <2>2
    <3>4. QED
      BY <3>1, <3>2, <3>3 DEF TypeOK, BusTypeOK
  <2>6. IdsIssued'
    BY <2>1, <2>2, <2>4 DEF IdsIssued, Issued, Journaled, JrContinue, TypeOK, StoreTypeOK
  <2>7. QED
    BY <2>3, <2>5, <2>6 DEF StoreInv
<1>6. CASE JrMarkFails
  <2> USE <1>6 DEF JrMarkFails, Inv
  <2>1. /\ faults' \in 0 .. MaxFaults
        /\ JrContinue({})
    BY DEF Raise, TypeOK
  <2>2. /\ wal' = wal /\ nextBatch' = nextBatch /\ lastPruned' = lastPruned
        /\ committed' \in Nat /\ committed' < nextBatch
    <3>1. CASE UNCHANGED storeVars
      BY <3>1 DEF storeVars, TypeOK, StoreTypeOK, NextIsFresh
    <3>2. CASE \E e \in jrEnvs : MarkCommittedPruneFails(e.id)
      BY <3>2 DEF MarkCommittedPruneFails, IdsIssued, Issued, TypeOK, StoreTypeOK, Entry
    <3>3. QED
      BY <3>1, <3>2
  <2>3. TypeOK'
    BY <2>1, <2>2 DEF TypeOK, StoreTypeOK, BusTypeOK, JrContinue
  <2>4. NewestKept' /\ NextIsFresh'
    BY <2>2 DEF NewestKept, NextIsFresh
  <2>5. IdsIssued'
    BY <2>1, <2>2 DEF IdsIssued, Issued, Journaled, JrContinue
  <2>6. QED
    BY <2>3, <2>4, <2>5
<1>7. CASE JrAck
  <2> USE <1>7 DEF JrAck, Inv
  <2>1. /\ jrCursor' \in Nat /\ jrCursor' < nextBatch
        /\ buf' = buf /\ arrivals' = arrivals /\ dhCursor' = dhCursor
    BY DEF AckJournal, Advanced, TypeOK, BusTypeOK, IdsIssued
  <2>2. TypeOK'
    BY <2>1 DEF TypeOK, StoreTypeOK, BusTypeOK, storeVars
  <2>3. IdsIssued'
    BY <2>1 DEF IdsIssued, Issued, Journaled, storeVars
  <2>4. QED
    BY <2>2, <2>3, StoreUntouched
<1>8. CASE JrRestart
  <2> USE <1>8 DEF JrRestart, Inv
  <2>1. jrNext' \in Nat /\ faults' \in 0 .. MaxFaults
    BY DEF JrStart, Raise, TypeOK, StoreTypeOK
  <2>2. TypeOK'
    BY <2>1 DEF TypeOK, StoreTypeOK, BusTypeOK, storeVars
  <2>3. IdsIssued'
    BY DEF IdsIssued, Issued, Journaled, storeVars
  <2>4. QED
    BY <2>2, <2>3, StoreUntouched
<1>9. QED
  BY <1>1, <1>2, <1>3, <1>4, <1>5, <1>6, <1>7, <1>8 DEF Jr

\* The steps of the DH consumer.
LEMMA DhInv ==
  ASSUME Inv, Dh \/ DhRestart
  PROVE  Inv'
<1> USE DEF busVars, jrVars, sinkVars, historyVars
<1>1. CASE DhDrain
  <2> USE <1>1 DEF DhDrain, Inv
  <2>1. dhCursor \in Nat /\ DrainMax \in Nat
    BY DEF TypeOK, BusTypeOK
  <2>2. dhEnvs' \subseteq Entry /\ \A e \in dhEnvs' : e.id \in Issued
    BY <2>1, DrainsAreIssued
  <2>3. TypeOK'
    BY <2>2 DEF TypeOK, StoreTypeOK, BusTypeOK, storeVars
  <2>4. IdsIssued'
    BY <2>2 DEF IdsIssued, Issued, Journaled, storeVars
  <2>5. QED
    BY <2>3, <2>4, StoreUntouched
<1>2. CASE DhWrite
  <2> USE <1>2 DEF DhWrite, Inv
  <2>1. PICK e \in dhEnvs : /\ dhLog' = Append(dhLog, e.id)
                            /\ dhLast' = e.id
                            /\ DhContinue(dhEnvs \ {e})
    OBVIOUS
  <2>2. e.id \in Issued /\ e.id \in Nat /\ e.id < nextBatch
    BY DEF IdsIssued, Issued, TypeOK, StoreTypeOK, Entry
  <2>3. dhLog \in Seq(Nat)
    BY DEF TypeOK
  <2>4. dhLog' \in Seq(Nat)
    BY <2>1, <2>2, <2>3
  <2>5. dhEnvs' \subseteq dhEnvs /\ dhPc' \in {"write", "ack"}
    BY <2>1 DEF DhContinue
  <2>6. TypeOK'
    BY <2>1, <2>2, <2>4, <2>5 DEF TypeOK, StoreTypeOK, BusTypeOK, storeVars
  <2>7. \A i \in DOMAIN dhLog' : dhLog'[i] < nextBatch'
    BY <2>1, <2>2, <2>3 DEF IdsIssued, storeVars
  <2>8. IdsIssued'
    BY <2>1, <2>2, <2>5, <2>7 DEF IdsIssued, Issued, Journaled, storeVars
  <2>9. QED
    BY <2>6, <2>8, StoreUntouched
<1>3. CASE DhWriteFails
  <2> USE <1>3 DEF DhWriteFails, Inv
  <2>1. PICK e \in dhEnvs : /\ DhContinue(dhEnvs \ {e})
                            /\ dhFailed' = dhFailed \union {e.id}
    OBVIOUS
  <2>2. dhEnvs' \subseteq dhEnvs /\ dhPc' \in {"write", "ack"}
    BY <2>1 DEF DhContinue
  <2>3. dhFailed' \subseteq Nat
    BY <2>1 DEF TypeOK, Entry
  <2>4. faults' \in 0 .. MaxFaults
    BY DEF Raise, TypeOK
  <2>5. TypeOK'
    BY <2>2, <2>3, <2>4 DEF TypeOK, StoreTypeOK, BusTypeOK, storeVars
  <2>6. IdsIssued'
    BY <2>2 DEF IdsIssued, Issued, Journaled, storeVars
  <2>7. QED
    BY <2>5, <2>6, StoreUntouched
<1>4. CASE DhAck
  <2> USE <1>4 DEF DhAck, Inv
  <2>1. /\ dhCursor' \in Nat /\ dhCursor' < nextBatch
        /\ buf' = buf /\ arrivals' = arrivals /\ jrCursor' = jrCursor
    BY DEF AckDh, Advanced, TypeOK, BusTypeOK, IdsIssued
  <2>2. TypeOK'
    BY <2>1 DEF TypeOK, StoreTypeOK, BusTypeOK, storeVars
  <2>3. IdsIssued'
    BY <2>1 DEF IdsIssued, Issued, Journaled, storeVars
  <2>4. QED
    BY <2>2, <2>3, StoreUntouched
<1>5. CASE DhRestart
  <2> USE <1>5 DEF DhRestart, Inv
  <2>1. TypeOK'
    BY DEF TypeOK, StoreTypeOK, BusTypeOK, storeVars
  <2>2. IdsIssued'
    BY DEF IdsIssued, Issued, Journaled, TypeOK, StoreTypeOK, storeVars
  <2>3. QED
    BY <2>1, <2>2, StoreUntouched
<1>6. QED
  BY <1>1, <1>2, <1>3, <1>4, <1>5 DEF Dh

\* Crash and startup.
LEMMA ProcessInv ==
  ASSUME Inv, Crash \/ (\E replay \in ReplayModes : Start(replay)) \/ Hydrate
  PROVE  Inv'
<1>1. CASE Crash
  <2> USE <1>1 DEF Crash, Inv
  <2>1. TypeOK'
    <3>1. crashes' \in 0 .. MaxCrashes
      BY DEF TypeOK
    <3>2. dhBase' \in Nat
      BY DEF TypeOK, StoreTypeOK
    <3>3. QED
      BY <3>1, <3>2 DEF TypeOK, StoreTypeOK, BusTypeOK, storeVars
  <2>2. IdsIssued'
    BY DEF IdsIssued, Issued, Journaled, TypeOK, StoreTypeOK, storeVars
  <2>3. QED
    BY <2>1, <2>2, StoreUntouched
<1>2. ASSUME NEW replay \in ReplayModes, Start(replay) PROVE Inv'
  <2> USE <1>2 DEF Start, Inv
  <2>1. nextBatch' = nextBatch /\ wal' = wal /\ committed' = committed /\ lastPruned' = 0
    BY ReseedKeepsSequence DEF StoreOpen, TypeOK
  <2>2. /\ dhMark' \in Nat /\ dhMark' < nextBatch
        /\ phase' \in {"running", "hydrating"}
    BY DEF TypeOK, StoreTypeOK, IdsIssued, NextIsFresh
  <2>3. TypeOK'
    BY <2>1, <2>2 DEF TypeOK, StoreTypeOK, BusTypeOK, JrStart, dhVars, historyVars
  <2>4. NewestKept' /\ NextIsFresh'
    BY <2>1 DEF NewestKept, NextIsFresh
  <2>5. IdsIssued'
    BY <2>1, <2>2 DEF IdsIssued, Issued, Journaled, NextIsFresh, dhVars, historyVars
  <2>6. QED
    BY <2>3, <2>4, <2>5
<1>3. CASE Hydrate
  <2> USE <1>3 DEF Hydrate, vars, storeVars, busVars, jrVars, dhVars, sinkVars, historyVars
  <2>1. TypeOK'
    BY DEF Inv, TypeOK, StoreTypeOK, BusTypeOK
  <2>2. NewestKept' /\ NextIsFresh' /\ IdsIssued'
    BY DEF Inv, NewestKept, NextIsFresh, IdsIssued, Issued, Journaled
  <2>3. QED
    BY <2>1, <2>2 DEF Inv
<1>4. QED
  BY <1>1, <1>2, <1>3

LEMMA InvStep == Inv /\ [Next]_vars => Inv'
<1> SUFFICES ASSUME Inv, [Next]_vars PROVE Inv'
  OBVIOUS
<1>1. CASE \E p \in Producers : PublishAppend(p) \/ PublishEnqueue(p)
  BY <1>1, PublishInv
<1>2. CASE Jr \/ JrRestart
  BY <1>2, JrInv
<1>3. CASE Dh \/ DhRestart
  BY <1>3, DhInv
<1>4. CASE Crash \/ (\E replay \in ReplayModes : Start(replay)) \/ Hydrate
  BY <1>4, ProcessInv
<1>5. CASE UNCHANGED vars
  <2> USE <1>5 DEF vars, storeVars, busVars, jrVars, dhVars, sinkVars, historyVars
  <2>1. TypeOK'
    BY DEF Inv, TypeOK, StoreTypeOK, BusTypeOK
  <2>2. NewestKept' /\ NextIsFresh' /\ IdsIssued'
    BY DEF Inv, NewestKept, NextIsFresh, IdsIssued, Issued, Journaled
  <2>3. QED
    BY <2>1, <2>2 DEF Inv
<1>6. QED
  BY <1>1, <1>2, <1>3, <1>4, <1>5 DEF Next

-----------------------------------------------------------------------------
(* The theorems *)

\* Every variable of the pipeline keeps its type, whatever raises or crashes.
THEOREM TypeCorrect == Spec => []TypeOK
<1>1. Inv => TypeOK
  BY DEF Inv
<1>2. QED
  BY <1>1, InitInv, InvStep, PTL DEF Spec

\* Consumers, crashes and restarts included, the store keeps its newest batch and
\* no thread, cursor, watermark or sink names an id the sequence has yet to
\* issue, for any number of producers and any faults.
THEOREM PipelineIds == Spec => [](NewestKept /\ NextIsFresh /\ IdsIssued)
<1>1. Inv => NewestKept /\ NextIsFresh /\ IdsIssued
  BY DEF Inv
<1>2. QED
  BY <1>1, InitInv, InvStep, PTL DEF Spec

\* The pipeline uses the store only in the ways StoreSpec allows: every batch it
\* commits was issued by the store (consumers.py passes on the id of an envelope
\* the store or the bus gave it).
LEMMA StoreStep == Inv /\ [Next]_vars => [StoreNext]_storeVars
<1> SUFFICES ASSUME Inv, [Next]_vars PROVE [StoreNext]_storeVars
  OBVIOUS
<1>1. CASE \E p \in Producers : PublishAppend(p) \/ PublishEnqueue(p)
  BY <1>1 DEF PublishAppend, PublishEnqueue, StoreNext
<1>2. CASE JrMark
  <2>1. PICK e \in jrEnvs : MarkCommitted(e.id)
    BY <1>2 DEF JrMark
  <2>2. e.id \in Issued
    BY DEF Inv, IdsIssued
  <2>3. QED
    BY <2>1, <2>2 DEF StoreNext
<1>3. CASE JrMarkFails
  <2>1. CASE \E e \in jrEnvs : MarkCommittedPruneFails(e.id)
    <3>1. PICK e \in jrEnvs : MarkCommittedPruneFails(e.id)
      BY <2>1
    <3>2. e.id \in Issued
      BY DEF Inv, IdsIssued
    <3>3. QED
      BY <3>1, <3>2 DEF StoreNext
  <2>2. QED
    BY <1>3, <2>1 DEF JrMarkFails
<1>4. CASE JrFetch \/ JrDrain \/ JrAppend \/ JrAppendFails \/ JrAck \/ JrRestart
  BY <1>4 DEF JrFetch, JrDrain, JrAppend, JrAppendFails, JrAck, JrRestart
<1>5. CASE Dh \/ DhRestart
  BY <1>5 DEF Dh, DhDrain, DhWrite, DhWriteFails, DhAck, DhRestart
<1>6. CASE Crash
  BY <1>6 DEF Crash
<1>7. CASE \E replay \in ReplayModes : Start(replay)
  BY <1>7 DEF Start, StoreNext
<1>8. CASE Hydrate \/ UNCHANGED vars
  BY <1>8 DEF Hydrate, vars
<1>9. QED
  BY <1>1, <1>2, <1>3, <1>4, <1>5, <1>6, <1>7, <1>8 DEF Next, Jr

\* The pipeline, crashes and restarts included, is a client the store's contract
\* covers, so that what is proved of StoreSpec holds inside it.
THEOREM UsesStoreAsSpecified == Spec => StoreSpec
<1>1. Init => StoreInit
  BY DEF Init
<1>2. QED
  BY <1>1, InitInv, InvStep, StoreStep, PTL DEF Spec, StoreSpec

\* The id publish() gets is new to every sink and cursor: a step that raises
\* publishing[p] is an append, and everything else names issued ids only.
THEOREM FreshBatches == Spec => FreshBatch
<1> DEFINE Fresh ==
      \A p \in Producers :
        publishing'[p] > publishing[p] =>
          /\ publishing'[p] \notin Journaled \union DhWritten
          /\ publishing'[p] > committed
          /\ publishing'[p] > dhCursor /\ publishing'[p] > jrCursor
<1>1. Inv /\ [Next]_vars => [Fresh]_vars
  <2> SUFFICES ASSUME Inv, Next PROVE Fresh
    OBVIOUS
  <2>1. CASE \E q \in Producers : PublishAppend(q)
    <3>1. PICK q \in Producers : publishing' = [publishing EXCEPT ![q] = nextBatch]
      BY <2>1 DEF PublishAppend
    <3>2. nextBatch \notin Journaled
      BY DEF Inv, IdsIssued, TypeOK, StoreTypeOK
    <3>3. nextBatch \notin DhWritten
      BY DEF Inv, IdsIssued, DhWritten, TypeOK, StoreTypeOK
    <3>4. nextBatch > committed /\ nextBatch > dhCursor /\ nextBatch > jrCursor
      BY DEF Inv, IdsIssued, NextIsFresh, TypeOK, StoreTypeOK, BusTypeOK
    <3>5. ASSUME NEW p \in Producers, publishing'[p] > publishing[p]
          PROVE  publishing'[p] = nextBatch
      BY <3>1, <3>5 DEF Inv, TypeOK
    <3>6. QED
      BY <3>2, <3>3, <3>4, <3>5
  <2>2. CASE \E q \in Producers : PublishEnqueue(q)
    BY <2>2 DEF PublishEnqueue, Inv, TypeOK
  <2>3. CASE Crash
    BY <2>3 DEF Crash, Inv, TypeOK
  <2>4. CASE publishing' = publishing
    BY <2>4 DEF Inv, TypeOK
  <2>5. QED
    <3>1. CASE Jr \/ JrRestart
      BY <3>1, <2>4 DEF Jr, JrFetch, JrDrain, JrAppend, JrAppendFails, JrMark, JrMarkFails,
         JrAck, JrRestart
    <3>2. CASE Dh \/ DhRestart
      BY <3>2, <2>4 DEF Dh, DhDrain, DhWrite, DhWriteFails, DhAck, DhRestart
    <3>3. CASE \E replay \in ReplayModes : Start(replay)
      BY <3>3, <2>4 DEF Start
    <3>4. CASE Hydrate
      BY <3>4, <2>4 DEF Hydrate, vars
    <3>5. QED
      BY <2>1, <2>2, <2>3, <3>1, <3>2, <3>3, <3>4 DEF Next
<1>2. QED
  BY <1>1, InitInv, InvStep, PTL DEF Spec, FreshBatch

-----------------------------------------------------------------------------
(* Delivery with one producer *)

\* publish() stores before it takes the bus lock: what follows needs the order of
\* the ring to be that of the ids, and a second producer breaks it (publish_race).
SingleProducer == \A p, q \in Producers : p = q

JrDone == Journaled \union jrFailed
DhDone == DhWritten \union dhFailed

\* A list in the order of the ids.
InOrder(envs) == \A x, y \in envs : x.at < y.at <=> x.id < y.id

\* Nothing of a list comes before something that is neither done nor in the list.
Complete(envs, from, done) ==
  \A e \in envs : \A b \in from .. e.id - 1 : b \in done \/ \E x \in envs : x.id = b

\* The ring holds, in order, what was published since the start and is neither on
\* its way to the ring nor passed by both cursors.
RingInv ==
  /\ IsFiniteSet(buf)
  /\ \A p \in Producers : publishing[p] # 0 => publishing[p] = nextBatch - 1
  /\ \A e \in buf : e.at <= arrivals
  /\ \A e \in buf : \A p \in Producers : publishing[p] # 0 => e.id < publishing[p]
  /\ InOrder(buf)
  /\ dhBase < nextBatch
  /\ \A b \in dhBase + 1 .. nextBatch - 1 :
       \/ \E e \in buf : e.id = b
       \/ \E p \in Producers : publishing[p] = b
       \/ b <= dhCursor /\ b <= jrCursor

\* A process that is down or hydrating has nothing in hand.
IdleInv ==
  phase # "running" =>
    /\ dhBase = nextBatch - 1
    /\ jrPc = "fetch" /\ jrEnvs = {} /\ jrLast = 0
    /\ dhPc = "drain" /\ dhEnvs = {} /\ dhLast = -1

\* What the journal consumer has passed on the bus, or is about to.
Passed == IF jrLast > jrCursor THEN jrLast ELSE jrCursor

LogInv ==
  /\ \A x \in wal : \A y \in Issued : x <= y => y \in wal
  /\ \A b \in Issued : b \notin wal => b <= committed
  /\ phase # "down" => \A b \in Issued : b \notin wal => b <= Passed

JrListInv ==
  /\ jrNext >= 1
  /\ InOrder(jrEnvs)
  /\ Complete(jrEnvs, 1, JrDone)
  /\ \A e \in jrEnvs : \A b \in Issued : b \notin wal => b < e.id
  /\ jrPc = "fetch" => jrLast <= jrCursor
  /\ jrPc = "drain" => jrLast = 0 /\ dhBase < jrNext
  /\ jrPc \in {"fetch", "drain", "ack"} => jrEnvs = {}
  /\ jrPc = "mark" => \A e \in jrEnvs : IsHead(e, jrEnvs) => e.id \in Journaled

JrCoverInv ==
  /\ \A b \in 1 .. committed : b \in JrDone
  /\ \A b \in 1 .. jrNext - 1 : b \in JrDone
  /\ \A b \in 1 .. Passed : b \in JrDone

\* What may still be appended although nothing raises and the process lives.
MayComeAgain(b) ==
  /\ b >= jrNext \/ b > Passed
  /\ jrPc = "mark" => \E e \in jrEnvs : IsHead(e, jrEnvs) /\ e.id # b

CopiesInv ==
  /\ \A e \in jrEnvs : e.id >= jrNext \/ e.id > Passed
  /\ jrNext <= committed + 1 \/ Passed <= committed
  /\ \A b \in Batches :
       journal[b] <= faults + crashes + (IF MayComeAgain(b) THEN 0 ELSE 1)

DhListInv ==
  /\ InOrder(dhEnvs)
  /\ Complete(dhEnvs, dhBase + 1, DhDone)
  /\ dhPc \in {"drain", "ack"} => dhEnvs = {}
  /\ \A b \in dhBase + 1 .. dhCursor : b \in DhDone
  /\ \A b \in dhBase + 1 .. dhLast : b \in DhDone

\* The inductive invariant of delivery.
DeliveryInv ==
  Inv /\ RingInv /\ IdleInv /\ LogInv /\ JrListInv /\ JrCoverInv /\ CopiesInv /\ DhListInv

-----------------------------------------------------------------------------
(* Pages and lists *)

\* A page of the store is what is first of the log from its start on, and it is
\* empty only when nothing is stored there.
LEMMA PageCuts ==
  ASSUME TypeOK, NextIsFresh, NEW from \in Int, NEW n \in Nat \ {0}
  PROVE  /\ \A b \in NextFrom(from, n) : b \in wal /\ b >= from
         /\ \A b \in NextFrom(from, n) : \A c \in wal :
              from <= c /\ c < b => c \in NextFrom(from, n)
         /\ NextFrom(from, n) = {} => \A c \in wal : c < from
<1> DEFINE pending == {b \in wal : b >= from}
           Older(b) == {older \in pending : older < b}
<1>1. wal \subseteq Nat /\ wal \in SUBSET (1 .. nextBatch - 1) /\ nextBatch \in Nat
  BY DEF TypeOK, StoreTypeOK, NextIsFresh
<1>2. IsFiniteSet(pending) /\ pending \subseteq Nat
  <2>1. IsFiniteSet(1 .. nextBatch - 1)
    BY <1>1, FS_Interval
  <2>2. pending \in SUBSET (1 .. nextBatch - 1)
    BY <1>1
  <2>3. QED
    BY <1>1, <2>1, <2>2, FS_Subset
<1>3. NextFrom(from, n) = {b \in pending : Cardinality(Older(b)) < n}
  BY DEF NextFrom
<1>4. ASSUME NEW b \in NextFrom(from, n), NEW c \in wal, from <= c, c < b
      PROVE  c \in NextFrom(from, n)
  <2>1. c \in pending /\ b \in pending
    BY <1>3, <1>4, <1>1
  <2>2. Older(c) \in SUBSET Older(b)
    BY <2>1, <1>2, <1>4
  <2>3. IsFiniteSet(Older(b))
    <3>1. Older(b) \in SUBSET pending
      OBVIOUS
    <3>2. QED
      BY <1>2, <3>1, FS_Subset
  <2>4. /\ Cardinality(Older(c)) <= Cardinality(Older(b))
        /\ Cardinality(Older(c)) \in Nat /\ Cardinality(Older(b)) \in Nat
    <3> HIDE DEF Older
    <3>1. QED
      BY <2>2, <2>3, FS_Subset, FS_CardinalityType
  <2>5. Cardinality(Older(b)) < n
    BY <1>3, <1>4
  <2>6. Cardinality(Older(c)) < n
    <3> HIDE DEF Older
    <3>1. QED
      BY <2>4, <2>5
  <2>7. QED
    BY <1>3, <2>1, <2>6
<1>5. ASSUME pending # {} PROVE NextFrom(from, n) # {}
  <2> DEFINE R == {p \in Nat \X Nat : p[1] < p[2]}
  <2>1. StrictOrder(R, pending)
    BY <1>2 DEF StrictOrder
  <2>2. PICK x \in pending : \A y \in pending : <<y, x>> \notin R
    <3> HIDE DEF R
    <3>1. QED
      BY <1>2, <1>5, <2>1, FirstAndLast
  <2>3. Older(x) = {}
    BY <1>2, <2>2
  <2>4. Cardinality(Older(x)) = 0
    BY <2>3, FS_EmptySet
  <2>5. QED
    BY <1>3, <2>4
<1>6. QED
  <2>1. \A b \in NextFrom(from, n) : b \in wal /\ b >= from
    BY DEF NextFrom
  <2>2. NextFrom(from, n) = {} => \A c \in wal : c < from
    BY <1>1, <1>5
  <2>3. QED
    BY <1>4, <2>1, <2>2

\* The oldest envelopes of a list leave none out that is older than one of them.
LEMMA FirstNCuts ==
  ASSUME NEW entries \in SUBSET Entry, IsFiniteSet(entries), NEW n \in Nat,
         NEW e \in FirstN(entries, n), NEW x \in entries, x.at < e.at
  PROVE  x \in FirstN(entries, n)
<1> DEFINE Older(y) == {z \in entries : z.at < y.at}
<1>1. e \in entries /\ Cardinality(Older(e)) < n
  BY DEF FirstN
<1>2. Older(x) \in SUBSET Older(e)
  BY <1>1 DEF Entry
<1>3. IsFiniteSet(Older(e))
  <2>1. Older(e) \in SUBSET entries
    OBVIOUS
  <2>2. QED
    BY <2>1, FS_Subset
<1>4. Cardinality(Older(x)) < n
  <2> HIDE DEF Older
  <2>1. /\ Cardinality(Older(x)) <= Cardinality(Older(e))
        /\ Cardinality(Older(x)) \in Nat /\ Cardinality(Older(e)) \in Nat
    BY <1>2, <1>3, FS_Subset, FS_CardinalityType
  <2>2. QED
    BY <1>1, <2>1
<1>5. QED
  BY <1>4 DEF FirstN

\* A stored page as a list: in order, with the ids of the page.
LEMMA EntriesOf ==
  ASSUME NEW ids \in SUBSET Nat
  PROVE  /\ AsEntries(ids) \in SUBSET Entry
         /\ InOrder(AsEntries(ids))
         /\ \A e \in AsEntries(ids) : e.id \in ids
         /\ \A b \in ids : \E e \in AsEntries(ids) : e.id = b
         /\ AsEntries(ids) = {} => ids = {}
<1>1. ASSUME NEW e \in AsEntries(ids)
      PROVE  e.id \in ids /\ e.at = e.id /\ e \in Entry
  BY <1>1 DEF AsEntries, Entry
<1>2. ASSUME NEW b \in ids
      PROVE  \E e \in AsEntries(ids) : e.id = b
  <2>1. [at |-> b, id |-> b] \in AsEntries(ids)
    BY <1>2 DEF AsEntries
  <2>2. QED
    BY <2>1
<1>3. InOrder(AsEntries(ids))
  BY <1>1 DEF InOrder
<1>4. QED
  BY <1>1, <1>2, <1>3

\* What one pass of _drain yields: envelopes past the cursor, in order; what is past
\* the cursor and missing before one of them is not in the ring.
LEMMA DrainCuts ==
  ASSUME Inv, RingInv, NEW cursor \in Nat, NEW n \in Nat \ {0}
  PROVE  LET list == Drained(cursor, n) IN
         /\ list \in SUBSET Entry
         /\ InOrder(list)
         /\ \A e \in list : e.id > cursor
         /\ \A e \in list : (\E x \in buf : x.id = e.id) \/ e.id \in wal
         /\ \A e \in list : \A b \in cursor + 1 .. e.id - 1 :
              \/ \E x \in list : x.id = b
              \/ ~ \E x \in buf : x.id = b
<1> DEFINE live == {e \in buf : e.id > cursor}
           list == Drained(cursor, n)
<1>1. buf \subseteq Entry /\ live \in SUBSET buf /\ live \in SUBSET Entry /\ IsFiniteSet(live)
  BY FS_Subset DEF Inv, TypeOK, BusTypeOK, RingInv
<1>2. CASE live # {}
  <2>1. list = FirstN(live, n)
    BY <1>2 DEF Drained
  <2>2. list \in SUBSET live
    BY <2>1 DEF FirstN
  <2>3. InOrder(list)
    BY <2>2 DEF RingInv, InOrder
  <2>4. ASSUME NEW e \in list, NEW b \in cursor + 1 .. e.id - 1
        PROVE  \/ \E x \in list : x.id = b
               \/ ~ \E x \in buf : x.id = b
    <3>1. SUFFICES ASSUME NEW x \in buf, x.id = b PROVE x \in list
      OBVIOUS
    <3>2. x \in live /\ x.id < e.id /\ e \in buf
      BY <1>1, <2>2, <2>4, <3>1 DEF Entry
    <3>3. x.at < e.at
      BY <3>2 DEF RingInv, InOrder
    <3>4. QED
      BY <1>1, <2>1, <2>4, <3>2, <3>3, FirstNCuts
  <2>5. QED
    BY <1>1, <2>2, <2>3, <2>4
<1>3. CASE live = {}
  <2> DEFINE page == NextFrom(cursor + 1, n)
  <2>1. list = AsEntries(page)
    BY <1>3 DEF Drained
  <2>2. /\ \A b \in page : b \in wal /\ b >= cursor + 1
        /\ \A b \in page : \A c \in wal : cursor + 1 <= c /\ c < b => c \in page
    <3>1. cursor + 1 \in Int
      OBVIOUS
    <3>2. QED
      BY <3>1, PageCuts DEF Inv
  <2>3. page \in SUBSET Nat
    BY <2>2 DEF Inv, TypeOK, StoreTypeOK
  <2>4. /\ list \in SUBSET Entry /\ InOrder(list)
        /\ \A e \in list : e.id \in page
        /\ \A b \in page : \E e \in list : e.id = b
    <3> HIDE DEF page, list
    <3>1. QED
      BY <2>1, <2>3, EntriesOf
  <2>5. ASSUME NEW e \in list, NEW b \in cursor + 1 .. e.id - 1
        PROVE  \/ \E x \in list : x.id = b
               \/ ~ \E x \in buf : x.id = b
    <3>1. e.id \in Nat
      BY <2>3, <2>4, <2>5
    <3>2. QED
      BY <1>3, <1>1, <2>5, <3>1 DEF Entry
  <2>6. \A e \in list : e.id > cursor /\ e.id \in wal
    BY <2>2, <2>3, <2>4
  <2>7. QED
    BY <2>4, <2>5, <2>6
<1>4. QED
  BY <1>2, <1>3

\* The head of a list in order: everything before it is done, it is the only head,
\* and the rest of the list is complete once the head is done too.
LEMMA HeadFirst ==
  ASSUME NEW envs \in SUBSET Entry, InOrder(envs), NEW from,
         NEW done, Complete(envs, from, done), NEW e, IsHead(e, envs),
         NEW more, done \subseteq more, e.id \in more
  PROVE  /\ \A b \in from .. e.id - 1 : b \in done
         /\ \A x \in envs : IsHead(x, envs) => x = e
         /\ \A x \in envs \ {e} : e.id < x.id
         /\ InOrder(envs \ {e}) /\ Complete(envs \ {e}, from, more)
<1>1. e \in envs /\ e \in Entry /\ e.id \in Nat /\ e.at \in Nat
  BY DEF IsHead, Entry
<1>2. ASSUME NEW x \in envs, x # e
      PROVE  e.id < x.id /\ x.at \in Nat /\ x.id \in Nat /\ e.at < x.at
  <2>1. x \in Entry /\ x.at \in Nat /\ x.id \in Nat
    BY DEF Entry
  <2>2. e.at <= x.at
    BY <1>2 DEF IsHead
  <2>3. e.at # x.at
    <3>1. SUFFICES ASSUME e.at = x.at PROVE FALSE
      OBVIOUS
    <3>2. e.id = x.id
      BY <1>1, <2>1, <3>1 DEF InOrder
    <3>3. x = e
      BY <1>1, <2>1, <3>1, <3>2 DEF Entry
    <3>4. QED
      BY <1>2, <3>3
  <2>4. e.at < x.at
    BY <1>1, <2>1, <2>2, <2>3
  <2>5. QED
    BY <1>1, <2>1, <2>4 DEF InOrder
<1>3. \A b \in from .. e.id - 1 : b \in done
  <2>1. SUFFICES ASSUME NEW b \in from .. e.id - 1, b \notin done PROVE FALSE
    OBVIOUS
  <2>2. PICK x \in envs : x.id = b
    BY <1>1, <2>1 DEF Complete
  <2>3. QED
    BY <1>1, <1>2, <2>1, <2>2
<1>4. \A x \in envs : IsHead(x, envs) => x = e
  BY <1>1, <1>2 DEF IsHead
<1>5. InOrder(envs \ {e}) /\ Complete(envs \ {e}, from, more)
  BY DEF InOrder, Complete
<1>6. QED
  BY <1>1, <1>2, <1>3, <1>4, <1>5

-----------------------------------------------------------------------------
(* What a step of another thread leaves alone *)

\* The ring keeps its invariant when nothing is published and cursors only advance.
LEMMA RingFrame ==
  ASSUME Inv, RingInv,
         UNCHANGED <<publishing, nextBatch, buf, arrivals, dhBase>>,
         dhCursor' \in Nat, jrCursor' \in Nat, dhCursor <= dhCursor', jrCursor <= jrCursor'
  PROVE  RingInv'
<1>1. ASSUME NEW b \in dhBase + 1 .. nextBatch - 1, b <= dhCursor, b <= jrCursor
      PROVE  b <= dhCursor' /\ b <= jrCursor'
  BY <1>1 DEF Inv, TypeOK, BusTypeOK, StoreTypeOK
<1>2. QED
  BY <1>1 DEF RingInv, InOrder

\* The log and the journal consumer do not depend on the DH consumer, on the ring
\* or on a publish() on its way to the ring.
LEMMA JrFrame ==
  ASSUME Inv, JrListInv, JrCoverInv, CopiesInv,
         UNCHANGED <<jrVars, storeVars, journal, jrFailed, jrCursor, dhBase, crashes>>,
         faults' \in Nat, faults <= faults'
  PROVE  JrListInv' /\ JrCoverInv' /\ CopiesInv'
<1> USE DEF jrVars, storeVars
<1>1. JrDone' = JrDone /\ Journaled' = Journaled /\ Issued' = Issued /\ Passed' = Passed
  BY DEF JrDone, Journaled, Issued, Passed
<1>2. JrListInv'
  BY <1>1 DEF JrListInv, InOrder, Complete, IsHead
<1>3. JrCoverInv'
  BY <1>1 DEF JrCoverInv
<1>4. \A b \in Batches : MayComeAgain(b)' = MayComeAgain(b)
  BY <1>1 DEF MayComeAgain, IsHead
<1>5. \A b \in Batches :
        journal'[b] <= faults' + crashes' + (IF MayComeAgain(b)' THEN 0 ELSE 1)
  <2> SUFFICES ASSUME NEW b \in Batches
               PROVE  journal[b] <= faults' + crashes + (IF MayComeAgain(b) THEN 0 ELSE 1)
    BY <1>4
  <2> DEFINE extra == IF MayComeAgain(b) THEN 0 ELSE 1
  <2>1. extra \in Nat /\ journal[b] \in Nat /\ faults \in Nat /\ crashes \in Nat
    BY DEF Inv, TypeOK
  <2>2. journal[b] <= faults + crashes + extra
    BY DEF CopiesInv
  <2> HIDE DEF extra
  <2>3. journal[b] <= faults' + crashes + extra
    BY <2>1, <2>2
  <2>4. QED
    BY <2>3 DEF extra
<1>6. CopiesInv'
  BY <1>1, <1>5 DEF CopiesInv
<1>7. QED
  BY <1>2, <1>3, <1>6

LEMMA LogFrame ==
  ASSUME LogInv, UNCHANGED <<wal, nextBatch, committed, jrLast, jrCursor, phase>>
  PROVE  LogInv'
BY DEF LogInv, Issued, Passed

LEMMA DhFrame ==
  ASSUME DhListInv, UNCHANGED <<dhVars, dhLog, dhFailed, dhCursor, dhBase>>
  PROVE  DhListInv'
<1>1. DhDone' = DhDone
  BY DEF DhDone, DhWritten
<1>2. QED
  BY <1>1 DEF DhListInv, InOrder, Complete, dhVars

-----------------------------------------------------------------------------
(* The steps, one lemma per operation of a consumer *)

LEMMA InitDelivery == Init => DeliveryInv
<1> SUFFICES ASSUME Init PROVE DeliveryInv
  OBVIOUS
<1>1. Inv
  BY InitInv
<1> USE DEF Init, StoreInit, BusInit
<1>2. RingInv
  BY FS_EmptySet DEF RingInv, InOrder
<1>3. IdleInv /\ LogInv /\ JrListInv /\ DhListInv
  BY DEF IdleInv, LogInv, JrListInv, DhListInv, InOrder, Complete, Issued
<1>4. JrCoverInv /\ CopiesInv
  BY DEF JrCoverInv, CopiesInv, Passed
<1>5. QED
  BY <1>1, <1>2, <1>3, <1>4 DEF DeliveryInv

LEMMA PublishDelivery ==
  ASSUME SingleProducer, DeliveryInv, NEW p \in Producers, PublishAppend(p) \/ PublishEnqueue(p)
  PROVE  DeliveryInv'
<1> USE DEF DeliveryInv
<1>1. Inv'
  BY PublishInv
<1>2. CASE PublishAppend(p)
  <2> USE <1>2 DEF PublishAppend, StoreAppend, busVars, jrVars, dhVars, sinkVars, historyVars
  <2>1. nextBatch \in Nat /\ nextBatch' = nextBatch + 1
    BY DEF Inv, TypeOK, StoreTypeOK
  <2>2. \A q \in Producers : q = p /\ publishing'[q] = nextBatch
    BY DEF SingleProducer, Inv, TypeOK
  <2>3. RingInv'
    <3>1. \A e \in buf : e.id < nextBatch
      BY DEF Inv, IdsIssued, Issued, TypeOK, StoreTypeOK
    <3>2. \A b \in dhBase + 1 .. nextBatch :
            \/ \E e \in buf : e.id = b
            \/ \E q \in Producers : publishing'[q] = b
            \/ b <= dhCursor /\ b <= jrCursor
      <4>1. \A q \in Producers : publishing[q] = 0
        BY <2>2
      <4>2. SUFFICES ASSUME NEW b \in dhBase + 1 .. nextBatch, b # nextBatch
                     PROVE  b \in dhBase + 1 .. nextBatch - 1 /\ b # 0
        BY <2>2, <4>1 DEF RingInv
      <4>3. QED
        BY <2>1, <4>2 DEF Inv, TypeOK
    <3>3. dhBase < nextBatch'
      BY <2>1 DEF RingInv, Inv, TypeOK
    <3>4. InOrder(buf)'
      BY DEF RingInv, InOrder
    <3>5. QED
      BY <2>1, <2>2, <3>1, <3>2, <3>3, <3>4 DEF RingInv
  <2>4. IdleInv'
    BY DEF IdleInv
  <2>5. LogInv'
    <3>1. \A b \in Issued' : b \in Issued \/ b = nextBatch
      BY <2>1 DEF Issued
    <3>2. \A x \in wal : x < nextBatch
      BY DEF Inv, NextIsFresh
    <3>3. Passed' = Passed
      BY DEF Passed
    <3>4. QED
      BY <2>1, <3>1, <3>2, <3>3 DEF LogInv, Issued, Inv, TypeOK, StoreTypeOK
  <2>6. JrListInv'
    <3>1. \A b \in Issued' : b \in Issued \/ b = nextBatch
      BY <2>1 DEF Issued
    <3>2. Journaled' = Journaled /\ JrDone' = JrDone
      BY DEF Journaled, JrDone
    <3>3. QED
      BY <3>1, <3>2 DEF JrListInv, InOrder, Complete, IsHead
  <2>7. JrCoverInv' /\ CopiesInv'
    <3>1. JrDone' = JrDone /\ Passed' = Passed
      BY DEF Journaled, JrDone, Passed
    <3>2. \A b \in Batches : MayComeAgain(b)' = MayComeAgain(b)
      BY <3>1 DEF MayComeAgain, IsHead
    <3>3. QED
      BY <3>1, <3>2 DEF JrCoverInv, CopiesInv
  <2>8. DhListInv'
    BY DhFrame
  <2>9. QED
    BY <1>1, <2>3, <2>4, <2>5, <2>6, <2>7, <2>8
<1>3. CASE PublishEnqueue(p)
  <2> USE <1>3 DEF PublishEnqueue, jrVars, dhVars, sinkVars, historyVars, storeVars
  <2> DEFINE new == [at |-> arrivals + 1, id |-> publishing[p]]
             grown == buf \union {new}
  <2>1. /\ buf' = grown \ Evicted(grown)
        /\ arrivals' = arrivals + 1 /\ UNCHANGED <<dhCursor, jrCursor>>
    BY DEF Enqueue
  <2>2. /\ publishing[p] = nextBatch - 1 /\ publishing[p] \in Nat
        /\ \A q \in Producers : q = p /\ publishing'[q] = 0
        /\ arrivals \in Nat /\ nextBatch \in Nat
    BY DEF SingleProducer, RingInv, Inv, TypeOK, StoreTypeOK, BusTypeOK
  <2>3. \A e \in buf : e \in Entry /\ e.at < new.at /\ e.id < new.id
    BY <2>2 DEF RingInv, Inv, TypeOK, BusTypeOK, Entry
  <2>4. RingInv'
    <3>1. IsFiniteSet(buf')
      <4>1. IsFiniteSet(grown)
        BY FS_AddElement DEF RingInv
      <4>2. buf' \in SUBSET grown
        BY <2>1
      <4>3. QED
        BY <4>1, <4>2, FS_Subset
    <3>2. new.at = arrivals + 1 /\ new.id = publishing[p] /\ new \in Entry
      BY <2>2 DEF Entry
    <3> HIDE DEF new
    <3>3. InOrder(grown)
      <4>1. SUFFICES ASSUME NEW x \in grown, NEW y \in grown
                     PROVE  x.at < y.at <=> x.id < y.id
        BY DEF InOrder
      <4>2. CASE x = new /\ y = new
        BY <4>2, <3>2 DEF Entry
      <4>3. CASE x = new /\ y \in buf
        BY <4>3, <2>3, <3>2 DEF Entry
      <4>4. CASE x \in buf /\ y = new
        BY <4>4, <2>3, <3>2 DEF Entry
      <4>5. CASE x \in buf /\ y \in buf
        BY <4>5 DEF RingInv, InOrder
      <4>6. QED
        BY <4>2, <4>3, <4>4, <4>5
    <3>4. InOrder(buf')
      BY <2>1, <3>3 DEF InOrder
    <3>5. \A e \in buf' : e.at <= arrivals'
      BY <2>1, <2>2, <2>3, <3>2 DEF Entry, RingInv
    <3>6. ASSUME NEW b \in dhBase + 1 .. nextBatch - 1
          PROVE  \/ \E e \in buf' : e.id = b
                 \/ b <= dhCursor /\ b <= jrCursor
      <4>1. (\E e \in grown : e.id = b) \/ (b <= dhCursor /\ b <= jrCursor)
        BY <2>2, <3>2 DEF RingInv
      <4>2. ASSUME NEW e \in Evicted(grown), e.id = b
            PROVE  b <= dhCursor /\ b <= jrCursor
        <5>1. e \in grown /\ e \in Entry
          BY <2>3, <3>2 DEF Evicted
        <5>2. AckedByBoth(e)
          BY <5>1 DEF Evicted, Entry
        <5>3. QED
          BY <4>2, <5>1, <5>2 DEF AckedByBoth, Entry, Inv, TypeOK, BusTypeOK
      <4>3. QED
        BY <2>1, <4>1, <4>2
    <3>7. QED
      BY <2>1, <2>2, <3>1, <3>4, <3>5, <3>6 DEF RingInv
  <2>5. IdleInv' /\ LogInv' /\ DhListInv'
    BY <2>1, LogFrame, DhFrame DEF IdleInv
  <2>6. JrListInv' /\ JrCoverInv' /\ CopiesInv'
    <3>1. faults' \in Nat /\ faults <= faults'
      BY DEF Inv, TypeOK
    <3>2. QED
      BY <2>1, <3>1, JrFrame
  <2>7. QED
    BY <1>1, <2>4, <2>5, <2>6
<1>4. QED
  BY <1>2, <1>3

LEMMA JrReadsDelivery ==
  ASSUME SingleProducer, DeliveryInv, JrFetch \/ JrDrain
  PROVE  DeliveryInv'
<1> USE DEF DeliveryInv
<1>1. Inv'
  BY JrInv DEF Jr
<1>2. /\ UNCHANGED <<storeVars, busVars, phase, publishing, jrNext, dhVars, sinkVars, historyVars,
                     faults, crashes>>
      /\ jrPc' \in {"drain", "append", "fetch"} /\ jrPc \in {"fetch", "drain"}
      /\ jrLast' = 0 /\ Passed = jrCursor /\ Passed' = jrCursor
      /\ jrPc' \in {"fetch", "drain"} => jrEnvs' = {}
      /\ phase = "running"
  BY DEF JrFetch, JrDrain, JrListInv, IdleInv, Passed, Inv, TypeOK, BusTypeOK, busVars
<1> USE DEF storeVars, busVars, dhVars, sinkVars, historyVars
<1>3. JrDone' = JrDone /\ Journaled' = Journaled /\ Issued' = Issued
  BY <1>2 DEF JrDone, Journaled, Issued
<1>4. RingInv' /\ IdleInv' /\ DhListInv'
  BY <1>2, RingFrame, DhFrame DEF IdleInv, Inv, TypeOK, BusTypeOK
<1>5. LogInv' /\ JrCoverInv'
  BY <1>2, <1>3 DEF LogInv, JrCoverInv
<1>6. nextBatch \in Nat /\ jrNext \in Nat /\ jrCursor \in Nat /\ committed \in Nat
      /\ \A e \in jrEnvs' : e \in Entry /\ e.id \in 1 .. nextBatch - 1 /\ e.id \in Nat
  BY <1>1, <1>2 DEF Inv, TypeOK, StoreTypeOK, BusTypeOK, IdsIssued, Issued, Entry
<1>7. /\ InOrder(jrEnvs')
      /\ \A e \in jrEnvs' : e.id >= jrNext \/ e.id > jrCursor
      /\ Complete(jrEnvs', 1, JrDone)
      /\ \A e \in jrEnvs' : \A b \in Issued : b \notin wal => b < e.id
      /\ jrPc' = "drain" => dhBase < jrNext
  <2>1. CASE JrFetch
    <3> DEFINE page == NextFrom(jrNext, PageMax)
    <3>1. jrEnvs' = AsEntries(page)
      BY <2>1 DEF JrFetch
    <3>2. /\ \A b \in page : b \in wal /\ b >= jrNext
          /\ \A b \in page : \A c \in wal : jrNext <= c /\ c < b => c \in page
          /\ page = {} => \A c \in wal : c < jrNext
      BY <1>6, PageCuts DEF Inv
    <3>3. page \in SUBSET Nat /\ wal \subseteq Nat
      BY <3>2 DEF Inv, TypeOK, StoreTypeOK
    <3>4. /\ InOrder(jrEnvs')
          /\ \A e \in jrEnvs' : e.id \in page
          /\ \A b \in page : \E e \in jrEnvs' : e.id = b
          /\ jrEnvs' = {} => page = {}
      <4> HIDE DEF page
      <4>1. QED
        BY <3>1, <3>3, EntriesOf
    <3>5. Complete(jrEnvs', 1, JrDone)
      <4>1. SUFFICES ASSUME NEW e \in jrEnvs', NEW b \in 1 .. e.id - 1, b \notin JrDone
                     PROVE  \E x \in jrEnvs' : x.id = b
        BY DEF Complete
      <4>2. b \in Issued /\ b < e.id
        BY <1>6 DEF Issued
      <4>3. b >= jrNext
        BY <1>6, <4>1 DEF JrCoverInv
      <4>4. b \in wal
        <5>1. b > committed
          BY <1>6, <4>1 DEF JrCoverInv
        <5>2. QED
          BY <1>6, <4>2, <5>1 DEF LogInv
      <4>5. QED
        BY <3>2, <3>4, <4>2, <4>3, <4>4
    <3>6. ASSUME NEW e \in jrEnvs', NEW b \in Issued, b \notin wal PROVE b < e.id
      <4>1. e.id \in wal
        BY <3>2, <3>4
      <4>2. QED
        BY <1>6, <3>6, <4>1 DEF LogInv, Issued
    <3>7. jrPc' = "drain" => dhBase < jrNext
      <4>1. SUFFICES ASSUME \A c \in wal : c < jrNext PROVE dhBase < jrNext
        BY <2>1, <3>2, <3>4 DEF JrFetch
      <4>2. dhBase \in Nat /\ dhBase <= nextBatch - 1
        BY <1>6 DEF RingInv, Inv, TypeOK
      <4>3. CASE nextBatch > 1
        BY <1>6, <4>1, <4>2, <4>3 DEF Inv, NewestKept
      <4>4. CASE nextBatch <= 1
        BY <1>6, <4>2, <4>4 DEF JrListInv
      <4>5. QED
        BY <1>6, <4>3, <4>4
    <3>8. QED
      BY <1>6, <3>2, <3>4, <3>5, <3>6, <3>7
  <2>2. CASE JrDrain
    <3>1. jrEnvs' = Drained(jrCursor, DrainMax) /\ jrPc' # "drain" /\ jrPc = "drain"
      BY <2>2 DEF JrDrain
    <3>2. /\ InOrder(jrEnvs')
          /\ \A e \in jrEnvs' : e.id > jrCursor
          /\ \A e \in jrEnvs' : \A b \in jrCursor + 1 .. e.id - 1 :
               (\E x \in jrEnvs' : x.id = b) \/ ~ \E x \in buf : x.id = b
      BY <1>6, <3>1, DrainCuts
    <3>3. Complete(jrEnvs', 1, JrDone)
      <4>1. SUFFICES ASSUME NEW e \in jrEnvs', NEW b \in 1 .. e.id - 1, b \notin JrDone
                     PROVE  \E x \in jrEnvs' : x.id = b
        BY DEF Complete
      <4>2. b \in jrCursor + 1 .. e.id - 1 /\ b \in dhBase + 1 .. nextBatch - 1
        <5>1. b > jrCursor
          BY <1>2, <1>6, <4>1 DEF JrCoverInv
        <5>2. b >= jrNext /\ jrNext > dhBase /\ dhBase \in Nat
          BY <1>6, <3>1, <4>1 DEF JrCoverInv, JrListInv, Inv, TypeOK
        <5>3. QED
          BY <1>6, <5>1, <5>2
      <4>3. \A p \in Producers : publishing[p] # b
        BY <1>6, <4>2 DEF RingInv
      <4>4. \E x \in buf : x.id = b
        BY <1>6, <4>2, <4>3 DEF RingInv
      <4>5. QED
        BY <3>2, <4>2, <4>4
    <3>4. ASSUME NEW e \in jrEnvs', NEW b \in Issued, b \notin wal PROVE b < e.id
      <4>1. b <= jrCursor
        BY <1>2, <3>4 DEF LogInv
      <4>2. QED
        BY <1>6, <3>2, <4>1 DEF Issued
    <3>5. QED
      BY <3>1, <3>2, <3>3, <3>4
  <2>3. QED
    BY <2>1, <2>2
<1>8. JrListInv'
  <2>1. Complete(jrEnvs', 1, JrDone')
    BY <1>3, <1>7
  <2>2. InOrder(jrEnvs)' /\ Complete(jrEnvs, 1, JrDone)'
    BY <1>7, <2>1 DEF InOrder, Complete
  <2>3. QED
    BY <1>2, <1>3, <1>6, <1>7, <2>2 DEF JrListInv
<1>9. CopiesInv'
  <2>1. \A b \in Batches : MayComeAgain(b)' = MayComeAgain(b)
    BY <1>2 DEF MayComeAgain
  <2>2. QED
    BY <1>2, <1>7, <2>1 DEF CopiesInv
<1>10. QED
  BY <1>1, <1>4, <1>5, <1>8, <1>9

\* The journal consumer's envelope in hand: the head of its list, the first that
\* is not done.
LEMMA JrHead ==
  ASSUME DeliveryInv, NEW e, IsHead(e, jrEnvs), NEW more, JrDone \subseteq more, e.id \in more
  PROVE  /\ e \in jrEnvs /\ e \in Entry /\ e.id \in Nat \ {0} /\ e.id \in Batches
         /\ e.id < nextBatch
         /\ \A b \in 1 .. e.id - 1 : b \in JrDone
         /\ \A x \in jrEnvs : IsHead(x, jrEnvs) => x = e
         /\ \A x \in jrEnvs \ {e} : e.id < x.id
         /\ InOrder(jrEnvs \ {e}) /\ Complete(jrEnvs \ {e}, 1, more)
<1>1. e \in jrEnvs /\ e \in Entry /\ e.id \in Issued /\ e.id \in Nat
  BY HeadIsIssued DEF DeliveryInv, IsHead
<1>2. nextBatch \in Nat /\ nextBatch <= MaxBatches + 1
  BY DEF DeliveryInv, Inv, TypeOK, StoreTypeOK, IdsIssued
<1>3. jrEnvs \in SUBSET Entry /\ InOrder(jrEnvs) /\ Complete(jrEnvs, 1, JrDone)
  BY DEF DeliveryInv, Inv, TypeOK, JrListInv
<1>4. /\ \A b \in 1 .. e.id - 1 : b \in JrDone
      /\ \A x \in jrEnvs : IsHead(x, jrEnvs) => x = e
      /\ \A x \in jrEnvs \ {e} : e.id < x.id
      /\ InOrder(jrEnvs \ {e}) /\ Complete(jrEnvs \ {e}, 1, more)
  <2>1. PICK envs, done : envs = jrEnvs /\ done = JrDone
    OBVIOUS
  <2>2. /\ envs \in SUBSET Entry /\ InOrder(envs) /\ Complete(envs, 1, done)
        /\ IsHead(e, envs) /\ done \subseteq more /\ e.id \in more
    BY <1>3, <2>1
  <2>3. /\ \A b \in 1 .. e.id - 1 : b \in done
        /\ \A x \in envs : IsHead(x, envs) => x = e
        /\ \A x \in envs \ {e} : e.id < x.id
        /\ InOrder(envs \ {e}) /\ Complete(envs \ {e}, 1, more)
    BY <2>2, HeadFirst
  <2>4. QED
    BY <2>1, <2>3
<1>5. QED
  BY <1>1, <1>2, <1>4 DEF Issued, Batches

LEMMA JrAppendDelivery ==
  ASSUME DeliveryInv, JrAppend
  PROVE  DeliveryInv'
<1> USE DEF DeliveryInv
<1>1. Inv'
  BY JrInv DEF Jr
<1>2. PICK e \in jrEnvs : /\ IsHead(e, jrEnvs)
                          /\ journal' = [journal EXCEPT ![e.id] = @ + 1]
  BY DEF JrAppend
<1>3. /\ UNCHANGED <<storeVars, busVars, phase, publishing, jrEnvs, jrNext, jrLast, dhVars,
                     dhMark, dhLog, historyVars, faults, crashes>>
      /\ jrPc = "append" /\ jrPc' = "mark"
  BY DEF JrAppend
<1> USE DEF storeVars, busVars, dhVars, historyVars
<1>4. /\ e.id \in Batches
      /\ \A x \in jrEnvs : IsHead(x, jrEnvs) => x = e
  <2>1. JrDone \subseteq JrDone \union {e.id} /\ e.id \in JrDone \union {e.id}
    OBVIOUS
  <2>2. QED
    BY <1>2, <2>1, JrHead
<1>5. /\ journal \in [Batches -> Nat]
      /\ journal'[e.id] = journal[e.id] + 1
      /\ \A b \in Batches \ {e.id} : journal'[b] = journal[b]
  BY <1>2, <1>4 DEF Inv, TypeOK
<1>6. Journaled \subseteq Journaled' /\ e.id \in Journaled' /\ JrDone \subseteq JrDone'
      /\ Passed' = Passed /\ Issued' = Issued
  BY <1>3, <1>4, <1>5 DEF Journaled, JrDone, Passed, Issued
<1>7. RingInv' /\ IdleInv' /\ LogInv' /\ DhListInv'
  BY <1>3, RingFrame, LogFrame, DhFrame DEF IdleInv, Inv, TypeOK, BusTypeOK
<1>8. JrListInv'
  <2>1. InOrder(jrEnvs)' /\ Complete(jrEnvs, 1, JrDone)'
    BY <1>3, <1>6 DEF JrListInv, InOrder, Complete
  <2>2. \A x \in jrEnvs' : IsHead(x, jrEnvs)' => x.id \in Journaled'
    BY <1>3, <1>4, <1>6 DEF IsHead
  <2>3. QED
    BY <1>3, <1>6, <2>1, <2>2 DEF JrListInv
<1>9. JrCoverInv'
  BY <1>3, <1>6 DEF JrCoverInv
<1>10. CopiesInv'
  <2>1. ASSUME NEW b \in Batches, b # e.id
        PROVE  journal'[b] <= faults + crashes + (IF MayComeAgain(b)' THEN 0 ELSE 1)
    <3>1. MayComeAgain(b)' = MayComeAgain(b)
      BY <1>2, <1>3, <1>6, <2>1 DEF MayComeAgain, IsHead
    <3>2. QED
      BY <1>5, <2>1, <3>1 DEF CopiesInv
  <2>2. journal'[e.id] <= faults + crashes + 1 /\ ~MayComeAgain(e.id)'
    <3>1. MayComeAgain(e.id)
      BY <1>3 DEF MayComeAgain, CopiesInv
    <3>2. journal[e.id] <= faults + crashes
      BY <1>4, <3>1 DEF CopiesInv, Inv, TypeOK
    <3>3. ~MayComeAgain(e.id)'
      BY <1>3, <1>4 DEF MayComeAgain, IsHead
    <3>4. QED
      BY <1>4, <1>5, <3>2, <3>3 DEF Inv, TypeOK
  <2>3. QED
    BY <1>3, <1>6, <2>1, <2>2 DEF CopiesInv
<1>11. QED
  BY <1>1, <1>7, <1>8, <1>9, <1>10

\* A call that raises may bring back whatever was journaled already: it pays for it.
LEMMA RaisePays ==
  ASSUME DeliveryInv, journal' = journal,
         crashes' \in Nat /\ faults' \in Nat /\ faults + crashes < faults' + crashes'
  PROVE  \A b \in Batches :
           journal'[b] <= faults' + crashes' + (IF MayComeAgain(b)' THEN 0 ELSE 1)
<1> SUFFICES ASSUME NEW b \in Batches
             PROVE  journal[b] <= faults' + crashes' + (IF MayComeAgain(b)' THEN 0 ELSE 1)
  OBVIOUS
<1>1. journal[b] \in Nat /\ faults \in Nat /\ crashes \in Nat
  BY DEF DeliveryInv, Inv, TypeOK
<1>2. journal[b] <= faults + crashes + 1
  <2>1. CASE MayComeAgain(b)
    BY <1>1, <2>1 DEF DeliveryInv, CopiesInv
  <2>2. CASE ~MayComeAgain(b)
    BY <1>1, <2>2 DEF DeliveryInv, CopiesInv
  <2>3. QED
    BY <2>1, <2>2
<1>3. PICK f \in Nat, c \in Nat : faults' = f /\ crashes' = c
  OBVIOUS
<1>4. journal[b] <= f + c
  BY <1>1, <1>2, <1>3
<1>5. QED
  BY <1>1, <1>3, <1>4

LEMMA JrAppendFailsDelivery ==
  ASSUME DeliveryInv, JrAppendFails
  PROVE  DeliveryInv'
<1> USE DEF DeliveryInv
<1>1. Inv'
  BY JrInv DEF Jr
<1>2. PICK e \in jrEnvs : /\ IsHead(e, jrEnvs)
                          /\ JrContinue(jrEnvs \ {e})
                          /\ jrFailed' = jrFailed \union {e.id}
  BY DEF JrAppendFails
<1>3. /\ UNCHANGED <<storeVars, busVars, phase, publishing, jrNext, jrLast, dhVars,
                     sinkVars, dhBase, dhFailed, crashes>>
      /\ jrPc = "append" /\ faults' = faults + 1
      /\ jrEnvs' = jrEnvs \ {e} /\ jrPc' \in {"append", "ack"}
      /\ jrPc' = "ack" => jrEnvs' = {}
  BY <1>2 DEF JrAppendFails, Raise, JrContinue
<1> USE DEF storeVars, busVars, dhVars, sinkVars
<1>4. JrDone' = JrDone \union {e.id} /\ Journaled' = Journaled
      /\ Passed' = Passed /\ Issued' = Issued
  BY <1>2, <1>3 DEF Journaled, JrDone, Passed, Issued
<1>5. InOrder(jrEnvs') /\ Complete(jrEnvs', 1, JrDone')
  <2>1. JrDone \subseteq JrDone' /\ e.id \in JrDone'
    BY <1>4
  <2>2. QED
    BY <1>2, <1>3, <2>1, JrHead
<1>6. RingInv' /\ IdleInv' /\ LogInv' /\ DhListInv'
  BY <1>3, RingFrame, LogFrame, DhFrame DEF IdleInv, Inv, TypeOK, BusTypeOK
<1>7. JrListInv'
  <2>1. InOrder(jrEnvs)' /\ Complete(jrEnvs, 1, JrDone)'
    BY <1>5 DEF InOrder, Complete
  <2>2. QED
    BY <1>3, <1>4, <2>1 DEF JrListInv
<1>8. JrCoverInv'
  BY <1>3, <1>4 DEF JrCoverInv
<1>9. CopiesInv'
  <2>1. \A b \in Batches :
           journal'[b] <= faults' + crashes' + (IF MayComeAgain(b)' THEN 0 ELSE 1)
    BY <1>1, <1>3, RaisePays DEF Inv, TypeOK
  <2>2. QED
    BY <1>3, <1>4, <2>1 DEF CopiesInv
<1>10. QED
  BY <1>1, <1>6, <1>7, <1>8, <1>9

LEMMA JrMarkDelivery ==
  ASSUME DeliveryInv, JrMark
  PROVE  DeliveryInv'
<1> USE DEF DeliveryInv
<1>1. Inv'
  BY JrInv DEF Jr
<1>2. PICK e \in jrEnvs : /\ IsHead(e, jrEnvs)
                          /\ MarkCommitted(e.id)
                          /\ jrNext' = e.id + 1
                          /\ jrLast' = e.id
                          /\ JrContinue(jrEnvs \ {e})
  BY DEF JrMark
<1>3. /\ UNCHANGED <<busVars, phase, publishing, dhVars, sinkVars, historyVars, faults, crashes>>
      /\ jrPc = "mark" /\ committed' = e.id /\ nextBatch' = nextBatch
      /\ jrEnvs' = jrEnvs \ {e} /\ jrPc' \in {"append", "ack"}
      /\ jrPc' = "ack" => jrEnvs' = {}
  BY <1>2 DEF JrMark, JrContinue, MarkCommitted
<1> USE DEF busVars, dhVars, sinkVars, historyVars
<1>4. JrDone' = JrDone /\ Journaled' = Journaled /\ Issued' = Issued
  BY <1>3 DEF Journaled, JrDone, Issued
<1>5. e.id \in JrDone
  BY <1>2, <1>3 DEF JrListInv, JrDone
<1>6. /\ e.id \in Nat \ {0} /\ e.id < nextBatch
      /\ \A b \in 1 .. e.id - 1 : b \in JrDone
      /\ \A x \in jrEnvs : IsHead(x, jrEnvs) => x = e
      /\ \A x \in jrEnvs' : e.id < x.id
      /\ InOrder(jrEnvs') /\ Complete(jrEnvs', 1, JrDone')
  BY <1>2, <1>3, <1>4, <1>5, JrHead
<1>7. /\ jrCursor \in Nat /\ jrLast \in Nat /\ jrNext \in Nat /\ nextBatch \in Nat
      /\ wal \subseteq Nat /\ \A x \in jrEnvs : x.id \in Nat
  BY DEF Inv, TypeOK, StoreTypeOK, BusTypeOK, Entry
<1>8. Passed' = (IF e.id > jrCursor THEN e.id ELSE jrCursor)
  BY <1>2, <1>3 DEF Passed
<1>9. /\ wal' \subseteq wal
      /\ \A b \in wal : b \notin wal' => b < e.id
      /\ \A x \in wal' : \A y \in wal : x <= y => y \in wal'
  <2>1. CASE wal' = wal
    BY <2>1
  <2>2. CASE wal' = {x \in wal : x > PruneCutoff(e.id)}
    BY <1>6, <1>7, <2>2 DEF PruneCutoff
  <2>3. QED
    BY <1>2, <2>1, <2>2 DEF MarkCommitted
<1>10. \A b \in Issued : b \notin wal' => b < e.id
  BY <1>2, <1>9 DEF JrListInv
<1>11. RingInv' /\ IdleInv' /\ DhListInv'
  BY <1>3, RingFrame, DhFrame DEF IdleInv, Inv, TypeOK, BusTypeOK
<1>12. LogInv'
  <2>1. \A x \in wal' : \A y \in Issued : x <= y => y \in wal'
    BY <1>9 DEF LogInv
  <2>2. \A b \in Issued : b \notin wal' => b <= e.id /\ b <= Passed'
    BY <1>6, <1>7, <1>8, <1>10 DEF Issued
  <2>3. QED
    BY <1>3, <1>4, <2>1, <2>2 DEF LogInv
<1>13. JrListInv'
  <2>1. InOrder(jrEnvs)' /\ Complete(jrEnvs, 1, JrDone)'
    BY <1>6 DEF InOrder, Complete
  <2>2. \A x \in jrEnvs' : \A b \in Issued : b \notin wal' => b < x.id
    BY <1>3, <1>6, <1>7, <1>10 DEF Issued
  <2>3. jrNext' >= 1
    BY <1>2, <1>6
  <2>4. \A x \in jrEnvs' : \A b \in Issued' : b \notin wal' => b < x.id
    BY <1>4, <2>2
  <2>5. QED
    BY <1>3, <2>1, <2>3, <2>4 DEF JrListInv
<1>14. JrCoverInv'
  <2>1. \A b \in 1 .. e.id : b \in JrDone
    BY <1>5, <1>6
  <2>2. \A b \in 1 .. Passed' : b \in JrDone
    BY <1>6, <1>7, <1>8, <2>1 DEF JrCoverInv, Passed
  <2>3. QED
    BY <1>2, <1>3, <1>4, <1>6, <2>1, <2>2 DEF JrCoverInv
<1>15. CopiesInv'
  <2>1. ASSUME NEW b \in Batches, MayComeAgain(b)' PROVE MayComeAgain(b)
    <3>1. b \in Nat /\ b > e.id
      BY <1>2, <1>6, <1>7, <1>8, <2>1 DEF MayComeAgain, Batches
    <3>2. b >= jrNext \/ b > Passed
      BY <1>6, <1>7, <3>1 DEF CopiesInv, Passed
    <3>3. QED
      BY <1>2, <1>6, <3>1, <3>2 DEF MayComeAgain
  <2>2. ASSUME NEW b \in Batches
        PROVE  journal[b] <= faults + crashes + (IF MayComeAgain(b)' THEN 0 ELSE 1)
    <3>1. journal[b] \in Nat /\ faults \in Nat /\ crashes \in Nat
      BY DEF Inv, TypeOK
    <3>2. CASE MayComeAgain(b)'
      BY <2>1, <3>2 DEF CopiesInv
    <3>3. CASE ~MayComeAgain(b)'
      <4>1. journal[b] <= faults + crashes + 1
        BY <3>1 DEF CopiesInv
      <4>2. QED
        BY <3>3, <4>1
    <3>4. QED
      BY <3>2, <3>3
  <2>3. /\ \A x \in jrEnvs' : x.id >= jrNext'
        /\ jrNext' <= committed' + 1
    BY <1>2, <1>3, <1>6, <1>7
  <2>4. QED
    BY <1>3, <2>2, <2>3 DEF CopiesInv
<1>16. QED
  BY <1>1, <1>11, <1>12, <1>13, <1>14, <1>15

LEMMA JrMarkFailsDelivery ==
  ASSUME DeliveryInv, JrMarkFails
  PROVE  DeliveryInv'
<1> USE DEF DeliveryInv
<1>1. Inv'
  BY JrInv DEF Jr
<1>2. /\ UNCHANGED <<busVars, phase, publishing, jrNext, jrLast, dhVars, sinkVars, historyVars,
                     crashes>>
      /\ jrPc = "mark" /\ faults' = faults + 1
      /\ jrEnvs' = {} /\ jrPc' = "ack"
      /\ wal' = wal /\ nextBatch' = nextBatch
  BY DEF JrMarkFails, JrContinue, Raise, MarkCommittedPruneFails, storeVars
<1> USE DEF busVars, dhVars, sinkVars, historyVars
<1>3. JrDone' = JrDone /\ Issued' = Issued /\ Passed' = Passed
  BY <1>2 DEF Journaled, JrDone, Issued, Passed
<1>4. /\ committed' \in Nat
      /\ \A b \in 1 .. committed' : b \in JrDone
      /\ \A b \in Issued : b \notin wal => b <= committed'
      /\ jrNext <= committed' + 1 \/ Passed <= committed'
  <2>1. CASE committed' = committed
    BY <1>1, <2>1 DEF JrCoverInv, LogInv, CopiesInv, Inv, TypeOK, StoreTypeOK
  <2>2. CASE \E e \in jrEnvs : IsHead(e, jrEnvs) /\ committed' = e.id
    <3>1. PICK e \in jrEnvs : IsHead(e, jrEnvs) /\ committed' = e.id
      BY <2>2
    <3>2. e.id \in JrDone
      BY <1>2, <3>1 DEF JrListInv, JrDone
    <3>3. e.id \in Nat \ {0} /\ \A b \in 1 .. e.id - 1 : b \in JrDone
      BY <3>1, <3>2, JrHead
    <3>4. \A b \in Issued : b \notin wal => b <= e.id
      BY <3>3 DEF JrListInv, Issued
    <3>5. jrNext <= e.id + 1 \/ Passed <= e.id
      BY <3>3 DEF CopiesInv, Passed, Inv, TypeOK, BusTypeOK
    <3>6. QED
      BY <3>1, <3>2, <3>3, <3>4, <3>5
  <2>3. QED
    BY <2>1, <2>2 DEF JrMarkFails, MarkCommittedPruneFails, storeVars
<1>5. RingInv' /\ IdleInv' /\ DhListInv'
  BY <1>2, RingFrame, DhFrame DEF IdleInv, Inv, TypeOK, BusTypeOK
<1>6. LogInv'
  BY <1>2, <1>3, <1>4 DEF LogInv
<1>7. JrListInv'
  BY <1>2, <1>3 DEF JrListInv, InOrder, Complete
<1>8. JrCoverInv'
  BY <1>2, <1>3, <1>4 DEF JrCoverInv
<1>9. CopiesInv'
  <2>1. \A b \in Batches :
           journal'[b] <= faults' + crashes' + (IF MayComeAgain(b)' THEN 0 ELSE 1)
    BY <1>1, <1>2, RaisePays DEF Inv, TypeOK
  <2>2. QED
    BY <1>2, <1>3, <1>4, <2>1 DEF CopiesInv
<1>10. QED
  BY <1>1, <1>5, <1>6, <1>7, <1>8, <1>9

LEMMA JrAckDelivery ==
  ASSUME DeliveryInv, JrAck
  PROVE  DeliveryInv'
<1> USE DEF DeliveryInv
<1>1. Inv'
  BY JrInv DEF Jr
<1>2. /\ UNCHANGED <<storeVars, phase, publishing, jrEnvs, jrNext, jrLast, dhVars, sinkVars,
                     historyVars, faults, crashes, buf, arrivals, dhCursor>>
      /\ jrPc = "ack" /\ jrPc' = "fetch" /\ jrEnvs = {}
  BY DEF JrAck, AckJournal, JrListInv, busVars
<1>3. jrCursor \in Nat /\ jrLast \in Nat /\ dhCursor \in Nat
  BY DEF Inv, TypeOK, BusTypeOK
<1>4. jrCursor' = Passed
  <2>1. CASE jrLast # 0
    BY <2>1 DEF JrAck, AckJournal, Advanced, Passed
  <2>2. CASE jrLast = 0
    BY <1>3, <2>2 DEF JrAck, Passed, busVars
  <2>3. QED
    BY <2>1, <2>2
<1>5. /\ Passed' = Passed /\ jrLast <= jrCursor'
       /\ jrCursor' \in Nat /\ jrCursor <= jrCursor'
       /\ dhCursor' \in Nat /\ dhCursor <= dhCursor'
  BY <1>2, <1>3, <1>4 DEF Passed
<1> USE DEF storeVars, dhVars, sinkVars, historyVars
<1>6. JrDone' = JrDone /\ Issued' = Issued
  BY <1>2, <1>5 DEF Journaled, JrDone, Issued
<1>7. RingInv' /\ IdleInv' /\ DhListInv'
  BY <1>2, <1>3, <1>5, RingFrame, DhFrame DEF IdleInv
<1>8. LogInv' /\ JrCoverInv'
  BY <1>2, <1>6, <1>5 DEF LogInv, JrCoverInv
<1>9. JrListInv'
  BY <1>2, <1>6, <1>5 DEF JrListInv, InOrder, Complete
<1>10. CopiesInv'
  <2>1. \A b \in Batches : MayComeAgain(b)' = MayComeAgain(b)
    BY <1>2, <1>5 DEF MayComeAgain
  <2>2. QED
    BY <1>2, <1>5, <2>1 DEF CopiesInv
<1>11. QED
  BY <1>1, <1>7, <1>8, <1>9, <1>10

LEMMA JrRestartDelivery ==
  ASSUME DeliveryInv, JrRestart
  PROVE  DeliveryInv'
<1> USE DEF DeliveryInv
<1>1. Inv'
  BY JrInv
<1>2. /\ UNCHANGED <<storeVars, busVars, phase, publishing, jrPc, jrEnvs, jrLast, dhVars,
                     sinkVars, historyVars, crashes>>
      /\ phase = "running" /\ jrPc = "fetch" /\ jrEnvs = {}
      /\ \/ jrNext' = committed + 1 /\ faults' = faults
         \/ jrNext' = 1 /\ faults' = faults + 1
  BY DEF JrRestart, JrStart, Raise, JrListInv
<1>3. committed \in Nat /\ faults \in Nat /\ crashes \in Nat /\ faults' \in Nat
  BY <1>1 DEF Inv, TypeOK, StoreTypeOK
<1> USE DEF storeVars, busVars, dhVars, sinkVars, historyVars
<1>4. JrDone' = JrDone /\ Issued' = Issued /\ Passed' = Passed
  BY <1>2 DEF Journaled, JrDone, Issued, Passed
<1>5. RingInv' /\ IdleInv' /\ LogInv' /\ DhListInv'
  BY <1>2, RingFrame, LogFrame, DhFrame DEF IdleInv, Inv, TypeOK, BusTypeOK
<1>6. JrListInv'
  BY <1>2, <1>3, <1>4 DEF JrListInv, InOrder, Complete
<1>7. JrCoverInv'
  BY <1>2, <1>3, <1>4 DEF JrCoverInv
<1>8. CopiesInv'
  <2>1. jrNext' <= committed' + 1
    BY <1>2, <1>3
  <2>2. \A b \in Batches :
           journal'[b] <= faults' + crashes' + (IF MayComeAgain(b)' THEN 0 ELSE 1)
    <3>1. CASE jrNext' = committed + 1 /\ faults' = faults
      <4>1. SUFFICES ASSUME NEW b \in Batches
                     PROVE  journal[b] <= faults + crashes + (IF MayComeAgain(b)' THEN 0 ELSE 1)
        BY <1>2, <3>1
      <4>2. journal[b] \in Nat /\ b \in Nat /\ jrNext \in Nat /\ Passed \in Nat
        BY DEF Batches, Inv, TypeOK, BusTypeOK, Passed
      <4>3. MayComeAgain(b)' => MayComeAgain(b)
        BY <1>2, <1>3, <1>4, <3>1, <4>2 DEF MayComeAgain, CopiesInv
      <4>4. CASE MayComeAgain(b)
        BY <1>3, <4>2, <4>4 DEF CopiesInv
      <4>5. CASE ~MayComeAgain(b)
        BY <4>3, <4>5 DEF CopiesInv
      <4>6. QED
        BY <4>4, <4>5
    <3>2. CASE faults' = faults + 1
      BY <1>2, <1>3, <3>2, RaisePays
    <3>3. QED
      BY <1>2, <3>1, <3>2
  <2>3. QED
    BY <1>2, <2>1, <2>2 DEF CopiesInv
<1>9. QED
  BY <1>1, <1>5, <1>6, <1>7, <1>8

\* The DH consumer's envelope in hand.
LEMMA DhHead ==
  ASSUME DeliveryInv, NEW e, IsHead(e, dhEnvs), NEW more, DhDone \subseteq more, e.id \in more
  PROVE  /\ e.id \in 1 .. nextBatch - 1
         /\ \A b \in dhBase + 1 .. e.id - 1 : b \in DhDone
         /\ InOrder(dhEnvs \ {e}) /\ Complete(dhEnvs \ {e}, dhBase + 1, more)
<1>1. e \in dhEnvs /\ e.id \in Issued
  BY HeadIsIssued DEF DeliveryInv, IsHead
<1>2. PICK from \in Nat : from = dhBase + 1
  BY DEF DeliveryInv, Inv, TypeOK
<1>3. PICK envs, done :
        /\ envs = dhEnvs /\ done = DhDone
        /\ envs \in SUBSET Entry /\ InOrder(envs) /\ Complete(envs, from, done)
        /\ IsHead(e, envs) /\ done \subseteq more /\ e.id \in more
  BY <1>2 DEF DeliveryInv, Inv, TypeOK, DhListInv
<1>4. /\ \A b \in from .. e.id - 1 : b \in done
      /\ \A x \in envs : IsHead(x, envs) => x = e
      /\ \A x \in envs \ {e} : e.id < x.id
      /\ InOrder(envs \ {e}) /\ Complete(envs \ {e}, from, more)
  BY <1>3, HeadFirst
<1>5. QED
  BY <1>1, <1>2, <1>3, <1>4 DEF Issued

\* A step of the DH consumer touches nothing but its own state.
LEMMA DhFrameJr ==
  ASSUME DeliveryInv, Dh \/ DhRestart, Inv'
  PROVE  RingInv' /\ IdleInv' /\ LogInv' /\ JrListInv' /\ JrCoverInv' /\ CopiesInv'
<1> USE DEF DeliveryInv
<1>1. /\ UNCHANGED <<storeVars, phase, publishing, jrVars, journal, dhMark, dhBase, jrFailed,
                     crashes, buf, arrivals, jrCursor>>
      /\ phase = "running" 
      /\ dhCursor' = dhCursor \/ dhCursor' = Advanced(dhCursor, dhLast)
      /\ faults' = faults \/ faults' = faults + 1
  BY DEF Dh, DhDrain, DhWrite, DhWriteFails, DhAck, DhRestart, AckDh, Raise, IdleInv, busVars,
     sinkVars, historyVars
<1>2. dhCursor \in Nat /\ dhCursor' \in Nat /\ dhCursor <= dhCursor'
  BY <1>1 DEF Inv, TypeOK, BusTypeOK, Advanced
<1>3. RingInv' /\ LogInv' /\ IdleInv'
  <2>1. jrCursor' \in Nat /\ jrCursor <= jrCursor'
    BY <1>1 DEF Inv, TypeOK, BusTypeOK
  <2>2. QED
    BY <1>1, <1>2, <2>1, RingFrame, LogFrame DEF storeVars, jrVars, IdleInv
<1>4. faults' \in Nat /\ faults <= faults'
  BY <1>1 DEF Inv, TypeOK
<1>5. JrListInv' /\ JrCoverInv' /\ CopiesInv'
  BY <1>1, <1>4, JrFrame
<1>6. QED
  BY <1>3, <1>5

LEMMA DhDelivery ==
  ASSUME SingleProducer, DeliveryInv, Dh \/ DhRestart
  PROVE  DeliveryInv'
<1> USE DEF DeliveryInv
<1>1. Inv'
  BY DhInv
<1>2. RingInv' /\ IdleInv' /\ LogInv' /\ JrListInv' /\ JrCoverInv' /\ CopiesInv'
  BY <1>1, DhFrameJr
<1>3. dhCursor \in Nat /\ dhBase \in Nat /\ nextBatch \in Nat /\ dhLast \in Int
      /\ \A e \in dhEnvs : e.id \in Nat
  BY DEF Inv, TypeOK, StoreTypeOK, BusTypeOK, Entry
<1>4. CASE DhDrain
  <2>1. /\ dhEnvs' = Drained(dhCursor, DrainMax) /\ dhPc' = "write"
        /\ UNCHANGED <<dhLast, sinkVars, historyVars, dhCursor>>
    BY <1>4 DEF DhDrain, busVars
  <2>2. DhDone' = DhDone /\ dhBase' = dhBase
    BY <2>1 DEF DhDone, DhWritten, sinkVars, historyVars
  <2>3. /\ InOrder(dhEnvs')
        /\ \A e \in dhEnvs' : e.id > dhCursor
        /\ \A e \in dhEnvs' : \A b \in dhCursor + 1 .. e.id - 1 :
             (\E x \in dhEnvs' : x.id = b) \/ ~ \E x \in buf : x.id = b
    BY <1>3, <2>1, DrainCuts
  <2>4. Complete(dhEnvs', dhBase + 1, DhDone)
    <3>1. SUFFICES ASSUME NEW e \in dhEnvs', NEW b \in dhBase + 1 .. e.id - 1, b \notin DhDone
                   PROVE  \E x \in dhEnvs' : x.id = b
      BY DEF Complete
    <3>2. e.id \in 1 .. nextBatch - 1 /\ e.id \in Nat
      BY <1>1, <1>4 DEF Inv, IdsIssued, Issued, DhDrain, storeVars, TypeOK, Entry
    <3>3. b > dhCursor /\ b \in Nat
      BY <1>3, <3>1 DEF DhListInv
    <3>4. b \in dhBase + 1 .. nextBatch - 1 /\ b \in dhCursor + 1 .. e.id - 1 /\ b # nextBatch - 1
      BY <1>3, <3>2, <3>3
    <3>5. \A p \in Producers : publishing[p] # b
      BY <1>3, <3>4 DEF RingInv
    <3>6. \E x \in buf : x.id = b
      BY <1>3, <3>3, <3>4, <3>5 DEF RingInv
    <3>7. QED
      BY <2>3, <3>4, <3>6
  <2>5. InOrder(dhEnvs)' /\ Complete(dhEnvs, dhBase + 1, DhDone)'
    BY <2>2, <2>3, <2>4 DEF InOrder, Complete
  <2>6. DhListInv'
    BY <2>1, <2>2, <2>5 DEF DhListInv
  <2>7. QED
    BY <1>1, <1>2, <2>6
<1>5. CASE DhWrite
  <2>1. PICK e \in dhEnvs : /\ IsHead(e, dhEnvs)
                            /\ dhLog' = Append(dhLog, e.id)
                            /\ dhLast' = e.id
                            /\ DhContinue(dhEnvs \ {e})
    BY <1>5 DEF DhWrite
  <2>2. /\ dhEnvs' = dhEnvs \ {e} /\ dhPc' \in {"write", "ack"} /\ (dhPc' = "ack" => dhEnvs' = {})
        /\ dhCursor' = dhCursor /\ dhBase' = dhBase /\ dhFailed' = dhFailed
    BY <1>5, <2>1 DEF DhWrite, DhContinue, busVars, historyVars
  <2>3. DhDone' = DhDone \union {e.id}
    <3>1. dhLog \in Seq(Nat) /\ e.id \in Nat
      BY <1>3, <2>1 DEF Inv, TypeOK
    <3>2. DhWritten' = DhWritten \union {e.id}
      BY <2>1, <3>1 DEF DhWritten
    <3>3. QED
      BY <2>2, <3>2 DEF DhDone
  <2>4. DhDone \subseteq DhDone' /\ e.id \in DhDone'
    BY <2>3
  <2>5. /\ \A b \in dhBase + 1 .. e.id - 1 : b \in DhDone
        /\ InOrder(dhEnvs') /\ Complete(dhEnvs', dhBase + 1, DhDone')
    BY <2>1, <2>2, <2>4, DhHead
  <2>6. InOrder(dhEnvs)' /\ Complete(dhEnvs, dhBase + 1, DhDone)'
    BY <2>2, <2>5 DEF InOrder, Complete
  <2>7. \A b \in dhBase + 1 .. dhLast' : b \in DhDone'
    BY <1>3, <2>1, <2>4, <2>5
  <2>8. DhListInv'
    BY <2>2, <2>4, <2>6, <2>7 DEF DhListInv
  <2>9. QED
    BY <1>1, <1>2, <2>8
<1>6. CASE DhWriteFails
  <2>1. PICK e \in dhEnvs : /\ IsHead(e, dhEnvs)
                            /\ DhContinue(dhEnvs \ {e})
                            /\ dhFailed' = dhFailed \union {e.id}
    BY <1>6 DEF DhWriteFails
  <2>2. /\ dhEnvs' = dhEnvs \ {e} /\ dhPc' \in {"write", "ack"} /\ (dhPc' = "ack" => dhEnvs' = {})
        /\ UNCHANGED <<dhCursor, dhBase, dhLast, dhLog>>
    BY <1>6, <2>1 DEF DhWriteFails, DhContinue, busVars, sinkVars
  <2>3. DhDone' = DhDone \union {e.id}
    BY <2>1, <2>2 DEF DhDone, DhWritten
  <2>4. DhDone \subseteq DhDone' /\ e.id \in DhDone'
    BY <2>3
  <2>5. InOrder(dhEnvs') /\ Complete(dhEnvs', dhBase + 1, DhDone')
    BY <2>1, <2>2, <2>4, DhHead
  <2>6. InOrder(dhEnvs)' /\ Complete(dhEnvs, dhBase + 1, DhDone)'
    BY <2>2, <2>5 DEF InOrder, Complete
  <2>7. DhListInv'
    BY <2>2, <2>4, <2>6 DEF DhListInv
  <2>8. QED
    BY <1>1, <1>2, <2>7
<1>7. CASE DhAck
  <2>1. /\ UNCHANGED <<dhEnvs, dhLast, dhLog, dhFailed, dhBase>>
        /\ dhPc = "ack" /\ dhPc' = "drain"
        /\ dhCursor' = dhCursor \/ dhCursor' = dhLast
    BY <1>7 DEF DhAck, AckDh, Advanced, busVars, sinkVars, historyVars
  <2>2. DhDone' = DhDone
    BY <2>1 DEF DhDone, DhWritten
  <2>3. DhListInv'
    BY <2>1, <2>2 DEF DhListInv, InOrder, Complete
  <2>4. QED
    BY <1>1, <1>2, <2>3
<1>8. CASE DhRestart
  <2>1. /\ UNCHANGED <<dhEnvs, dhPc, dhLog, dhFailed, dhBase, dhCursor>> /\ dhLast' = -1
    BY <1>8 DEF DhRestart, busVars, sinkVars, historyVars
  <2>2. DhDone' = DhDone
    BY <2>1 DEF DhDone, DhWritten
  <2>3. DhListInv'
    BY <1>3, <2>1, <2>2 DEF DhListInv, InOrder, Complete
  <2>4. QED
    BY <1>1, <1>2, <2>3
<1>9. QED
  BY <1>4, <1>5, <1>6, <1>7, <1>8 DEF Dh

LEMMA ProcessDelivery ==
  ASSUME DeliveryInv, Crash \/ (\E replay \in ReplayModes : Start(replay)) \/ Hydrate
  PROVE  DeliveryInv'
<1> USE DEF DeliveryInv
<1>1. Inv'
  BY ProcessInv
<1>2. nextBatch \in Nat \ {0} /\ committed \in Nat /\ faults \in Nat /\ crashes \in Nat
  BY DEF Inv, TypeOK, StoreTypeOK
<1>3. CASE Crash
  <2>1. /\ UNCHANGED <<wal, committed, nextBatch, journal, dhMark, jrFailed, faults>>
        /\ crashes' = crashes + 1 /\ phase' = "down"
        /\ \A p \in Producers : publishing'[p] = 0
        /\ jrPc' = "fetch" /\ jrEnvs' = {} /\ jrLast' = 0
        /\ dhPc' = "drain" /\ dhEnvs' = {} /\ dhLast' = -1
        /\ jrNext' = 1
        /\ buf' = {} /\ dhCursor' = 0 /\ jrCursor' = 0
        /\ dhBase' = nextBatch - 1
    BY <1>3 DEF Crash, storeVars
  <2>2. JrDone' = JrDone /\ Issued' = Issued /\ Passed' = 0
    BY <2>1 DEF Journaled, JrDone, Issued, Passed
  <2>3. RingInv' /\ IdleInv'
    BY <1>2, <2>1, FS_EmptySet DEF RingInv, InOrder, IdleInv
  <2>4. LogInv'
    BY <2>1, <2>2 DEF LogInv
  <2>5. JrListInv' /\ DhListInv'
    BY <1>2, <2>1, <2>2 DEF JrListInv, DhListInv, InOrder, Complete
  <2>6. JrCoverInv'
    BY <1>2, <2>1, <2>2 DEF JrCoverInv
  <2>7. CopiesInv'
    <3>1. \A b \in Batches :
             journal'[b] <= faults' + crashes' + (IF MayComeAgain(b)' THEN 0 ELSE 1)
      BY <1>2, <2>1, RaisePays
    <3>2. QED
      BY <1>2, <2>1, <2>2, <3>1 DEF CopiesInv
  <2>8. QED
    BY <1>1, <2>3, <2>4, <2>5, <2>6, <2>7
<1>4. ASSUME NEW replay \in ReplayModes, Start(replay) PROVE DeliveryInv'
  <2>1. nextBatch' = nextBatch /\ wal' = wal /\ committed' = committed
    BY <1>4, ReseedKeepsSequence DEF Start, StoreOpen, Inv, TypeOK
  <2>2. /\ UNCHANGED <<buf, arrivals, publishing, jrPc, jrEnvs, jrLast, dhPc, dhEnvs, dhLast,
                       journal, dhLog, dhBase, dhFailed, jrFailed, faults, crashes>>
        /\ phase = "down" /\ phase' # "down"
        /\ jrCursor' = committed /\ jrNext' = committed + 1
        /\ dhCursor' \in Nat /\ dhCursor' < nextBatch
    BY <1>1, <1>4, <2>1 DEF Start, JrStart, dhVars, historyVars, Inv, TypeOK, BusTypeOK, IdsIssued
  <2>3. /\ dhBase = nextBatch - 1
        /\ jrPc = "fetch" /\ jrEnvs = {} /\ jrLast = 0
        /\ dhPc = "drain" /\ dhEnvs = {} /\ dhLast = -1
    BY <2>2 DEF IdleInv
  <2>4. JrDone' = JrDone /\ DhDone' = DhDone /\ Issued' = Issued /\ Passed' = committed
    BY <1>2, <2>1, <2>2, <2>3 DEF Journaled, JrDone, DhWritten, DhDone, Issued, Passed
  <2>5. RingInv'
    BY <1>2, <2>1, <2>2, <2>3 DEF RingInv, InOrder
  <2>6. IdleInv'
    BY <2>1, <2>2, <2>3 DEF IdleInv
  <2>7. LogInv'
    BY <2>1, <2>2, <2>4 DEF LogInv
  <2>8. JrListInv' /\ JrCoverInv'
    BY <1>2, <2>1, <2>2, <2>3, <2>4 DEF JrListInv, JrCoverInv, InOrder, Complete
  <2>9. DhListInv'
    BY <1>2, <2>1, <2>2, <2>3, <2>4 DEF DhListInv, InOrder, Complete
  <2>10. CopiesInv'
    <3>1. \A b \in Batches : MayComeAgain(b)' => b > committed
      BY <1>2, <2>1, <2>2, <2>4 DEF MayComeAgain, Batches
    <3>2. \A b \in Batches : b > committed => MayComeAgain(b)
      <4>1. jrNext <= committed + 1 \/ Passed <= committed
        BY DEF CopiesInv
      <4>2. jrNext \in Nat /\ Passed \in Nat
        BY DEF Inv, TypeOK, BusTypeOK, Passed
      <4>3. QED
        BY <1>2, <2>3, <4>1, <4>2 DEF MayComeAgain, Batches
    <3>3. ASSUME NEW b \in Batches
          PROVE  journal[b] <= faults + crashes + (IF MayComeAgain(b)' THEN 0 ELSE 1)
      <4>1. journal[b] \in Nat
        BY DEF Inv, TypeOK
      <4>2. CASE MayComeAgain(b)
        BY <1>2, <4>1, <4>2 DEF CopiesInv
      <4>3. CASE ~MayComeAgain(b)
        BY <3>1, <3>2, <4>3 DEF CopiesInv
      <4>4. QED
        BY <4>2, <4>3
    <3>4. QED
      BY <1>2, <2>1, <2>2, <2>3, <3>3 DEF CopiesInv
  <2>11. QED
    BY <1>1, <2>5, <2>6, <2>7, <2>8, <2>9, <2>10
<1>5. CASE Hydrate
  <2> USE <1>5 DEF Hydrate, vars, storeVars, busVars, jrVars, dhVars, sinkVars, historyVars
  <2>1. dhCursor' \in Nat /\ jrCursor' \in Nat /\ dhCursor <= dhCursor' /\ jrCursor <= jrCursor'
        /\ faults' \in Nat /\ faults <= faults'
    BY DEF Inv, TypeOK, BusTypeOK
  <2>2. RingInv' /\ IdleInv' /\ LogInv' /\ DhListInv'
    BY <2>1, RingFrame, LogFrame, DhFrame DEF IdleInv
  <2>3. JrListInv' /\ JrCoverInv' /\ CopiesInv'
    BY <2>1, JrFrame
  <2>4. QED
    BY <1>1, <2>2, <2>3
<1>6. QED
  BY <1>3, <1>4, <1>5

LEMMA DeliveryStep ==
  ASSUME SingleProducer, DeliveryInv, [Next]_vars
  PROVE  DeliveryInv'
<1>1. CASE \E p \in Producers : PublishAppend(p) \/ PublishEnqueue(p)
  BY <1>1, PublishDelivery
<1>2. CASE Jr \/ JrRestart
  BY <1>2, JrReadsDelivery, JrAppendDelivery, JrAppendFailsDelivery, JrMarkDelivery,
     JrMarkFailsDelivery, JrAckDelivery, JrRestartDelivery DEF Jr
<1>3. CASE Dh \/ DhRestart
  BY <1>3, DhDelivery
<1>4. CASE Crash \/ (\E replay \in ReplayModes : Start(replay)) \/ Hydrate
  BY <1>4, ProcessDelivery
<1>5. CASE UNCHANGED vars
  <2> USE <1>5 DEF vars, storeVars, busVars, jrVars, dhVars, sinkVars, historyVars, DeliveryInv
  <2>1. Inv'
    BY InvStep
  <2>2. dhCursor' \in Nat /\ jrCursor' \in Nat /\ dhCursor <= dhCursor' /\ jrCursor <= jrCursor'
        /\ faults' \in Nat /\ faults <= faults'
    BY DEF Inv, TypeOK, BusTypeOK
  <2>3. RingInv' /\ IdleInv' /\ LogInv' /\ DhListInv'
    BY <2>2, RingFrame, LogFrame, DhFrame DEF IdleInv
  <2>4. JrListInv' /\ JrCoverInv' /\ CopiesInv'
    BY <2>2, JrFrame
  <2>5. QED
    BY <2>1, <2>3, <2>4
<1>6. QED
  BY <1>1, <1>2, <1>3, <1>4, <1>5 DEF Next

-----------------------------------------------------------------------------
(* What one producer's pipeline delivers *)

LEMMA DeliveryHolds ==
  ASSUME SingleProducer
  PROVE  Spec => []DeliveryInv
<1>1. Init => DeliveryInv
  BY InitDelivery
<1>2. DeliveryInv /\ [Next]_vars => DeliveryInv'
  BY DeliveryStep
<1>3. QED
  BY <1>1, <1>2, PTL DEF Spec

\* The commit mark passes no batch that the journal lacks, but one whose append
\* raised: consumers.py acks and commits an envelope only after appending it, and the
\* pages of the store and the drains of the ring skip nothing.
THEOREM CommitsCovered ==
  ASSUME SingleProducer
  PROVE  Spec => []CommitCoversJournal
<1>1. DeliveryInv => CommitCoversJournal
  BY DEF DeliveryInv, JrCoverInv, JrDone, CommitCoversJournal
<1>2. QED
  BY <1>1, DeliveryHolds, PTL

\* What retention has pruned is committed and in the journal, or its append raised: a
\* crash at any point, in any combination with calls that raise, loses nothing.
THEOREM NothingLost ==
  ASSUME SingleProducer
  PROVE  Spec => []NothingLostFromLog
<1>1. DeliveryInv => NothingLostFromLog
  BY DEF DeliveryInv, LogInv, JrCoverInv, JrDone, NothingLostFromLog, Issued, Inv, TypeOK,
     StoreTypeOK
<1>2. QED
  BY <1>1, DeliveryHolds, PTL

\* Every copy of a batch in the journal but the first is the work of a call that
\* raised or of a crash: reading the store first and the ring second, in pages, and
\* restarting the consumer thread never hand it over twice.
THEOREM CopiesArePaidFor ==
  ASSUME SingleProducer
  PROVE  Spec => []DuplicatesNeedFaults
<1>1. DeliveryInv => DuplicatesNeedFaults
  <2> SUFFICES ASSUME DeliveryInv, NEW b \in Batches
               PROVE  journal[b] <= 1 + faults + crashes
    BY DEF DuplicatesNeedFaults
  <2>1. journal[b] \in Nat /\ faults \in Nat /\ crashes \in Nat
    BY DEF DeliveryInv, Inv, TypeOK
  <2>2. CASE MayComeAgain(b)
    BY <2>1, <2>2 DEF DeliveryInv, CopiesInv
  <2>3. CASE ~MayComeAgain(b)
    BY <2>1, <2>3 DEF DeliveryInv, CopiesInv
  <2>4. QED
    BY <2>2, <2>3
<1>2. QED
  BY <1>1, DeliveryHolds, PTL

\* The DH cursor passes nothing published since the start that DH neither holds nor
\* failed to write, whatever the ring evicts and retention prunes meanwhile.
THEOREM DhSkipsNothing ==
  ASSUME SingleProducer
  PROVE  Spec => []DhHandlesNew
<1>1. DeliveryInv => DhHandlesNew
  BY DEF DeliveryInv, DhListInv, DhDone, DhHandlesNew
<1>2. QED
  BY <1>1, DeliveryHolds, PTL

-----------------------------------------------------------------------------
(* The refinement of OrderedBus *)

LEMMA InitRefines == Init => Bus!Init
<1> SUFFICES ASSUME Init PROVE Bus!Init
  OBVIOUS
<1>1. DhWritten = {} /\ Journaled = {}
  BY DEF Init, DhWritten, Journaled
<1>2. nextBatch = 1 /\ dhFailed = {} /\ jrFailed = {} /\ dhBase = 0
  BY DEF Init, StoreInit
<1>3. QED
  BY <1>1, <1>2 DEF Bus!Init

\* The abstract state, as a step sees it.
LEMMA BusUnchanged ==
  ASSUME UNCHANGED <<nextBatch, dhLog, journal, dhFailed, jrFailed, dhBase>>
  PROVE  UNCHANGED Bus!abstractVars
BY DEF Bus!abstractVars, DhWritten, Journaled

LEMMA StepRefines ==
  ASSUME SingleProducer, DeliveryInv, [Next]_vars
  PROVE  [Bus!Next]_(Bus!abstractVars)
<1> USE DEF DeliveryInv
<1> DEFINE got == [dh |-> DhWritten, journal |-> Journaled]
           gaveUp == [dh |-> dhFailed, journal |-> jrFailed]
           floor == [dh |-> dhBase, journal |-> 0]
<1>0. nextBatch \in Nat /\ dhBase \in Nat
  BY DEF Inv, TypeOK, StoreTypeOK
<1>1. CASE \E p \in Producers : PublishAppend(p)
  <2>1. /\ nextBatch' = nextBatch + 1
        /\ UNCHANGED <<dhLog, journal, dhFailed, jrFailed, dhBase>>
    BY <1>1 DEF PublishAppend, StoreAppend, sinkVars, historyVars
  <2>2. UNCHANGED <<got, gaveUp, floor>>
    BY <2>1 DEF DhWritten, Journaled
  <2>3. Bus!Publish
    BY <1>0, <2>1, <2>2 DEF Bus!Publish
  <2>4. QED
    BY <2>3 DEF Bus!Next
<1>2. CASE JrAppend
  <2>1. PICK e \in jrEnvs : /\ IsHead(e, jrEnvs)
                            /\ journal' = [journal EXCEPT ![e.id] = @ + 1]
    BY <1>2 DEF JrAppend
  <2>2. UNCHANGED <<nextBatch, dhLog, dhFailed, jrFailed, dhBase>>
    BY <1>2 DEF JrAppend, historyVars, storeVars
  <2>3. /\ e.id \in 1 .. nextBatch - 1 /\ e.id \in Batches
        /\ \A b \in 1 .. e.id - 1 : b \in JrDone
    <3>1. JrDone \subseteq JrDone \union {e.id} /\ e.id \in JrDone \union {e.id}
      OBVIOUS
    <3>2. /\ e.id \in Nat \ {0} /\ e.id \in Batches /\ e.id < nextBatch
          /\ \A b \in 1 .. e.id - 1 : b \in JrDone
      BY <2>1, <3>1, JrHead
    <3>3. QED
      BY <1>0, <3>2
  <2>4. Journaled' = Journaled \union {e.id}
    <3>1. /\ journal'[e.id] = journal[e.id] + 1 /\ journal[e.id] \in Nat
          /\ \A b \in Batches \ {e.id} : journal'[b] = journal[b]
      BY <2>1, <2>3 DEF Inv, TypeOK
    <3>2. QED
      BY <2>3, <3>1 DEF Journaled
  <2>5. DhWritten' = DhWritten
    BY <2>2 DEF DhWritten
  <2>6. Bus!ReadyFor("journal", e.id)
    BY <2>3 DEF Bus!ReadyFor, JrDone
  <2>7. got' = [got EXCEPT !["journal"] = @ \union {e.id}]
    BY <2>4, <2>5
  <2>8. Bus!Deliver("journal")
    BY <2>2, <2>3, <2>6, <2>7 DEF Bus!Deliver
  <2>9. QED
    BY <2>8 DEF Bus!Next
<1>3. CASE JrAppendFails
  <2>1. PICK e \in jrEnvs : /\ IsHead(e, jrEnvs)
                            /\ jrFailed' = jrFailed \union {e.id}
    BY <1>3 DEF JrAppendFails
  <2>2. UNCHANGED <<nextBatch, dhLog, journal, dhFailed, dhBase>>
    BY <1>3 DEF JrAppendFails, sinkVars, storeVars
  <2>3. /\ e.id \in 1 .. nextBatch - 1
        /\ \A b \in 1 .. e.id - 1 : b \in JrDone
    <3>1. JrDone \subseteq JrDone \union {e.id} /\ e.id \in JrDone \union {e.id}
      OBVIOUS
    <3>2. /\ e.id \in Nat \ {0} /\ e.id < nextBatch
          /\ \A b \in 1 .. e.id - 1 : b \in JrDone
      BY <2>1, <3>1, JrHead
    <3>3. QED
      BY <1>0, <3>2
  <2>4. DhWritten' = DhWritten /\ Journaled' = Journaled
    BY <2>2 DEF DhWritten, Journaled
  <2>5. Bus!ReadyFor("journal", e.id)
    BY <2>3 DEF Bus!ReadyFor, JrDone
  <2>6. gaveUp' = [gaveUp EXCEPT !["journal"] = @ \union {e.id}]
    BY <2>1, <2>2
  <2>7. Bus!GiveUp("journal")
    BY <2>2, <2>3, <2>4, <2>5, <2>6 DEF Bus!GiveUp
  <2>8. QED
    BY <2>7 DEF Bus!Next
<1>4. CASE DhWrite
  <2>1. PICK e \in dhEnvs : /\ IsHead(e, dhEnvs)
                            /\ dhLog' = Append(dhLog, e.id)
    BY <1>4 DEF DhWrite
  <2>2. UNCHANGED <<nextBatch, journal, dhFailed, jrFailed, dhBase>>
    BY <1>4 DEF DhWrite, historyVars, storeVars
  <2>3. /\ e.id \in 1 .. nextBatch - 1
        /\ \A b \in dhBase + 1 .. e.id - 1 : b \in DhDone
    <3>1. DhDone \subseteq DhDone \union {e.id} /\ e.id \in DhDone \union {e.id}
      OBVIOUS
    <3>2. QED
      BY <2>1, <3>1, DhHead
  <2>4. DhWritten' = DhWritten \union {e.id}
    <3>1. dhLog \in Seq(Nat) /\ e.id \in Nat
      BY <2>3 DEF Inv, TypeOK
    <3>2. QED
      BY <2>1, <3>1 DEF DhWritten
  <2>5. Journaled' = Journaled
    BY <2>2 DEF Journaled
  <2>6. Bus!ReadyFor("dh", e.id)
    BY <2>3 DEF Bus!ReadyFor, DhDone
  <2>7. got' = [got EXCEPT !["dh"] = @ \union {e.id}]
    BY <2>4, <2>5
  <2>8. Bus!Deliver("dh")
    BY <2>2, <2>3, <2>6, <2>7 DEF Bus!Deliver
  <2>9. QED
    BY <2>8 DEF Bus!Next
<1>5. CASE DhWriteFails
  <2>1. PICK e \in dhEnvs : /\ IsHead(e, dhEnvs)
                            /\ dhFailed' = dhFailed \union {e.id}
    BY <1>5 DEF DhWriteFails
  <2>2. UNCHANGED <<nextBatch, journal, dhLog, jrFailed, dhBase>>
    BY <1>5 DEF DhWriteFails, sinkVars, storeVars
  <2>3. /\ e.id \in 1 .. nextBatch - 1
        /\ \A b \in dhBase + 1 .. e.id - 1 : b \in DhDone
    <3>1. DhDone \subseteq DhDone \union {e.id} /\ e.id \in DhDone \union {e.id}
      OBVIOUS
    <3>2. QED
      BY <2>1, <3>1, DhHead
  <2>4. DhWritten' = DhWritten /\ Journaled' = Journaled
    BY <2>2 DEF DhWritten, Journaled
  <2>5. Bus!ReadyFor("dh", e.id)
    BY <2>3 DEF Bus!ReadyFor, DhDone
  <2>6. gaveUp' = [gaveUp EXCEPT !["dh"] = @ \union {e.id}]
    BY <2>1, <2>2
  <2>7. Bus!GiveUp("dh")
    BY <2>2, <2>3, <2>4, <2>5, <2>6 DEF Bus!GiveUp
  <2>8. QED
    BY <2>7 DEF Bus!Next
<1>6. CASE Crash
  <2>1. /\ UNCHANGED <<nextBatch, journal, jrFailed>>
        /\ dhLog' = <<>> /\ dhFailed' = {} /\ dhBase' = nextBatch - 1
    BY <1>6 DEF Crash, storeVars
  <2>2. DhWritten' = {} /\ Journaled' = Journaled
    BY <2>1 DEF DhWritten, Journaled
  <2>3. got' = [c \in {"dh", "journal"} |-> IF c \in {"dh"} THEN {} ELSE got[c]]
    BY <2>2
  <2>4. gaveUp' = [c \in {"dh", "journal"} |-> IF c \in {"dh"} THEN {} ELSE gaveUp[c]]
    <3>1. gaveUp' = [dh |-> {}, journal |-> jrFailed]
      BY <2>1
    <3>2. [c \in {"dh", "journal"} |-> IF c \in {"dh"} THEN {} ELSE gaveUp[c]]
            = [dh |-> {}, journal |-> jrFailed]
      OBVIOUS
    <3>3. QED
      BY <3>1, <3>2
  <2>5. floor' = [c \in {"dh", "journal"} |->
                    IF c \in {"dh"} THEN nextBatch - 1 ELSE floor[c]]
    <3>1. floor' = [dh |-> nextBatch - 1, journal |-> 0]
      BY <2>1
    <3>2. [c \in {"dh", "journal"} |->
             IF c \in {"dh"} THEN nextBatch - 1 ELSE floor[c]]
            = [dh |-> nextBatch - 1, journal |-> 0]
      OBVIOUS
    <3>3. QED
      BY <3>1, <3>2
  <2>6. Bus!Restart
    BY <2>1, <2>3, <2>4, <2>5 DEF Bus!Restart
  <2>7. QED
    BY <2>6 DEF Bus!Next
<1>7. CASE \E replay \in ReplayModes : Start(replay)
  <2>1. UNCHANGED <<nextBatch, dhLog, journal, dhFailed, jrFailed, dhBase>>
    BY <1>7, ReseedKeepsSequence DEF Start, StoreOpen, Inv, TypeOK, historyVars
  <2>2. QED
    BY <2>1, BusUnchanged
<1>8. CASE \/ \E p \in Producers : PublishEnqueue(p)
           \/ JrFetch \/ JrDrain \/ JrMark \/ JrMarkFails \/ JrAck \/ JrRestart
           \/ DhDrain \/ DhAck \/ DhRestart \/ Hydrate \/ UNCHANGED vars
  <2>1. UNCHANGED <<nextBatch, dhLog, journal, dhFailed, jrFailed, dhBase>>
    BY <1>8 DEF PublishEnqueue, JrFetch, JrDrain, JrMark, JrMarkFails, JrAck, JrRestart, DhDrain,
       DhAck, DhRestart, Hydrate, vars, storeVars, sinkVars, historyVars, MarkCommitted,
       MarkCommittedPruneFails
  <2>2. QED
    BY <2>1, BusUnchanged
<1>9. QED
  BY <1>1, <1>2, <1>3, <1>4, <1>5, <1>6, <1>7, <1>8 DEF Next, Jr, Dh

\* With one producer the pipeline is an ordered bus: each sink is handed a batch only
\* after every earlier one it was promised, except those whose write raised, across
\* eviction, the fallback from ring to store, paging, crashes and restarts.
THEOREM PipelineIsOrderedBus ==
  ASSUME SingleProducer
  PROVE  Spec => ImplementsOrderedBus
<1>1. Init => Bus!Init
  BY InitRefines
<1>2. DeliveryInv /\ [Next]_vars => [Bus!Next]_(Bus!abstractVars)
  BY StepRefines
<1>3. QED
  BY <1>1, <1>2, DeliveryHolds, PTL DEF Spec, ImplementsOrderedBus, Bus!Spec

=============================================================================
