--------------------------- MODULE IngestPipeline ---------------------------
(***************************************************************************)
(* The ingestion pipeline of the feeder server: producers publish on the   *)
(* bus (core/event_bus.py); the journal consumer and the Deephaven (DH)    *)
(* consumer (runtime/consumers.py) drain it, each with its own cursor; the *)
(* store (storage/eventstore_duckdb.py) and the journal                    *)
(* (storage/journal_duckdb.py) are durable, the DH tables and the bus are  *)
(* not; app.py starts everything, FeedManager restarts the consumers.      *)
(*                                                                         *)
(* Threads: each producer, the journal consumer, the DH consumer.  A step  *)
(* is one call on a lock-protected object.  Batches are known by their id. *)
(***************************************************************************)
EXTENDS EventBus, Sequences

CONSTANTS
  Producers,    \* the threads that call publish()
  PageMax,      \* next_from(next_id, 256)
  DrainMax,     \* drain_for_dh / drain_for_journal(1024)
  Faults,       \* the calls that may raise, a subset of FaultKinds
  ReplayModes,  \* the values DEEPFEEDER_REPLAY_ON_START may take
  MaxBatches,   \* bound on the batches published
  MaxFaults,    \* bound on the calls that raise
  MaxCrashes    \* bound on the crashes

FaultKinds == {"dhWrite", "journalAppend", "mark", "prune", "startCursor"}

ASSUME PipelineAssumption ==
  /\ Producers # {}
  /\ PageMax \in Nat \ {0}
  /\ DrainMax \in Nat \ {0}
  /\ Faults \subseteq FaultKinds
  /\ ReplayModes \subseteq BOOLEAN
  /\ ReplayModes # {}
  /\ MaxBatches \in Nat
  /\ MaxFaults \in Nat
  /\ MaxCrashes \in Nat

VARIABLES
  phase,       \* of the process: "running", "hydrating" (warm replay), "down"
  publishing,  \* per producer: the id appended and not yet in the ring, 0 if none
  jrPc,        \* journal consumer: "fetch", "drain", "append", "mark", "ack"
  jrEnvs,      \* its list of envelopes still to handle
  jrNext,      \* next_id
  jrLast,      \* last_bid, 0 for None
  dhPc,        \* DH consumer: "drain", "write", "ack"
  dhEnvs,      \* its list of envelopes still to write
  dhLast,      \* last, -1 before the first success
  journal,     \* table journal_hot: how many copies of each batch's rows it holds
  dhMark,      \* watermark "dh_consumer:cursor", 0 when absent
  dhLog,       \* batches written to DH since the start, in order
  dhBase,      \* history: the newest batch issued before the last crash
  dhFailed,    \* history: batches whose write to DH raised since the start
  jrFailed,    \* history: batches whose append to the journal ever raised
  faults,      \* calls that raised so far
  crashes      \* crashes so far

jrVars == <<jrPc, jrEnvs, jrNext, jrLast>>
dhVars == <<dhPc, dhEnvs, dhLast>>
sinkVars == <<journal, dhMark, dhLog>>
historyVars == <<dhBase, dhFailed, jrFailed>>
vars == <<storeVars, busVars, phase, publishing, jrVars, dhVars, sinkVars,
          historyVars, faults, crashes>>

Batches == 1 .. MaxBatches

TypeOK ==
  /\ StoreTypeOK
  /\ BusTypeOK
  /\ phase \in {"running", "hydrating", "down"}
  /\ publishing \in [Producers -> Nat]
  /\ jrPc \in {"fetch", "drain", "append", "mark", "ack"}
  /\ jrEnvs \subseteq Entry
  /\ jrNext \in Nat
  /\ jrLast \in Nat
  /\ dhPc \in {"drain", "write", "ack"}
  /\ dhEnvs \subseteq Entry
  /\ dhLast \in Nat \union {-1}
  /\ journal \in [Batches -> Nat]
  /\ dhMark \in Nat
  /\ dhLog \in Seq(Nat)
  /\ dhBase \in Nat
  /\ dhFailed \subseteq Nat
  /\ jrFailed \subseteq Nat
  /\ faults \in 0 .. MaxFaults
  /\ crashes \in 0 .. MaxCrashes

-----------------------------------------------------------------------------

\* The envelope a consumer's loop handles next: e is the oldest of its list.
IsHead(e, envs) == e \in envs /\ \A x \in envs : e.at <= x.at

Init ==
  /\ StoreInit
  /\ BusInit
  /\ publishing = [p \in Producers |-> 0]
  /\ jrPc = "fetch" /\ jrEnvs = {} /\ jrLast = 0
  /\ dhPc = "drain" /\ dhEnvs = {} /\ dhLast = -1
  /\ phase = "running"
  /\ jrNext = 1
  /\ journal = [b \in Batches |-> 0]
  /\ dhMark = 0
  /\ dhLog = <<>>
  /\ dhBase = 0 /\ dhFailed = {} /\ jrFailed = {}
  /\ faults = 0 /\ crashes = 0

\* Mutants of JrStart: the end of the log, the committed batch itself.
JrStartAtTail == nextBatch
JrStartAtCommitted == committed

\* Where journal_consumer_loop starts reading the store.
JrStart == committed + 1

\* One call of the kind raises.
Raise(kind) ==
  /\ kind \in Faults
  /\ faults < MaxFaults
  /\ faults' = faults + 1

-----------------------------------------------------------------------------
(* Producers: publish() *)

PublishAppend(p) ==
  /\ phase = "running"
  /\ publishing[p] = 0
  /\ nextBatch <= MaxBatches
  /\ StoreAppend
  /\ publishing' = [publishing EXCEPT ![p] = nextBatch]
  /\ UNCHANGED <<busVars, phase, jrVars, dhVars, sinkVars, historyVars, faults, crashes>>

PublishEnqueue(p) ==
  /\ publishing[p] # 0
  /\ Enqueue(publishing[p])
  /\ publishing' = [publishing EXCEPT ![p] = 0]
  /\ UNCHANGED <<storeVars, phase, jrVars, dhVars, sinkVars, historyVars, faults, crashes>>

-----------------------------------------------------------------------------
(* The journal consumer: journal_consumer_loop *)

\* 1) persisted pending envelopes first.
JrFetch ==
  /\ phase = "running"
  /\ jrPc = "fetch"
  /\ jrEnvs' = AsEntries(NextFrom(jrNext, PageMax))
  /\ jrLast' = 0
  /\ jrPc' = IF jrEnvs' = {} THEN "drain" ELSE "append"
  /\ UNCHANGED <<storeVars, busVars, phase, publishing, jrNext, dhVars, sinkVars,
                 historyVars, faults, crashes>>

\* 2) nothing stored: drain the live bus; on a timeout go round the loop.
JrDrain ==
  /\ jrPc = "drain"
  /\ jrEnvs' = Drained(jrCursor, DrainMax)
  /\ jrPc' = IF jrEnvs' = {} THEN "fetch" ELSE "append"
  /\ UNCHANGED <<storeVars, busVars, phase, publishing, jrNext, jrLast, dhVars,
                 sinkVars, historyVars, faults, crashes>>

JrAppend ==
  /\ jrPc = "append"
  /\ \E e \in jrEnvs :
       /\ IsHead(e, jrEnvs)
       /\ journal' = [journal EXCEPT ![e.id] = @ + 1]
  /\ jrPc' = "mark"
  /\ UNCHANGED <<storeVars, busVars, phase, publishing, jrEnvs, jrNext, jrLast,
                 dhVars, dhMark, dhLog, historyVars, faults, crashes>>

\* The state after the loop leaves the envelopes in `rest` to handle.
JrContinue(rest) ==
  /\ jrEnvs' = rest
  /\ jrPc' = IF rest = {} THEN "ack" ELSE "append"

\* append_envelope raised and was rolled back: `continue` with the next envelope.
JrAppendFails ==
  /\ jrPc = "append"
  /\ Raise("journalAppend")
  /\ \E e \in jrEnvs :
       /\ IsHead(e, jrEnvs)
       /\ JrContinue(jrEnvs \ {e})
       /\ jrFailed' = jrFailed \union {e.id}
  /\ UNCHANGED <<storeVars, busVars, phase, publishing, jrNext, jrLast, dhVars,
                 sinkVars, dhBase, dhFailed, crashes>>

\* A mutant of JrMark: next_id is committed in place of the batch id.
JrMarkNextId ==
  /\ jrPc = "mark"
  /\ \E e \in jrEnvs :
       /\ IsHead(e, jrEnvs)
       /\ MarkCommitted(e.id + 1)
       /\ jrNext' = e.id + 1
       /\ jrLast' = e.id
       /\ JrContinue(jrEnvs \ {e})
  /\ UNCHANGED <<busVars, phase, publishing, dhVars, sinkVars, historyVars,
                 faults, crashes>>

JrMark ==
  /\ jrPc = "mark"
  /\ \E e \in jrEnvs :
       /\ IsHead(e, jrEnvs)
       /\ MarkCommitted(e.id)
       /\ jrNext' = e.id + 1
       /\ jrLast' = e.id
       /\ JrContinue(jrEnvs \ {e})
  /\ UNCHANGED <<busVars, phase, publishing, dhVars, sinkVars, historyVars,
                 faults, crashes>>

\* mark_committed raised, in its UPDATE or in the prune after it: `break`.
JrMarkFails ==
  /\ jrPc = "mark"
  /\ \/ Raise("mark") /\ UNCHANGED storeVars
     \/ /\ Raise("prune")
        /\ \E e \in jrEnvs : IsHead(e, jrEnvs) /\ MarkCommittedPruneFails(e.id)
  /\ JrContinue({})
  /\ UNCHANGED <<busVars, phase, publishing, jrNext, jrLast, dhVars, sinkVars,
                 historyVars, crashes>>

JrAck ==
  /\ jrPc = "ack"
  /\ IF jrLast # 0 THEN AckJournal(jrLast) ELSE UNCHANGED busVars
  /\ jrPc' = "fetch"
  /\ UNCHANGED <<storeVars, phase, publishing, jrEnvs, jrNext, jrLast, dhVars,
                 sinkVars, historyVars, faults, crashes>>

\* FeedManager stops the consumer at its loop head and starts a new one; when
\* reading last_committed raises, the new one starts at the first batch.
JrRestart ==
  /\ phase = "running"
  /\ jrPc = "fetch"
  /\ \/ jrNext' = JrStart /\ UNCHANGED faults
     \/ jrNext' = 1 /\ Raise("startCursor")
  /\ UNCHANGED <<storeVars, busVars, phase, publishing, jrPc, jrEnvs, jrLast, dhVars,
                 sinkVars, historyVars, crashes>>

-----------------------------------------------------------------------------
(* The DH consumer: dh_consumer_loop *)

DhDrain ==
  /\ phase = "running"
  /\ dhPc = "drain"
  /\ dhEnvs' = Drained(dhCursor, DrainMax)
  /\ dhEnvs' # {}
  /\ dhPc' = "write"
  /\ UNCHANGED <<storeVars, busVars, phase, publishing, jrVars, dhLast, sinkVars,
                 historyVars, faults, crashes>>

DhContinue(rest) ==
  /\ dhEnvs' = rest
  /\ dhPc' = IF rest = {} THEN "ack" ELSE "write"

DhWrite ==
  /\ dhPc = "write"
  /\ \E e \in dhEnvs :
       /\ IsHead(e, dhEnvs)
       /\ dhLog' = Append(dhLog, e.id)
       /\ dhLast' = e.id
       /\ DhContinue(dhEnvs \ {e})
  /\ UNCHANGED <<storeVars, busVars, phase, publishing, jrVars, journal, dhMark,
                 historyVars, faults, crashes>>

\* write_envelope raised: logged, and `continue` with the next envelope.
DhWriteFails ==
  /\ dhPc = "write"
  /\ Raise("dhWrite")
  /\ \E e \in dhEnvs :
       /\ IsHead(e, dhEnvs)
       /\ DhContinue(dhEnvs \ {e})
       /\ dhFailed' = dhFailed \union {e.id}
  /\ UNCHANGED <<storeVars, busVars, phase, publishing, jrVars, dhLast, sinkVars,
                 dhBase, jrFailed, crashes>>

DhAck ==
  /\ dhPc = "ack"
  /\ IF dhLast >= 0 THEN AckDh(dhLast) ELSE UNCHANGED busVars
  /\ dhPc' = "drain"
  /\ UNCHANGED <<storeVars, phase, publishing, jrVars, dhEnvs, dhLast, sinkVars,
                 historyVars, faults, crashes>>

\* FeedManager stops the consumer at its loop head and starts a new one.
DhRestart ==
  /\ phase = "running"
  /\ dhPc = "drain"
  /\ dhLast' = -1
  /\ UNCHANGED <<storeVars, busVars, phase, publishing, jrVars, dhPc, dhEnvs, sinkVars,
                 historyVars, faults, crashes>>

-----------------------------------------------------------------------------
(* The process: crash and app.py startup *)

\* Everything in memory is gone, the DH tables included.
Crash ==
  /\ phase # "down"
  /\ crashes < MaxCrashes
  /\ crashes' = crashes + 1
  /\ phase' = "down"
  /\ publishing' = [p \in Producers |-> 0]
  /\ jrPc' = "fetch" /\ jrEnvs' = {} /\ jrLast' = 0
  /\ dhPc' = "drain" /\ dhEnvs' = {} /\ dhLast' = -1
  /\ jrNext' = 1
  /\ buf' = {} /\ arrivals' = 0 /\ dhCursor' = 0 /\ jrCursor' = 0
  /\ dhLog' = <<>> /\ dhBase' = nextBatch - 1 /\ dhFailed' = {}
  /\ UNCHANGED <<storeVars, journal, dhMark, jrFailed, faults>>

\* Start after a crash.  Without warm replay the watermark is left as it is,
\* and an absent one reads as 0.  With it, the watermark is set to the committed
\* tail once the hydration returns; it returns only when the journal holds no
\* row in the replay window (JournalPaging shows why), and else goes on for ever.
Start(replay) ==
  /\ phase = "down"
  /\ StoreOpen
  /\ \/ ~replay /\ phase' = "running" /\ dhMark' = dhMark
     \/ replay /\ phase' = "running" /\ dhMark' = committed
     \/ /\ replay /\ phase' = "hydrating" /\ dhMark' = dhMark
        /\ \E b \in Batches : journal[b] > 0
  /\ dhCursor' = dhMark'
  /\ jrCursor' = committed
  /\ jrNext' = JrStart
  /\ UNCHANGED <<buf, arrivals, publishing, jrPc, jrEnvs, jrLast, dhVars, journal,
                 dhLog, historyVars, faults, crashes>>

Hydrate ==
  /\ phase = "hydrating"
  /\ UNCHANGED vars

-----------------------------------------------------------------------------

Jr == JrFetch \/ JrDrain \/ JrAppend \/ JrAppendFails \/ JrMark \/ JrMarkFails \/ JrAck
Dh == DhDrain \/ DhWrite \/ DhWriteFails \/ DhAck

Next ==
  \/ \E p \in Producers : PublishAppend(p) \/ PublishEnqueue(p)
  \/ Jr \/ JrRestart
  \/ Dh \/ DhRestart
  \/ Crash
  \/ \E replay \in ReplayModes : Start(replay)
  \/ Hydrate

Spec == Init /\ [][Next]_vars

\* The consumer threads keep running, a started publish() returns and a stopped
\* process is started again.  Nothing obliges a producer to publish.
Fairness ==
  /\ WF_vars(Jr)
  /\ WF_vars(Dh)
  /\ \A p \in Producers : WF_vars(PublishEnqueue(p))
  /\ WF_vars(\E replay \in ReplayModes : Start(replay))

FairSpec == Spec /\ Fairness

-----------------------------------------------------------------------------
(* Correctness *)

DhWritten == {dhLog[i] : i \in DOMAIN dhLog}
Journaled == {b \in Batches : journal[b] > 0}

\* Nothing in memory or on disk names a batch that the sequence has yet to issue:
\* neither a thread, nor the ring, a cursor, the watermark or a sink.
IdsIssued ==
  /\ nextBatch <= MaxBatches + 1
  /\ \A p \in Producers : publishing[p] < nextBatch
  /\ \A e \in buf \union jrEnvs \union dhEnvs : e.id \in Issued
  /\ jrLast < nextBatch /\ dhLast < nextBatch
  /\ dhCursor < nextBatch /\ jrCursor < nextBatch /\ dhMark < nextBatch
  /\ \A b \in Journaled : b < nextBatch
  /\ \A i \in DOMAIN dhLog : dhLog[i] < nextBatch

\* The commit mark of the store (and with it what a restart skips) never passes
\* a batch that the journal lacks, except one whose own append raised: consumers.py
\* commits an envelope only after appending it, and store and bus hand envelopes
\* over in the order of their ids.  One producer only: see the README.
CommitCoversJournal ==
  \A b \in 1 .. committed : b \in Journaled \union jrFailed

\* Until a batch is journaled (or its append raised) and committed, the log
\* still holds it, whatever was pruned: a crash at any point can lose nothing.
NothingLostFromLog ==
  \A b \in Issued :
    b \in wal \/ (b <= committed /\ b \in Journaled \union jrFailed)

\* The journal gets a second copy of a batch's rows only when a crash or a call
\* that raised came between the append and the commit, never from polling,
\* paging, bus fallback or a restart of the consumer thread.
DuplicatesNeedFaults ==
  \A b \in Batches : journal[b] <= 1 + faults + crashes

\* The DH cursor passes a batch published in this process life only when it was
\* written or its write raised: eviction, the fallback to the store and the
\* restart of the consumer never make DH skip one.
DhHandlesNew ==
  \A b \in dhBase + 1 .. dhCursor : b \in DhWritten \union dhFailed

\* The id a publish() is given was never seen by a sink nor passed by a cursor: the
\* batch is new to everyone, although the sequence is rebuilt at every start from
\* a log that retention has pruned.
FreshBatch ==
  [][\A p \in Producers :
       publishing'[p] > publishing[p] =>
         /\ publishing'[p] \notin Journaled \union DhWritten
         /\ publishing'[p] > committed
         /\ publishing'[p] > dhCursor /\ publishing'[p] > jrCursor]_vars

\* With both sinks mapped to what they hold, the pipeline hands out the log in
\* order (module OrderedBus).
Bus == INSTANCE OrderedBus WITH
  Consumers <- {"dh", "journal"},
  Volatile <- {"dh"},
  issued <- nextBatch - 1,
  got <- [dh |-> DhWritten, journal |-> Journaled],
  gaveUp <- [dh |-> dhFailed, journal |-> jrFailed],
  floor <- [dh |-> dhBase, journal |-> 0]

ImplementsOrderedBus == Bus!Spec

\* Whatever raises or crashes, every published batch is eventually committed:
\* the journal consumer reads the log first, so it does not even depend on the
\* producer reaching the ring.
EventuallyCommitted ==
  \A b \in Batches : (b \in Issued) ~> (committed >= b)

\* Every batch published in this process life eventually reaches DH or raises on
\* the way, unless the process dies first.
EventuallyInDh ==
  \A b \in Batches :
    (b \in Issued /\ b > dhBase) ~> (b \in DhWritten \union dhFailed \/ b <= dhBase)

=============================================================================
