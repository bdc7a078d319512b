---------------------------- MODULE GapBackfill ----------------------------
(***************************************************************************)
(* Recovery of missed Binance trades: the gap monitor                      *)
(* (runtime/gap_monitors/binance_gap_monitor.py) scans the journal for     *)
(* holes in the trade ids, the planner (runtime/backfill/planner.py) keeps *)
(* them as tasks in memory, and backfill producers                         *)
(* (providers/binance/producer_backfill.py) fetch them over REST and       *)
(* publish them on the bus the live trades travel on.                      *)
(*                                                                         *)
(* Threads: the live producer, another provider's producer, the backfill   *)
(* workers, the journal consumer, the monitor.  One symbol; a batch is the *)
(* set of its trade ids.  What the bus and the journal consumer do is      *)
(* summed up from IngestPipeline: a publish numbers the batch and then     *)
(* enters it in the ring, the journal receives ring order, and what was    *)
(* published before a crash is journaled after it.                         *)
(***************************************************************************)
EXTENDS Integers, Sequences, FiniteSets, Functions

CONSTANTS
  Workers,        \* the backfill producers
  MaxId,          \* bound on the trade ids the exchange issues
  Ts,             \* the timestamp of each trade
  MaxIdsPerTask,  \* max_ids_per_task
  PageSize,       \* page_size
  FetchLimit,     \* next_committed_from(next_batch, 256)
  MaxLive,        \* bound on the rows of a live batch
  MaxOther,       \* bound on the batches of other providers
  MaxFaults,      \* bound on the calls that fail
  MaxStops,       \* bound on the calls of stop() on a worker
  MaxCrashes      \* bound on the crashes

Ids == 1 .. MaxId

ASSUME GapAssumption ==
  /\ Workers # {} /\ Workers \intersect {"live", "other"} = {}
  /\ {MaxId, MaxIdsPerTask, PageSize, FetchLimit, MaxLive} \subseteq Nat \ {0}
  /\ {MaxOther, MaxFaults, MaxStops, MaxCrashes} \subseteq Nat
  \* Binance numbers the trades of a symbol in the order of their time.
  /\ Ts \in [Ids -> Nat] /\ \A i, j \in Ids : i < j => Ts[i] <= Ts[j]

VARIABLES
  delivered,  \* history: the ids the stream has delivered
  others,     \* batches other providers published so far
  bids,       \* batch ids issued
  pending,    \* per producer: its batch that has an id and is not journaled yet
  journal,    \* journal_hot: batch id -> the ids of its rows
  mon,        \* the monitor thread: its dictionary entry, its cursor, its list
  wm,         \* its watermarks in the journal: last_seq and batch cursor
  first,      \* history: where the monitor started counting
  queue,      \* the planner's queue of tasks
  work,       \* the workers
  lost,       \* history: the ids the system gave up
  faults, stops, crashes

busVars == <<others, bids, pending, journal>>
monVars == <<mon, wm, first>>
budgets == <<faults, stops, crashes>>
vars == <<delivered, busVars, monVars, queue, work, lost, budgets>>

Publishers == Workers \union {"live", "other"}
Task == [lo : Ids, hi : Ids]
None == [bid |-> 0, ids |-> {}]
Off == [pc |-> "off", cur |-> 0, end |-> 0, stop |-> FALSE]

TypeOK ==
  /\ delivered \subseteq Ids
  /\ others \in 0 .. MaxOther
  /\ bids \in Nat
  /\ pending \in [Publishers -> [bid : 0 .. bids, ids : SUBSET Ids]]
  /\ DOMAIN journal \subseteq 1 .. bids
  /\ \A b \in DOMAIN journal : journal[b] \subseteq Ids
  /\ mon \in [seq : 0 .. MaxId, next : 1 .. bids + 1, rows : Seq(Ids), upTo : 0 .. bids,
              planned : BOOLEAN]
  /\ wm \in [seq : 0 .. MaxId, batch : 0 .. bids]
  /\ first \in 0 .. MaxId
  /\ queue \in Seq(Task)
  /\ work \in [Workers -> [pc : {"off", "idle", "busy", "publish"}, cur : 0 .. MaxId + 1,
                           end : 0 .. MaxId, stop : BOOLEAN]]
  /\ lost \subseteq Ids
  /\ faults \in 0 .. MaxFaults /\ stops \in 0 .. MaxStops /\ crashes \in 0 .. MaxCrashes

Greatest(S) == CHOOSE x \in S \union {0} : \A y \in S : y <= x

-----------------------------------------------------------------------------
(* The bus and the journal, as IngestPipeline describes them *)

\* publish(): the store numbers the batch.
Numbered(p, ids) ==
  /\ pending[p] = None
  /\ bids' = bids + 1
  /\ pending' = [pending EXCEPT ![p] = [bid |-> bids + 1, ids |-> ids]]

\* The stream delivers some of the trades made since its last batch; those it
\* leaves out (a reconnection, a batch that was never published) are missed.
LiveBatch ==
  \E ids \in SUBSET (Greatest(delivered) + 1 .. MaxId) \ {{}} :
    /\ Cardinality(ids) <= MaxLive
    /\ Numbered("live", ids)
    /\ delivered' = delivered \union ids
    /\ UNCHANGED <<others, journal, monVars, queue, work, lost, budgets>>

\* The other providers of the server share the batch ids.
OtherBatch ==
  /\ others < MaxOther
  /\ others' = others + 1
  /\ Numbered("other", {})
  /\ UNCHANGED <<delivered, journal, monVars, queue, work, lost, budgets>>

\* The batch enters the ring and is journaled in that order; publish() of a
\* worker returns, and it goes on after the last id of the page.
Journaled(p) ==
  /\ pending[p] # None
  /\ journal' = [b \in DOMAIN journal \union {pending[p].bid} |->
                   IF b = pending[p].bid THEN pending[p].ids ELSE journal[b]]
  /\ pending' = [pending EXCEPT ![p] = None]
  /\ work' = [w \in Workers |->
                IF w = p /\ work[w].pc = "publish"
                THEN [work[w] EXCEPT !.pc = "busy", !.cur = Greatest(pending[p].ids) + 1]
                ELSE work[w]]
  /\ UNCHANGED <<delivered, others, bids, monVars, queue, lost, budgets>>

-----------------------------------------------------------------------------
(* The monitor: BinanceGapMonitor._run *)

\* A mutant of LastSeq: only the watermark counts.
LastSeqStored == wm.seq

\* _get_last_seq: the dictionary, else the watermark; 0 is None.
LastSeq == IF mon.seq # 0 THEN mon.seq ELSE wm.seq

\* The orders in which a list of batches may be read: batch after batch, and
\* ORDER BY ts_ns, which leaves ties open, within one.
Orders(page) ==
  LET rows == {r \in page \X Ids : r[2] \in journal[r[1]]}
  IN  {s \in [1 .. Cardinality(rows) -> rows] :
         /\ Range(s) = rows
         /\ \A i, j \in DOMAIN s :
              i < j => \/ s[i][1] < s[j][1]
                       \/ s[i][1] = s[j][1] /\ Ts[s[i][2]] <= Ts[s[j][2]]}

\* The first FetchLimit journaled batches from next_batch on.  A batch without
\* Binance rows advances the cursor all the same.
MonFetch ==
  LET from == {b \in DOMAIN journal : b >= mon.next}
      page == {b \in from : Cardinality({c \in from : c < b}) < FetchLimit}
  IN  /\ mon.upTo = 0
      /\ page # {}
      /\ \E s \in Orders(page) :
           mon' = [mon EXCEPT !.rows = [k \in DOMAIN s |-> s[k][2]], !.upTo = Greatest(page)]
      /\ UNCHANGED <<delivered, busVars, wm, first, queue, work, lost, budgets>>

\* add_gap slices an interval into tasks of at most MaxIdsPerTask ids.
Slices(lo, hi) ==
  [k \in 1 .. (hi - lo + MaxIdsPerTask) \div MaxIdsPerTask |->
     LET start == lo + (k - 1) * MaxIdsPerTask
         end == start + MaxIdsPerTask - 1
     IN  [lo |-> start, hi |-> IF end < hi THEN end ELSE hi]]

Row == Head(mon.rows)
InGap == LastSeq # 0 /\ Row > LastSeq + 1

\* A mutant of GapEnd: the last missing id is left out.
GapEndShort == IF Row - 2 > LastSeq THEN Row - 2 ELSE LastSeq + 1

\* gap_end = seq - 1
GapEnd == Row - 1

Plan ==
  /\ mon.rows # <<>> /\ ~mon.planned /\ InGap
  /\ mon' = [mon EXCEPT !.planned = TRUE]
  /\ UNCHANGED <<delivered, busVars, wm, first, work, stops, crashes>>

\* Seq greater than last + 1: the gap goes to the planner, before last_seq moves.
PlanGap ==
  /\ Plan
  /\ queue' = queue \o Slices(LastSeq + 1, GapEnd)
  /\ UNCHANGED <<lost, faults>>

\* add_gap raised: GAP_ENQUEUE_ERR, and the monitor goes on.
PlanFails ==
  /\ Plan
  /\ faults < MaxFaults
  /\ faults' = faults + 1
  /\ lost' = lost \union (LastSeq + 1 .. GapEnd)
  /\ UNCHANGED queue

\* last_seq after the row.
Advanced(last) == IF Row > last THEN Row ELSE last

Advance(last, stored) ==
  /\ mon' = [mon EXCEPT !.seq = Advanced(last), !.rows = Tail(@), !.planned = FALSE]
  /\ wm' = [wm EXCEPT !.seq = stored]
  /\ first' = IF last = 0 THEN Row ELSE first
  /\ UNCHANGED <<delivered, busVars, queue, work, lost, stops, crashes>>

\* The row has been looked at: _set_last_seq, in memory and in the journal.
MonAdvance ==
  /\ mon.rows # <<>> /\ (InGap => mon.planned)
  /\ Advance(LastSeq, Advanced(LastSeq))
  /\ UNCHANGED faults

\* The watermark could not be written: only the dictionary moves.
MonAdvanceUnstored ==
  /\ mon.rows # <<>> /\ (InGap => mon.planned)
  /\ faults < MaxFaults
  /\ faults' = faults + 1
  /\ Advance(LastSeq, wm.seq)

\* The watermark could not be read: the row counts as the first of its symbol.
MonLastUnread ==
  /\ mon.rows # <<>> /\ mon.seq = 0 /\ wm.seq # 0
  /\ ~mon.planned
  /\ faults < MaxFaults
  /\ faults' = faults + 1
  /\ Advance(0, Row)

\* A mutant of NextBatch: the list is taken for a full one.
NextBatchByLimit == mon.next + FetchLimit

\* The batch after the last one of the list.
NextBatch == mon.upTo + 1

\* The list is done: next_batch moves, and the batch cursor is persisted unless
\* the write raises.
MonPersist ==
  /\ mon.rows = <<>> /\ mon.upTo # 0
  /\ mon' = [mon EXCEPT !.next = NextBatch, !.upTo = 0]
  /\ \/ wm' = [wm EXCEPT !.batch = mon.upTo] /\ UNCHANGED faults
     \/ faults < MaxFaults /\ faults' = faults + 1 /\ UNCHANGED wm
  /\ UNCHANGED <<delivered, busVars, first, queue, work, lost, stops, crashes>>

-----------------------------------------------------------------------------
(* The workers: BinanceBackfillProducer *)

Remaining(w) == work[w].cur .. work[w].end
Worker(w, s) == work' = [work EXCEPT ![w] = s]

\* start() returns at once while the old thread is alive, stopped or not.
Start(w) ==
  /\ work[w].pc = "off"
  /\ Worker(w, [Off EXCEPT !.pc = "idle"])
  /\ UNCHANGED <<delivered, busVars, monVars, queue, lost, budgets>>

Stop(w) ==
  /\ work[w].pc # "off" /\ ~work[w].stop
  /\ stops < MaxStops
  /\ stops' = stops + 1
  /\ Worker(w, [work[w] EXCEPT !.stop = TRUE])
  /\ UNCHANGED <<delivered, busVars, monVars, queue, lost, faults, crashes>>

Exit(w) ==
  /\ work[w].pc = "idle" /\ work[w].stop
  /\ Worker(w, Off)
  /\ UNCHANGED <<delivered, busVars, monVars, queue, lost, budgets>>

\* claim_task pops the oldest task.
Claim(w) ==
  /\ work[w].pc = "idle" /\ ~work[w].stop
  /\ queue # <<>>
  /\ Worker(w, [work[w] EXCEPT !.pc = "busy", !.cur = Head(queue).lo, !.end = Head(queue).hi])
  /\ queue' = Tail(queue)
  /\ UNCHANGED <<delivered, busVars, monVars, lost, budgets>>

\* The task is over, done or failed; it is never queued again, and what it had
\* not published is lost.
Leave(w) ==
  /\ Worker(w, [work[w] EXCEPT !.pc = "idle", !.cur = 0, !.end = 0])
  /\ lost' = lost \union Remaining(w)

Fetching(w) == work[w].pc = "busy" /\ ~work[w].stop /\ Remaining(w) # {}

\* limit = min(page_size, end - cur + 1), and rows beyond the task are dropped.
PageEnd(w) ==
  LET last == work[w].cur + PageSize - 1
  IN  IF last < work[w].end THEN last ELSE work[w].end

\* REST returns the page or, with a smaller limit of its own, the start of it.
PagePublish(w) ==
  /\ Fetching(w)
  /\ \E last \in work[w].cur .. PageEnd(w) : Numbered(w, work[w].cur .. last)
  /\ Worker(w, [work[w] EXCEPT !.pc = "publish"])
  /\ UNCHANGED <<delivered, others, journal, monVars, queue, lost, budgets>>

\* Every retry of the request failed and get_trades returned []: the task counts
\* as done.  Or publish() raised: it counts as failed.
PageFails(w) ==
  /\ Fetching(w)
  /\ faults < MaxFaults
  /\ faults' = faults + 1
  /\ Leave(w)
  /\ UNCHANGED <<delivered, busVars, monVars, queue, stops, crashes>>

\* No row of the page is usable: the worker skips past it.
PageStale(w) ==
  /\ Fetching(w)
  /\ faults < MaxFaults
  /\ faults' = faults + 1
  /\ Worker(w, [work[w] EXCEPT !.cur = PageEnd(w) + 1])
  /\ lost' = lost \union (work[w].cur .. PageEnd(w))
  /\ UNCHANGED <<delivered, busVars, monVars, queue, stops, crashes>>

\* A mutant of Finish: a stop request in the middle of a task is waited out.
FinishAtEnd(w) ==
  /\ work[w].pc = "busy" /\ Remaining(w) = {}
  /\ Leave(w)
  /\ UNCHANGED <<delivered, busVars, monVars, queue, budgets>>

\* The end of the task, or a stop request: mark_done either way.
Finish(w) ==
  /\ work[w].pc = "busy" /\ (work[w].stop \/ Remaining(w) = {})
  /\ Leave(w)
  /\ UNCHANGED <<delivered, busVars, monVars, queue, budgets>>

-----------------------------------------------------------------------------

Queued == UNION {queue[k].lo .. queue[k].hi : k \in DOMAIN queue}

\* The ids a worker has claimed and not published; those of a page that publish()
\* has numbered are in pending.
Claimed ==
  (UNION {Remaining(w) : w \in {v \in Workers : work[v].pc = "busy"}}) \union
  (UNION {Greatest(pending[w].ids) + 1 .. work[w].end :
            w \in {v \in Workers : work[v].pc = "publish"}})

\* Everything but the store and the journal is gone.  The monitor starts again
\* at its watermarks: what it had planned below last_seq it will not see again.
Crash ==
  /\ crashes < MaxCrashes
  /\ crashes' = crashes + 1
  /\ mon' = [seq |-> 0, next |-> wm.batch + 1, rows |-> <<>>, upTo |-> 0, planned |-> FALSE]
  /\ queue' = <<>>
  /\ work' = [w \in Workers |-> Off]
  /\ lost' = lost \union ((Queued \union Claimed) \intersect 1 .. wm.seq)
  /\ UNCHANGED <<delivered, busVars, wm, first, faults, stops>>

Init ==
  /\ delivered = {} /\ others = 0 /\ bids = 0
  /\ pending = [p \in Publishers |-> None]
  /\ journal = <<>>
  /\ mon = [seq |-> 0, next |-> 1, rows |-> <<>>, upTo |-> 0, planned |-> FALSE]
  /\ wm = [seq |-> 0, batch |-> 0]
  /\ first = 0
  /\ queue = <<>>
  /\ work = [w \in Workers |-> Off]
  /\ lost = {}
  /\ faults = 0 /\ stops = 0 /\ crashes = 0

Monitor ==
  \/ MonFetch \/ PlanGap \/ PlanFails
  \/ MonAdvance \/ MonAdvanceUnstored \/ MonLastUnread \/ MonPersist

WorkerStep(w) ==
  \/ Start(w) \/ Stop(w) \/ Exit(w) \/ Claim(w)
  \/ PagePublish(w) \/ PageFails(w) \/ PageStale(w) \/ Finish(w)

Next ==
  \/ LiveBatch \/ OtherBatch
  \/ \E p \in Publishers : Journaled(p)
  \/ Monitor
  \/ \E w \in Workers : WorkerStep(w)
  \/ Crash

Spec == Init /\ [][Next]_vars

\* The journal consumer, the monitor and every worker that was started keep
\* running; nobody owes a start, a stop or a live trade.
Fairness ==
  /\ \A p \in Publishers : WF_vars(Journaled(p))
  /\ WF_vars(Monitor)
  /\ \A w \in Workers : WF_vars(Exit(w) \/ Claim(w) \/ PagePublish(w) \/ Finish(w))

FairSpec == Spec /\ Fairness

-----------------------------------------------------------------------------
(* Correctness *)

JournaledIds == UNION {journal[b] : b \in DOMAIN journal}
PendingIds == UNION {pending[p].ids : p \in Publishers}
Passed(i) == first # 0 /\ first <= i /\ i <= LastSeq

\* Every id the monitor has passed is journaled, on its way, planned, being
\* fetched, or was given up by a failure, a stop or a crash: the hand-overs from
\* monitor to planner to worker to bus drop nothing by themselves.
Accounted ==
  \A i \in Ids :
    Passed(i) => i \in JournaledIds \union PendingIds \union Queued \union Claimed \union lost

\* No two tasks, queued or claimed, hold the same id: two workers never fetch the
\* same trade, and no task is planned again while it is open.
TasksDisjoint ==
  LET queued(i) == {k \in DOMAIN queue : i \in queue[k].lo .. queue[k].hi}
      claimed(i) == {w \in Workers :
                       work[w].pc # "off" /\ i \in Remaining(w)}
  IN  \A i \in Ids : Cardinality(queued(i)) + Cardinality(claimed(i)) <= 1

\* Whatever the monitor has passed is in the end journaled or given up, unless no
\* worker is left to fetch it.
EventuallyFilled ==
  []<>\/ \A i \in Ids : Passed(i) => i \in JournaledIds \union lost
      \/ \A w \in Workers : work[w].pc = "off"

=============================================================================
