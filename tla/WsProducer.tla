----------------------------- MODULE WsProducer -----------------------------
(***************************************************************************)
(* A WebSocket producer (providers/binance/producer_ws.py and              *)
(* providers/tradingview/producer_ws.py) under the control of FeedManager, *)
(* with the bus it publishes on and the DH consumer that reads its rows.   *)
(*                                                                         *)
(* Three threads: the controller (start_producer, stop_producer), the      *)
(* worker (_run, and inside run_forever the callbacks) and the DH consumer.*)
(* Rows are numbered in the order they are put into the batch; an envelope *)
(* is known by its place in the log.  The socket library is external.      *)
(*                                                                         *)
(* The two producers differ in what a message does (a trade is a row; a    *)
(* quote first goes through _handle_qsd) and in what they hand to publish: *)
(* a copy of the batch, or the batch itself.                               *)
(***************************************************************************)
EXTENDS Integers, Sequences, SequencesExt

CONSTANTS
  Providers,   \* the producers to choose from
  BatchSize,   \* batch_size
  MaxVolume,   \* bound on the volume a quote reports
  MaxUpdates,  \* bound on the messages
  MaxFaults    \* bound on the publish() calls that raise

ASSUME ProducerAssumption ==
  /\ Providers # {} /\ Providers \subseteq {"binance", "tradingview"}
  /\ BatchSize \in Nat \ {0}
  /\ MaxVolume \in Nat /\ MaxUpdates \in Nat /\ MaxFaults \in Nat

VARIABLES
  provider,  \* which of the two it is
  ctl,       \* the controller: "idle", or in stop(): "flag", "join"
  shown,     \* Alive in the status row of the producer
  pc,        \* the worker: where it is in _run, or "ended"
  forced,    \* the flush under way is the one of the finally block
  stopSet,   \* the stop_event of the worker
  closing,   \* stop() closed the socket that run_forever is serving
  batch,     \* _batch
  quote,     \* _state of the symbol: a price was seen; volume, -1 for None
  stored,    \* the log: the rows of each envelope
  ring,      \* the envelopes in the ring
  dhGot,     \* the rows DH has been given, envelope by envelope
  updates,   \* messages so far
  made,      \* history: how many rows were put into the batch
  lost,      \* history: rows of the batches whose publish raised
  counted,   \* history: the sum of VolDelta over all rows made
  traded,    \* history: the volume traded since the first one reported
  reset,     \* history: a reported volume was below the one before
  died,      \* history: the forced flush raised and ended the worker
  ignored,   \* history: a start() met a worker that had been told to stop
  byAll,     \* the last stop() came from stop_all_producers
  faults

logVars == <<stored, ring, dhGot>>
quoteVars == <<quote, counted, traded, reset>>
ctlVars == <<ctl, shown, ignored, byAll>>
vars == <<provider, ctlVars, pc, forced, stopSet, closing, batch, logVars, updates, made,
          lost, quoteVars, died, faults>>

Connected == {"live", "append", "enqueue", "clear"}

TypeOK ==
  /\ provider \in Providers
  /\ ctl \in {"idle", "flag", "join"} /\ shown \in BOOLEAN
  /\ pc \in {"ended", "check", "open", "dial", "sleep"} \union Connected
  /\ forced \in BOOLEAN /\ stopSet \in BOOLEAN /\ closing \in BOOLEAN
  /\ batch \in Seq(Nat)
  /\ quote \in [priced : BOOLEAN, volume : Nat \union {-1}]
  /\ stored \in Seq(Seq(Nat))
  /\ ring \subseteq Nat
  /\ dhGot \in Seq(Seq(Nat))
  /\ updates \in 0 .. MaxUpdates /\ made \in Nat
  /\ lost \subseteq Nat
  /\ counted \in Nat /\ traded \in Nat /\ reset \in BOOLEAN
  /\ died \in BOOLEAN /\ ignored \in BOOLEAN /\ byAll \in BOOLEAN
  /\ faults \in 0 .. MaxFaults

-----------------------------------------------------------------------------

\* Registered, not started yet.
Init ==
  /\ provider \in Providers
  /\ ctl = "idle" /\ shown = FALSE
  /\ pc = "ended" /\ forced = FALSE /\ stopSet = FALSE /\ closing = FALSE
  /\ batch = <<>>
  /\ quote = [priced |-> FALSE, volume |-> -1]
  /\ stored = <<>> /\ ring = {} /\ dhGot = <<>>
  /\ updates = 0 /\ made = 0 /\ lost = {} /\ faults = 0
  /\ counted = 0 /\ traded = 0 /\ reset = FALSE
  /\ died = FALSE /\ ignored = FALSE /\ byAll = FALSE

-----------------------------------------------------------------------------
(* The controller *)

\* start_producer: a new worker with a new stop_event, unless one is alive.
StartProducer ==
  /\ ctl = "idle"
  /\ shown' = TRUE
  /\ IF pc = "ended"
     THEN /\ pc' = "check" /\ stopSet' = FALSE /\ died' = FALSE /\ ignored' = FALSE
          /\ byAll' = FALSE
     ELSE /\ ignored' = (ignored \/ stopSet)
          /\ UNCHANGED <<pc, stopSet, died, byAll>>
  /\ UNCHANGED <<provider, ctl, forced, closing, batch, logVars, updates, made, lost,
                 quoteVars, faults>>

\* stop_producer or stop_all_producers, stop(): the socket is closed, if run_forever
\* is serving one.  A socket that is assigned but not served yet forgets the close
\* (external).
StopClose(all) ==
  /\ ctl = "idle"
  /\ byAll' = all
  /\ closing' = (closing \/ (pc \in Connected /\ ~forced))
  /\ ctl' = "flag"
  /\ UNCHANGED <<provider, shown, ignored, pc, forced, stopSet, batch, logVars, updates,
                 made, lost, quoteVars, died, faults>>

\* ... then the stop_event is set ...
StopFlag ==
  /\ ctl = "flag"
  /\ stopSet' = TRUE
  /\ ctl' = "join"
  /\ UNCHANGED <<provider, shown, ignored, byAll, pc, forced, closing, batch, logVars,
                 updates, made, lost, quoteVars, died, faults>>

\* ... and join returns, with the worker ended or after 3 s.  stop_all_producers
\* leaves the status row as it is.
StopJoined ==
  /\ ctl = "join"
  /\ ctl' = "idle"
  /\ shown' = (byAll /\ shown)
  /\ UNCHANGED <<provider, ignored, byAll, pc, forced, stopSet, closing, batch, logVars, updates,
                 made, lost, quoteVars, died, faults>>

-----------------------------------------------------------------------------
(* The worker: _run *)

\* The part of the state that the loop around run_forever leaves alone.
LoopUnchanged ==
  UNCHANGED <<provider, ctlVars, stopSet, batch, logVars, updates, made, lost, quoteVars,
              died, faults>>

\* A mutant of LoopHead: `while True`.
LoopHeadForever ==
  /\ pc = "check"
  /\ pc' = "open"
  /\ UNCHANGED <<forced, closing>> /\ LoopUnchanged

LoopHead ==
  /\ pc = "check"
  /\ pc' = IF stopSet THEN "ended" ELSE "open"
  /\ UNCHANGED <<forced, closing>> /\ LoopUnchanged

\* _ws is assigned.
Open ==
  /\ pc = "open"
  /\ pc' = "dial"
  /\ UNCHANGED <<forced, closing>> /\ LoopUnchanged

\* run_forever connects.
Dial ==
  /\ pc = "dial"
  /\ pc' = "live"
  /\ UNCHANGED <<forced, closing>> /\ LoopUnchanged

\* A mutant of Finally: what is in the batch waits for the next message.
FinallyKeepsBatch ==
  /\ closing' = FALSE
  /\ forced' = FALSE
  /\ pc' = "sleep"
  /\ LoopUnchanged

\* A mutant of Finally: no loop around run_forever.
FinallyEnds ==
  /\ closing' = FALSE
  /\ forced' = (batch # <<>>)
  /\ pc' = IF batch # <<>> THEN "append" ELSE "ended"
  /\ LoopUnchanged

\* The finally block: _ws is forgotten and the batch flushed.
Finally ==
  /\ closing' = FALSE
  /\ forced' = (batch # <<>>)
  /\ pc' = IF batch # <<>> THEN "append" ELSE IF stopSet THEN "check" ELSE "sleep"
  /\ LoopUnchanged

\* run_forever returns or raises: no connection, a broken one, or a closed one.
DialFails == pc = "dial" /\ Finally
Broken == pc = "live" /\ ~closing /\ Finally
Closed == pc = "live" /\ closing /\ Finally

\* time.sleep(backoff): stop() cannot cut it short.
Wake ==
  /\ pc = "sleep"
  /\ pc' = "check"
  /\ UNCHANGED <<forced, closing>> /\ LoopUnchanged

-----------------------------------------------------------------------------
(* The worker: messages *)

\* A row joins the batch, which is flushed when it is full or the interval is over.
AddRow ==
  /\ batch' = Append(batch, made + 1)
  /\ made' = made + 1
  /\ \E due \in BOOLEAN :
       pc' = IF due \/ Len(batch') >= BatchSize THEN "append" ELSE "live"

\* What a message leaves alone.
MessageUnchanged ==
  UNCHANGED <<provider, ctlVars, forced, stopSet, closing, logVars, lost, died, faults>>

Receiving == pc = "live" /\ ~closing /\ updates < MaxUpdates /\ updates' = updates + 1

Trade ==
  /\ provider = "binance"
  /\ Receiving
  /\ AddRow
  /\ UNCHANGED quoteVars /\ MessageUnchanged

\* A mutant of VolDelta: the whole volume whenever there is one before.
VolDeltaOfAll(volume) == IF quote.volume = -1 \/ volume = -1 THEN 0 ELSE volume

\* A mutant of VolDelta: not clamped at zero.
VolDeltaSigned(volume) ==
  IF quote.volume = -1 \/ volume = -1 THEN 0 ELSE volume - quote.volume

\* What the volume has grown by since the last update that had one.
VolDelta(volume) ==
  IF quote.volume = -1 \/ volume <= quote.volume THEN 0 ELSE volume - quote.volume

\* The exchange's own account of the volume a quote reports.
Account(volume) ==
  IF volume = -1 \/ quote.volume = -1
  THEN UNCHANGED <<traded, reset>>
  ELSE /\ traded' = traded + (IF volume >= quote.volume THEN volume - quote.volume ELSE volume)
       /\ reset' = (reset \/ volume < quote.volume)

\* _handle_qsd: the fields that are present update the state; the row is made from
\* the state, unless it has no price yet and no volume was traded.
Quote(hasPrice, volume) ==
  /\ provider = "tradingview"
  /\ Receiving
  /\ quote' = [priced |-> quote.priced \/ hasPrice,
               volume |-> IF volume = -1 THEN quote.volume ELSE volume]
  /\ Account(volume)
  /\ IF quote'.priced \/ VolDelta(volume) > 0
     THEN AddRow /\ counted' = counted + VolDelta(volume)
     ELSE UNCHANGED <<batch, made, pc, counted>>
  /\ MessageUnchanged

-----------------------------------------------------------------------------
(* The worker: _flush_if_needed and publish *)

\* publish() puts the batch into the log ...
FlushAppend ==
  /\ pc = "append"
  /\ stored' = Append(stored, batch)
  /\ pc' = "enqueue"
  /\ UNCHANGED <<provider, ctlVars, forced, stopSet, closing, batch, ring, dhGot, updates,
                 made, lost, quoteVars, died, faults>>

\* ... or the store raises: the batch is cleared all the same.  In a callback that
\* is MSG_ERR; in the finally block the exception ends the worker.
FlushRaises ==
  /\ pc = "append"
  /\ faults < MaxFaults
  /\ faults' = faults + 1
  /\ lost' = lost \union ToSet(batch)
  /\ batch' = <<>>
  /\ pc' = IF forced THEN "ended" ELSE "live"
  /\ died' = (died \/ forced)
  /\ forced' = FALSE
  /\ UNCHANGED <<provider, ctlVars, stopSet, closing, logVars, updates, made, quoteVars>>

\* ... and the envelope into the ring.
FlushEnqueue ==
  /\ pc = "enqueue"
  /\ ring' = ring \union {Len(stored)}
  /\ pc' = "clear"
  /\ UNCHANGED <<provider, ctlVars, forced, stopSet, closing, batch, stored, dhGot, updates,
                 made, lost, quoteVars, died, faults>>

\* A mutant of FlushClear: the batch is cleared by the forced flush only.
FlushClearForced ==
  /\ pc = "clear"
  /\ batch' = IF forced THEN <<>> ELSE batch
  /\ pc' = IF ~forced THEN "live" ELSE IF stopSet THEN "check" ELSE "sleep"
  /\ forced' = FALSE
  /\ UNCHANGED <<provider, ctlVars, stopSet, closing, logVars, updates, made, lost,
                 quoteVars, died, faults>>

FlushClear ==
  /\ pc = "clear"
  /\ batch' = <<>>
  /\ pc' = IF ~forced THEN "live" ELSE IF stopSet THEN "check" ELSE "sleep"
  /\ forced' = FALSE
  /\ UNCHANGED <<provider, ctlVars, stopSet, closing, logVars, updates, made, lost,
                 quoteVars, died, faults>>

-----------------------------------------------------------------------------
(* The DH consumer, one envelope at a time *)

\* A mutant of RingRows: both producers hand over the batch itself.
RingRowsShared(b) == batch

\* The rows of an envelope in the ring: those of the copy, or of the batch as it is now.
RingRows(b) == IF provider = "binance" THEN stored[b] ELSE batch

\* The next envelope comes from the ring, or from the log when the ring has nothing
\* after the cursor.
DhTake ==
  /\ Len(dhGot) < Len(stored)
  /\ LET b == Len(dhGot) + 1
     IN  dhGot' = Append(dhGot, IF b \in ring THEN RingRows(b) ELSE stored[b])
  /\ UNCHANGED <<provider, ctlVars, pc, forced, stopSet, closing, batch, stored, ring,
                 updates, made, lost, quoteVars, died, faults>>

-----------------------------------------------------------------------------

Stop == StopFlag \/ StopJoined
Worker ==
  \/ LoopHead \/ Open \/ Dial \/ DialFails \/ Closed \/ Wake
  \/ FlushAppend \/ FlushRaises \/ FlushEnqueue \/ FlushClear
Network ==
  \/ Broken \/ Trade
  \/ \E hasPrice \in BOOLEAN, volume \in -1 .. MaxVolume : Quote(hasPrice, volume)

Next ==
  StartProducer \/ (\E all \in BOOLEAN : StopClose(all)) \/ Stop \/ Worker \/ Network \/ DhTake

Spec == Init /\ [][Next]_vars

\* A stop() that has begun goes on, the worker and the DH consumer run.  Nothing
\* makes a message come, a connection break or anyone call start() or stop().
FairSpec == Spec /\ WF_vars(Stop) /\ WF_vars(Worker) /\ WF_vars(DhTake)

-----------------------------------------------------------------------------
(* Correctness *)

\* The rows that have left the batch for the log, and those still only in it: in
\* the middle of a flush the batch is in both.
InLog == UNION {ToSet(stored[b]) : b \in DOMAIN stored}

\* Every row received is in the log, in the batch of a worker that has a connection
\* (or is flushing), or was lost by a publish() that raised: neither a broken
\* connection nor stop() nor a restart strands rows in _batch.
RowsKept ==
  /\ 1 .. made = InLog \union lost \union ToSet(batch)
  /\ pc \notin Connected => batch = <<>>

\* The log with the batch as its last envelope: in the middle of a flush it is that
\* already.
LogAndBatch == IF pc \in {"enqueue", "clear"} THEN stored ELSE Append(stored, batch)

RowsInOrder(log) ==
  \A b, c \in DOMAIN log : \A i \in DOMAIN log[b], j \in DOMAIN log[c] :
    b < c \/ (b = c /\ i < j) => log[b][i] < log[c][j]

\* A row is stored once and the log has the rows in the order they came, whichever
\* of the three flushes (full, interval, finally) took them.
StoredOnceInOrder == RowsInOrder(LogAndBatch)

\* producer_ws.py:75 (binance), `Publish a copy to avoid sharing the internal list
\* object with consumers`: what DH is given is what was stored.  (The TradingView
\* producer hands over the batch itself, and DH may find it emptied or refilled.)
CopyReachesDh ==
  provider = "binance" => \A b \in DOMAIN dhGot : dhGot[b] = stored[b]

\* The VolDelta of the rows add up to the volume traded since the first quote,
\* across updates that make no row, lost batches, reconnects and restarts; when
\* the exchange's counter was reset in between, to no more than that.
VolumeConserved ==
  /\ counted <= traded
  /\ ~reset => counted = traded

\* The status row says Alive of a producer that has no worker only when the forced
\* flush of a broken connection raised, a start() was refused because a stopped
\* worker had not ended yet, or the worker was stopped by stop_all_producers, which
\* writes no row.
StatusHonest ==
  shown /\ ctl = "idle" /\ pc = "ended" => died \/ ignored \/ byAll

\* A stop() that the worker can notice ends it: it closed the socket being served,
\* or found the worker in the backoff sleep or at the head of its loop.  (One that
\* comes while the worker connects leaves it running until the connection breaks.)
StopEndsWorker ==
  (stopSet /\ (closing \/ forced \/ pc \in {"sleep", "check"})) ~> (pc = "ended")

=============================================================================
