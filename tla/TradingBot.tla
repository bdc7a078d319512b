----------------------------- MODULE TradingBot -----------------------------
(***************************************************************************)
(* A trading bot of the client library on its stream: TradingBot           *)
(* (feeder_client/trading_bot.py) over DeepFeederClient and                *)
(* DeepFeederStream (feeder_client/client.py).                             *)
(*                                                                         *)
(* Threads: the user's (start, stop, pause, resume), the bot's worker      *)
(* (_run), one per stream (DeepFeederStream._run), and another user of     *)
(* the same client who subscribes to the same stream id.                   *)
(*                                                                         *)
(* The server numbers the rows of the stream; an envelope has the rows     *)
(* lo .. hi.  A connection begins with a snapshot of all rows, because the *)
(* URL is built once with the since_ns of the subscription.  Stream        *)
(* objects live in slots that are used again once a stream is done.        *)
(***************************************************************************)
EXTENDS Integers, Sequences, FiniteSets, SequencesExt

CONSTANTS
  Slots,      \* room for stream objects
  QMax,       \* queue_maxsize
  MaxRows,    \* bound on the rows
  MaxEvents   \* bound on what comes from outside: the subscribe, connect and connection
              \* failures, the calls of the other user and the pauses

ASSUME BotAssumption ==
  /\ Slots # {} /\ Slots \subseteq Nat \ {0}
  /\ QMax \in Nat \ {0}
  /\ MaxRows \in Nat /\ MaxEvents \in Nat

VARIABLES
  head,      \* rows at the server
  pc,        \* the worker: where it is in _run, or "ended"
  stopSet,   \* _stop
  paused,    \* _paused
  stopping,  \* stop() has set the flags and goes on
  queue,     \* _q
  env,       \* the envelope the worker has taken
  handle,    \* _stream_handle, 0 for None
  subbed,    \* the stream that client.subscribe is about to start, 0 otherwise
  reg,       \* client._streams[sid]: 0 when absent, -1 for the other user's
  str,       \* the streams of the bot
  known,     \* history: the rows of the envelopes dispatched to the strategy
  dropped,   \* history: an envelope with rows was dropped at the full queue
  leftover,  \* history: the queue held a sentinel when the worker started
  raced,     \* history: a stream was stopped between its registration and its start
  events     \* failures, calls of the other user and pauses so far

botVars == <<pc, stopSet, paused, stopping, env, handle, subbed, known, leftover>>
clientVars == <<reg, str, raced>>
vars == <<head, botVars, queue, clientVars, dropped, events>>

Item == [kind : {"rows", "error", "sentinel"}, lo : Nat, hi : Nat]
Error == [kind |-> "error", lo |-> 1, hi |-> 0]
Sentinel == [kind |-> "sentinel", lo |-> 1, hi |-> 0]
Rows(lo, hi) == [kind |-> "rows", lo |-> lo, hi |-> hi]

\* A stream: where its thread is, its stop event, the next row it will be sent (0
\* while it has no connection) and the envelope for on_data.
Stream == [pc : {"new", "connect", "open", "put", "evict", "reput", "done"},
           stop : BOOLEAN, next : Nat, env : Item]
NoStream == [pc |-> "done", stop |-> TRUE, next |-> 0, env |-> Error]

TypeOK ==
  /\ head \in 0 .. MaxRows
  /\ pc \in {"ended", "loop", "subscribe", "start", "get", "gate", "wait",
             "leave"}
  /\ stopSet \in BOOLEAN /\ paused \in BOOLEAN /\ stopping \in BOOLEAN /\ dropped \in BOOLEAN
  /\ leftover \in BOOLEAN /\ raced \in BOOLEAN
  /\ queue \in Seq(Item) /\ Len(queue) <= QMax
  /\ env \in Item
  /\ handle \in Slots \union {0} /\ subbed \in Slots \union {0}
  /\ reg \in Slots \union {0, -1}
  /\ str \in [Slots -> Stream]
  /\ known \subseteq 1 .. head
  /\ events \in 0 .. MaxEvents

Init ==
  /\ head = 0
  /\ pc = "ended" /\ stopSet = FALSE /\ paused = FALSE /\ stopping = FALSE
  /\ queue = <<>> /\ env = Error
  /\ handle = 0 /\ subbed = 0 /\ reg = 0
  /\ str = [s \in Slots |-> NoStream]
  /\ known = {} /\ dropped = FALSE /\ leftover = FALSE /\ raced = FALSE
  /\ events = 0

Outside == events < MaxEvents /\ events' = events + 1

-----------------------------------------------------------------------------
(* DeepFeederClient *)

Free(s) == str[s].pc = "done" /\ s \notin {reg, handle, subbed}
FirstFree(s) == Free(s) /\ \A x \in Slots : Free(x) => s <= x

\* A mutant of Stopped: the stream is forgotten, and runs on.
NotStopped == str

\* stop() of the stream registered under the id, whoever's it is: its event is set
\* and its socket closed; join may time out.
Stopped == IF reg \notin Slots THEN str ELSE [str EXCEPT ![reg].stop = TRUE]

\* A stop() that is undone by the start() that follows it.
RacedStop == raced \/ (reg \in Slots /\ str[reg].pc = "new")

\* unsubscribe: by id.
Unsubscribe ==
  /\ reg' = 0
  /\ str' = Stopped
  /\ raced' = RacedStop

\* subscribe, under the lock: the stream registered so far is stopped and replaced.
Register(s) ==
  /\ FirstFree(s)
  /\ reg' = s
  /\ str' = [Stopped EXCEPT ![s] = [NoStream EXCEPT !.pc = "new", !.stop = FALSE]]
  /\ raced' = RacedStop

\* start(), after the lock is released: it clears the stop event.
StartStream(s) == str' = [str EXCEPT ![s].pc = "connect", ![s].stop = FALSE]

-----------------------------------------------------------------------------
(* The user: TradingBot.start, stop, pause, resume *)

\* start() waits for the lock that stop() holds.
BotStart ==
  /\ pc = "ended" /\ ~stopping
  /\ pc' = "loop"
  /\ stopSet' = FALSE /\ paused' = FALSE
  /\ leftover' = (\E i \in DOMAIN queue : queue[i] = Sentinel)
  /\ UNCHANGED <<head, stopping, env, handle, subbed, known, queue, clientVars,
                 dropped, events>>

\* _unsubscribe_silent
UnsubscribeSilent ==
  /\ handle' = 0
  /\ IF handle # 0 THEN Unsubscribe ELSE UNCHANGED clientVars

\* A mutant of WakeUp: no sentinel.
NoWakeUp == UNCHANGED queue

\* put_nowait(None), unless the queue is full.
WakeUp == queue' = IF Len(queue) < QMax THEN Append(queue, Sentinel) ELSE queue

\* stop(): the flags, under the bot's lock, which the worker does not take ...
BotStop ==
  /\ ~stopping
  /\ stopping' = TRUE
  /\ stopSet' = TRUE /\ paused' = FALSE
  /\ UNCHANGED <<head, pc, env, handle, subbed, known, leftover, queue, clientVars,
                 dropped, events>>

\* ... and then the stream and the sentinel.  join returns with the worker ended or
\* after 10 s; nothing waits for it.
StopWakesUp ==
  /\ stopping
  /\ stopping' = FALSE
  /\ UnsubscribeSilent
  /\ WakeUp
  /\ UNCHANGED <<head, pc, stopSet, paused, env, subbed, known, leftover, dropped,
                 events>>

\* On a bot that has ended, pause() is undone by start().
Pause ==
  /\ pc # "ended"
  /\ Outside
  /\ paused' = TRUE
  /\ UNCHANGED <<head, pc, stopSet, stopping, env, handle, subbed, known, leftover, queue,
                 clientVars, dropped>>

Resume ==
  /\ paused' = FALSE
  /\ UNCHANGED <<head, pc, stopSet, stopping, env, handle, subbed, known, leftover, queue,
                 clientVars, dropped, events>>

-----------------------------------------------------------------------------
(* The worker: TradingBot._run *)

LoopHead ==
  /\ pc = "loop"
  /\ pc' = IF stopSet THEN "leave" ELSE IF handle = 0 THEN "subscribe" ELSE "get"
  /\ UNCHANGED <<head, stopSet, paused, stopping, env, handle, subbed, known, leftover,
                 queue,
                 clientVars, dropped, events>>

\* client.subscribe registers the stream ...
Subscribe ==
  /\ pc = "subscribe"
  /\ \E s \in Slots : Register(s) /\ subbed' = s
  /\ pc' = "start"
  /\ UNCHANGED <<head, stopSet, paused, stopping, env, handle, known, leftover, queue,
                 dropped, events>>

\* ... and starts it; the worker keeps the handle.
SubscribeStart ==
  /\ pc = "start"
  /\ StartStream(subbed)
  /\ handle' = subbed /\ subbed' = 0
  /\ pc' = "get"
  /\ UNCHANGED <<head, stopSet, paused, stopping, env, known, leftover, queue, reg,
                 raced, dropped, events>>

\* A mutant of SubscribeFails: an exception ends the worker.
SubscribeFailsEnds ==
  /\ pc = "subscribe"
  /\ Outside
  /\ UnsubscribeSilent
  /\ pc' = "leave"
  /\ UNCHANGED <<head, stopSet, paused, stopping, env, subbed, known, leftover, queue,
                 dropped>>

\* subscribe raised: the handle is dropped, and the loop goes on after a sleep.
SubscribeFails ==
  /\ pc = "subscribe"
  /\ Outside
  /\ UnsubscribeSilent
  /\ pc' = "loop"
  /\ UNCHANGED <<head, stopSet, paused, stopping, env, subbed, known, leftover, queue,
                 dropped>>

\* _q.get() blocks until there is something; None breaks the loop.
Get ==
  /\ pc = "get"
  /\ queue # <<>>
  /\ queue' = Tail(queue)
  /\ env' = IF Head(queue) = Sentinel THEN Error ELSE Head(queue)
  /\ pc' = IF Head(queue) = Sentinel THEN "leave" ELSE "gate"
  /\ UNCHANGED <<head, stopSet, paused, stopping, handle, subbed, known, leftover,
                 clientVars,
                 dropped, events>>

\* _dispatch: the strategy's hooks; what they raise is swallowed.
Dispatch ==
  /\ known' = known \union (env.lo .. env.hi)
  /\ env' = Error
  /\ pc' = "loop"

\* `if self._paused.is_set()`
Gate ==
  /\ pc = "gate"
  /\ IF paused THEN pc' = "wait" /\ UNCHANGED <<known, env>> ELSE Dispatch
  /\ UNCHANGED <<head, stopSet, paused, stopping, handle, subbed, leftover, queue,
                 clientVars,
                 dropped, events>>

\* `self._paused.wait()` returns as soon as the flag is set, that is, at once, or,
\* when it has been cleared meanwhile, at the next pause().
Wait ==
  /\ pc = "wait"
  /\ paused
  /\ Dispatch
  /\ UNCHANGED <<head, stopSet, paused, stopping, handle, subbed, leftover, queue,
                 clientVars,
                 dropped, events>>

\* After the loop.
Leave ==
  /\ pc = "leave"
  /\ UnsubscribeSilent
  /\ pc' = "ended" /\ leftover' = FALSE
  /\ UNCHANGED <<head, stopSet, paused, stopping, env, subbed, known, queue, dropped,
                 events>>

-----------------------------------------------------------------------------
(* A stream: DeepFeederStream._run, and TradingBot._on_data in its thread *)

\* The part of the state a stream's thread leaves alone.
StreamUnchanged == UNCHANGED <<head, botVars, reg, raced>>

\* `while not stop_evt`
StreamEnds(s) ==
  /\ str[s].pc = "connect" /\ str[s].stop
  /\ str' = [str EXCEPT ![s] = NoStream]
  /\ UNCHANGED <<queue, dropped, events>> /\ StreamUnchanged

\* A mutant of FirstRow: the connection resumes where the server is.
FirstRowLive == head + 1

\* The first row a connection sends: a snapshot precedes the live rows.
FirstRow == 1

Connected(s) ==
  /\ str[s].pc = "connect" /\ ~str[s].stop
  /\ str' = [str EXCEPT ![s].pc = "open", ![s].next = FirstRow]
  /\ UNCHANGED <<queue, dropped, events>> /\ StreamUnchanged

\* on_data is told of it, and the loop goes on after a sleep.
ConnectFails(s) ==
  /\ str[s].pc = "connect" /\ ~str[s].stop
  /\ Outside
  /\ str' = [str EXCEPT ![s].env = Error, ![s].pc = "put"]
  /\ UNCHANGED <<queue, dropped>> /\ StreamUnchanged

\* An envelope arrives.
Recv(s) ==
  /\ str[s].pc = "open" /\ ~str[s].stop
  /\ str[s].next <= head
  /\ str' = [str EXCEPT ![s].env = Rows(str[s].next, head), ![s].next = head + 1,
                        ![s].pc = "put"]
  /\ UNCHANGED <<queue, dropped, events>> /\ StreamUnchanged

\* The connection breaks or is idle for too long; or stop() closed it, and then both
\* loops end.
Broken(s) ==
  /\ str[s].pc = "open"
  /\ str[s].stop \/ events < MaxEvents
  /\ events' = IF str[s].stop THEN events ELSE events + 1
  /\ str' = IF str[s].stop THEN [str EXCEPT ![s] = NoStream]
            ELSE [str EXCEPT ![s].pc = "connect", ![s].next = 0]
  /\ UNCHANGED <<queue, dropped>> /\ StreamUnchanged

\* The thread goes on after on_data, unless it was stopped meanwhile.
Return(s) ==
  IF str[s].stop THEN [str EXCEPT ![s] = NoStream]
  ELSE [str EXCEPT ![s].pc = IF str[s].next = 0 THEN "connect" ELSE "open", ![s].env = Error]

\* A mutant of OnData: it does not look at the size.
OnDataUnbounded(s) ==
  /\ str[s].pc = "put"
  /\ queue' = Append(queue, str[s].env)
  /\ str' = Return(s)
  /\ UNCHANGED <<dropped, events>> /\ StreamUnchanged

\* _on_data: put_nowait; ...
OnData(s) ==
  /\ str[s].pc = "put"
  /\ queue' = IF Len(queue) < QMax THEN Append(queue, str[s].env) ELSE queue
  /\ str' = IF Len(queue) < QMax THEN Return(s) ELSE [str EXCEPT ![s].pc = "evict"]
  /\ UNCHANGED <<dropped, events>> /\ StreamUnchanged

\* ... when that raises Full, get_nowait drops the oldest; when the worker has emptied
\* the queue meanwhile it raises Empty, and the new envelope is lost; ...
Evict(s) ==
  /\ str[s].pc = "evict"
  /\ IF queue = <<>>
     THEN /\ str' = Return(s)
          /\ dropped' = (dropped \/ str[s].env.kind = "rows")
          /\ UNCHANGED queue
     ELSE /\ str' = [str EXCEPT ![s].pc = "reput"]
          /\ queue' = Tail(queue)
          /\ dropped' = (dropped \/ Head(queue).kind = "rows")
  /\ UNCHANGED events /\ StreamUnchanged

\* ... and the second put_nowait may find the queue full again.
Reput(s) ==
  /\ str[s].pc = "reput"
  /\ str' = Return(s)
  /\ queue' = IF Len(queue) < QMax THEN Append(queue, str[s].env) ELSE queue
  /\ dropped' = (dropped \/ (Len(queue) >= QMax /\ str[s].env.kind = "rows"))
  /\ UNCHANGED events /\ StreamUnchanged

-----------------------------------------------------------------------------
(* The server and the other user of the client *)

RowAdded ==
  /\ head < MaxRows
  /\ head' = head + 1
  /\ UNCHANGED <<botVars, queue, clientVars, dropped, events>>

\* Another bot subscribes to the same stream: it replaces what is registered.
OtherSubscribes ==
  /\ Outside
  /\ reg' = -1
  /\ str' = Stopped
  /\ raced' = RacedStop
  /\ UNCHANGED <<head, botVars, queue, dropped>>

\* It unsubscribes by id, and stops whatever is registered.
OtherUnsubscribes ==
  /\ Outside
  /\ Unsubscribe
  /\ UNCHANGED <<head, botVars, queue, dropped>>

-----------------------------------------------------------------------------

Worker ==
  \/ LoopHead \/ Subscribe \/ SubscribeStart \/ SubscribeFails
  \/ Get \/ Gate \/ Wait \/ Leave
StreamStep(s) ==
  \/ StreamEnds(s) \/ Connected(s) \/ ConnectFails(s) \/ Recv(s)
  \/ (str[s].stop /\ Broken(s)) \/ OnData(s) \/ Evict(s) \/ Reput(s)
User == BotStart \/ BotStop \/ StopWakesUp \/ Pause \/ Resume

Next ==
  \/ User \/ Worker
  \/ \E s \in Slots : StreamStep(s) \/ Broken(s)
  \/ RowAdded \/ OtherSubscribes \/ OtherUnsubscribes

Spec == Init /\ [][Next]_vars

\* The worker and the streams' threads run, and a stop() that has begun goes on;
\* connections break a bounded number of times.  Nobody is obliged to start, stop,
\* pause or resume the bot.
FairSpec ==
  Spec /\ WF_vars(Worker) /\ WF_vars(StopWakesUp)
       /\ \A s \in Slots : WF_vars(StreamStep(s))

-----------------------------------------------------------------------------
(* Correctness *)

\* Unless the full queue dropped an envelope, the strategy has been given every row
\* up to the newest it knows: across reconnects, failed subscriptions, a stop and a
\* start, the replacement of its stream and what the old one still delivers.
StrategyGapless ==
  ~dropped => \A r \in known : 1 .. r \subseteq known

\* A stream that runs and was not told to stop is the one registered in the client,
\* so that unsubscribe() or close() can reach it; and when the worker has ended there
\* is none, and no handle, whichever of stop(), the worker's last step and the other
\* user came first.  Except when a stream was stopped between its registration and
\* its start, which undoes the stop.
NoOrphan ==
  ~raced =>
    /\ \A s \in Slots : ~str[s].stop /\ str[s].pc # "done" => reg = s /\ pc # "ended"
    /\ pc = "ended" => handle = 0

\* The worker ends by itself only when it takes a sentinel that an earlier stop()
\* left in the queue; neither a failing subscription nor a lost connection ends it.
EndsWhenStopped ==
  [][pc # "ended" /\ pc' = "ended" => stopSet \/ leftover]_vars

\* After stop() the worker ends, whatever it was doing, whether or not the sentinel
\* had room and whether or not _on_data dropped it; unless it is caught between the
\* two halves of the pause gate.  (A stream that was raced keeps its slot for ever.)
StopEndsBot ==
  (stopSet /\ pc # "ended") ~> (pc = "ended" \/ (pc = "wait" /\ ~paused) \/ raced)

\* trading_bot.py:162, `Pause gate (blocks here until resume)`: no envelope goes to
\* the strategy while the bot is paused.
PauseHolds ==
  [][known' # known => ~paused]_vars

=============================================================================
