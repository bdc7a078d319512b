---------------------------- MODULE MarketFeeder ----------------------------
(***************************************************************************)
(* The fan-out of one stream to its WebSocket clients: MarketFeeder        *)
(* (fanout/core.py) with the listener of the stream (fanout/listener.py)   *)
(* and the connection handler ws_stream (fanout/api.py).                   *)
(*                                                                         *)
(* Two threads.  The event loop runs the handlers: attach_gapless is one   *)
(* synchronous call that no send or unsubscribe of another connection can  *)
(* interrupt.  The Deephaven update thread runs on_update, which calls     *)
(* every subscriber, at any point of it.  Subscribers hand their events to *)
(* the loop (call_soon_threadsafe), which sends them in that order.        *)
(*                                                                         *)
(* The rows of the stream's table view are numbered in the order they are  *)
(* added.  The schema is one without bars: an added row is complete.  The  *)
(* number an event carries (meta.seq) is left out.                         *)
(***************************************************************************)
EXTENDS Integers, Sequences, FiniteSets, SequencesExt

CONSTANTS
  Clients,       \* the connections
  BufLen,        \* DEEPFEEDER_FANOUT_LISTENER_BUFFER_LEN
  WithExchange,  \* the connections name an exchange
  MaxRows,       \* bound on the rows of the table
  MaxFaults      \* bound on the calls that raise

ASSUME FeederAssumption ==
  /\ Clients # {}
  /\ BufLen \in Nat \ {0}
  /\ WithExchange \in BOOLEAN
  /\ MaxRows \in Nat /\ MaxFaults \in Nat

VARIABLES
  table,     \* rows in the table view
  lsn,       \* _lsn[key]: running?, the rows it was notified of, its ring of batches
  emitting,  \* the update thread: the batch, and the subscribers still to call
  handles,   \* _handles: the clients subscribed
  refs,      \* _refs[key]
  api,       \* the event loop: the attach in progress
  conn,      \* per connection: "new", "attaching", "open", "failed"
  gone,      \* the connections the network or the client has dropped
  closed,    \* the connections whose `closed` flag is set
  released,  \* the connections whose unsub_done flag is set
  outq,      \* per connection: the events handed to the loop and not sent yet
  got,       \* history: the rows each client has received
  leaked,    \* history: references of subscriptions that never came about
  faults

subVars == <<handles, refs, leaked>>
connVars == <<conn, gone, closed, released>>
vars == <<table, lsn, emitting, subVars, api, connVars, outq, got, faults>>

Rows == 1 .. MaxRows
Batch == [lo : Rows, hi : Rows, at : Rows]
NoListener == [on |-> FALSE, seen |-> 0, buf |-> <<>>]
Quiet == [lo |-> 1, hi |-> 0, to |-> {}]
Idle == [pc |-> "idle", of |-> {}, upTo |-> 0, replay |-> <<>>]
Event == [phase : {"snapshot", "snapshot_boundary", "live"}, lo : 1 .. MaxRows + 1,
          hi : 0 .. MaxRows]

TypeOK ==
  /\ table \in 0 .. MaxRows
  /\ lsn \in [on : BOOLEAN, seen : 0 .. table, buf : Seq(Batch)] /\ Len(lsn.buf) <= BufLen
  /\ emitting \in [lo : 1 .. MaxRows + 1, hi : 0 .. MaxRows, to : SUBSET Clients]
  /\ handles \subseteq Clients
  /\ refs \in Nat /\ leaked \in Nat
  /\ api \in [pc : {"idle", "ensure", "register", "query", "snapshot", "buffer", "replay"},
              of : SUBSET Clients, upTo : 0 .. table, replay : Seq(Batch)]
  /\ conn \in [Clients -> {"new", "attaching", "open", "failed"}]
  /\ gone \subseteq Clients /\ closed \subseteq Clients /\ released \subseteq Clients
  /\ outq \in [Clients -> Seq(Event)]
  /\ got \in [Clients -> SUBSET Rows]
  /\ faults \in 0 .. MaxFaults

-----------------------------------------------------------------------------
(* The update thread *)

RowAdded ==
  /\ table < MaxRows
  /\ table' = table + 1
  /\ UNCHANGED <<lsn, emitting, subVars, api, connVars, outq, got, faults>>

\* A mutant of Buffered: a deque without maxlen.
BufferedForever(buf, batch) == Append(buf, batch)

\* deque(maxlen): the oldest batch makes room.
Buffered(buf, batch) == LET b == Append(buf, batch)
                        IN  IF Len(b) > BufLen THEN Tail(b) ELSE b

\* A mutant of Subscribers: live batches are held back until the boundary, for the
\* replay of the ring to deliver.
SubscribersAfterBoundary == {c \in handles : conn[c] = "open"}

\* emit_completed calls those that are in _handles when it starts.
Subscribers == handles

\* on_update: an update cycle brings the rows added up to some point.
OnUpdate ==
  /\ lsn.on /\ emitting.to = {}
  /\ \E hi \in lsn.seen + 1 .. table :
       /\ lsn' = [lsn EXCEPT !.seen = hi,
                             !.buf = Buffered(@, [lo |-> lsn.seen + 1, hi |-> hi, at |-> table])]
       /\ emitting' = [lo |-> lsn.seen + 1, hi |-> hi, to |-> Subscribers]
  /\ UNCHANGED <<table, subVars, api, connVars, outq, got, faults>>

-----------------------------------------------------------------------------
(* Events *)

\* An event goes to the loop, unless the connection is closed (emit_event_sync).
Emit(c, phase, lo, hi) ==
  outq' = IF c \in closed THEN outq
          ELSE [outq EXCEPT ![c] = Append(@, [phase |-> phase, lo |-> lo, hi |-> hi])]

\* The live callback of one subscriber.
Deliver(c) ==
  /\ c \in emitting.to
  /\ Emit(c, "live", emitting.lo, emitting.hi)
  /\ emitting' = IF emitting.to = {c} THEN Quiet ELSE [emitting EXCEPT !.to = @ \ {c}]
  /\ UNCHANGED <<table, lsn, subVars, api, connVars, got, faults>>

-----------------------------------------------------------------------------
(* attach_gapless, on the event loop *)

\* A new connection.
AttachStart(c) ==
  /\ api = Idle
  /\ conn[c] = "new"
  /\ conn' = [conn EXCEPT ![c] = "attaching"]
  /\ api' = [Idle EXCEPT !.pc = "ensure", !.of = {c}]
  /\ UNCHANGED <<table, lsn, emitting, subVars, gone, closed, released, outq, got, faults>>

\* subscribe: the reference, then the listener, if there is none.
Ensure ==
  /\ api.pc = "ensure"
  /\ refs' = refs + 1
  /\ lsn' = IF lsn.on THEN lsn ELSE [on |-> TRUE, seen |-> table, buf |-> <<>>]
  /\ api' = [api EXCEPT !.pc = "register"]
  /\ UNCHANGED <<table, emitting, handles, leaked, connVars, outq, got, faults>>

\* WS_ATTACH_ERR: an error frame, and the handler returns.
AttachError ==
  /\ faults < MaxFaults
  /\ faults' = faults + 1
  /\ conn' = [c \in Clients |-> IF c \in api.of THEN "failed" ELSE conn[c]]
  /\ api' = Idle
  /\ UNCHANGED <<table, lsn, emitting, handles, gone, closed, released, outq, got>>

\* The listener could not be made; the reference stays.
EnsureRaises ==
  /\ api.pc = "ensure" /\ ~lsn.on
  /\ AttachError
  /\ refs' = refs + 1
  /\ leaked' = leaked + 1

Register ==
  /\ api.pc = "register"
  /\ handles' = handles \union api.of
  /\ api' = [api EXCEPT !.pc = "query"]
  /\ UNCHANGED <<table, lsn, emitting, refs, leaked, connVars, outq, got, faults>>

\* snapshot_range: the rows of the table; the watermark is the last one's time.
Query ==
  /\ api.pc = "query"
  /\ api' = [api EXCEPT !.pc = "snapshot", !.upTo = table]
  /\ UNCHANGED <<table, lsn, emitting, subVars, connVars, outq, got, faults>>

\* The query raised: the handler does not know the handle and leaves the
\* subscription behind.
QueryRaises ==
  /\ api.pc = "query"
  /\ AttachError
  /\ UNCHANGED <<refs, leaked>>

EmitSnapshot ==
  \E c \in api.of :
    /\ api.pc = "snapshot"
    /\ Emit(c, "snapshot", 1, api.upTo)
    /\ api' = [api EXCEPT !.pc = "buffer"]
    /\ UNCHANGED <<table, lsn, emitting, subVars, connVars, got, faults>>

\* The batches of the ring not older than `at`: its tail, as it is in the order of time.
Younger(buf, at) == SubSeq(buf, Cardinality({i \in DOMAIN buf : buf[i].at < at}) + 1, Len(buf))

\* catchup_since_ns: the buffered batches younger than the watermark.  It is called
\* without the exchange, and so finds no listener for a stream that has one.
ReadBuffer ==
  /\ api.pc = "buffer"
  /\ api' = [api EXCEPT !.pc = "replay",
               !.replay = IF WithExchange THEN <<>>
                          ELSE Younger(lsn.buf, api.upTo)]
  /\ UNCHANGED <<table, lsn, emitting, subVars, connVars, outq, got, faults>>

\* They go out with the phase "snapshot".
EmitReplay ==
  \E c \in api.of :
    /\ api.pc = "replay" /\ api.replay # <<>>
    /\ Emit(c, "snapshot", Head(api.replay).lo, Head(api.replay).hi)
    /\ api' = [api EXCEPT !.replay = Tail(@)]
    /\ UNCHANGED <<table, lsn, emitting, subVars, connVars, got, faults>>

\* The boundary, and attach_gapless returns the handle.
EmitBoundary ==
  \E c \in api.of :
    /\ api.pc = "replay" /\ api.replay = <<>>
    /\ Emit(c, "snapshot_boundary", 1, 0)
    /\ conn' = [conn EXCEPT ![c] = "open"]
    /\ api' = Idle
    /\ UNCHANGED <<table, lsn, emitting, subVars, gone, closed, released, got, faults>>

-----------------------------------------------------------------------------
(* The rest of the handler *)

\* The connection breaks, or the client leaves.  The loop that waits for this
\* (api.py:244) swallows WebSocketDisconnect and goes on.
Disconnect(c) ==
  /\ conn[c] # "new" /\ c \notin gone
  /\ gone' = gone \union {c}
  /\ UNCHANGED <<table, lsn, emitting, subVars, api, conn, closed, released,
                 outq, got, faults>>

\* send_event: skipped because the connection is closed, or lost on a connection
\* that is down, or sent, or the send raised and closes the connection.
Send(c) ==
  /\ api = Idle
  /\ outq[c] # <<>>
  /\ outq' = [outq EXCEPT ![c] = Tail(@)]
  /\ \/ /\ c \in closed \union gone
        /\ UNCHANGED <<got, closed>>
     \/ /\ c \notin closed /\ c \notin gone /\ conn[c] = "open"
        /\ got' = [got EXCEPT ![c] = @ \union (Head(outq[c]).lo .. Head(outq[c]).hi)]
        /\ UNCHANGED closed
     \/ /\ c \notin closed /\ (c \in gone \/ conn[c] = "failed")
        /\ closed' = closed \union {c}
        /\ UNCHANGED got
  /\ UNCHANGED <<table, lsn, emitting, subVars, api, conn, gone, released, faults>>

\* Mutants of Unsubscribe: the listener goes with the last but one reference; the
\* reference is kept.
UnsubscribeAtOne(c) ==
  /\ api = Idle
  /\ c \in closed /\ c \notin released
  /\ released' = released \union {c}
  /\ IF conn[c] = "open"
     THEN /\ handles' = handles \ {c}
          /\ refs' = IF refs > 0 THEN refs - 1 ELSE 0
          /\ lsn' = IF refs' > 1 THEN lsn ELSE NoListener
     ELSE UNCHANGED <<handles, refs, lsn>>
  /\ UNCHANGED <<table, emitting, leaked, api, conn, gone, closed, outq, got, faults>>

UnsubscribeKeepsRef(c) ==
  /\ api = Idle
  /\ c \in closed /\ c \notin released
  /\ released' = released \union {c}
  /\ IF conn[c] = "open"
     THEN /\ handles' = handles \ {c}
          /\ lsn' = IF refs = 0 THEN NoListener ELSE lsn
     ELSE UNCHANGED <<handles, lsn>>
  /\ UNCHANGED <<table, emitting, refs, leaked, api, conn, gone, closed, outq, got,
                 faults>>

\* _do_unsubscribe of a closed connection, if it knows its handle: the listener is
\* destroyed with its last reference.
Unsubscribe(c) ==
  /\ api = Idle
  /\ c \in closed /\ c \notin released
  /\ released' = released \union {c}
  /\ IF conn[c] = "open"
     THEN /\ handles' = handles \ {c}
          /\ refs' = IF refs > 0 THEN refs - 1 ELSE 0
          /\ lsn' = IF refs' > 0 THEN lsn ELSE NoListener
     ELSE UNCHANGED <<handles, refs, lsn>>
  /\ UNCHANGED <<table, emitting, leaked, api, conn, gone, closed, outq, got, faults>>

-----------------------------------------------------------------------------

Init ==
  /\ table = 0
  /\ lsn = NoListener /\ emitting = Quiet
  /\ handles = {} /\ refs = 0 /\ leaked = 0
  /\ api = Idle
  /\ conn = [c \in Clients |-> "new"]
  /\ gone = {} /\ closed = {} /\ released = {}
  /\ outq = [c \in Clients |-> <<>>]
  /\ got = [c \in Clients |-> {}]
  /\ faults = 0

UpdateThread == OnUpdate \/ \E c \in Clients : Deliver(c)

Attach ==
  \/ Ensure \/ EnsureRaises \/ Register \/ Query \/ QueryRaises
  \/ EmitSnapshot \/ ReadBuffer \/ EmitReplay \/ EmitBoundary

Next ==
  \/ RowAdded
  \/ UpdateThread
  \/ Attach
  \/ \E c \in Clients : AttachStart(c) \/ Disconnect(c) \/ Send(c) \/ Unsubscribe(c)

Spec == Init /\ [][Next]_vars

\* Both threads keep running, and the loop takes its tasks in turn; nobody owes a
\* row, a connection or a disconnection.
Fairness ==
  /\ WF_vars(UpdateThread)
  /\ WF_vars(Attach)
  /\ \A c \in Clients : WF_vars(Send(c)) /\ WF_vars(Unsubscribe(c))

FairSpec == Spec /\ Fairness

-----------------------------------------------------------------------------
(* Correctness *)

RowsOf(events) == UNION {events[i].lo .. events[i].hi : i \in DOMAIN events}
Attached(c) == conn[c] = "open" /\ c \notin closed /\ c \notin gone

\* attach_gapless leaves no gap: whatever the listener was notified of while the
\* client attached or since, and every row older than that, has been sent to the
\* client, is queued for it, or is in the batch it is about to be handed.
Gapless ==
  \A c \in Clients :
    Attached(c) =>
      1 .. lsn.seen \subseteq got[c] \union RowsOf(outq[c]) \union
        (IF c \in emitting.to THEN emitting.lo .. emitting.hi ELSE {})

\* A subscriber never loses the listener of its stream when another one leaves.
ListenerServes == handles # {} => lsn.on

\* Every reference is that of a subscription, of the attach in progress, or of a
\* subscription whose listener could not be made: the listener of a stream that
\* nobody subscribes is gone unless such a failure keeps it.
RefsExact ==
  /\ refs = Cardinality(handles) + leaked + (IF api.pc = "register" THEN 1 ELSE 0)
  /\ lsn.on => refs > 0

\* Every row of the table reaches every client that stays.
EventuallyDelivered ==
  \A c \in Clients : \A r \in Rows :
    conn[c] = "open" /\ r <= table ~> r \in got[c] \/ c \in gone

=============================================================================
