------------------------- MODULE MarketFeederProofs -------------------------
(***************************************************************************)
(* What holds of the fan-out for any clients, rows, ring length and        *)
(* failures: types; references that match the subscriptions, so that a     *)
(* listener lives exactly as long as it is wanted; and the promise of      *)
(* attach_gapless.  The last one does not rest on the replay of the ring:  *)
(* what the snapshot of a registered client leaves out is live.            *)
(***************************************************************************)
EXTENDS MarketFeeder, FiniteSetTheorems, SequenceTheorems, TLAPS

USE FeederAssumption

\* The references match the subscriptions because every step knows whether its
\* client is in _handles.
Subscribed ==
  /\ \A c \in Clients :
       /\ conn[c] = "new" => c \notin handles \union gone \union closed
       /\ conn[c] = "open" /\ c \notin released => c \in handles
       /\ conn[c] = "attaching" => c \in api.of
  /\ api.pc # "idle" => \E c \in Clients : api.of = {c} /\ conn[c] = "attaching"
  /\ api.pc = "idle" => api = Idle
  /\ api.pc = "ensure" => api.of \intersect handles = {}
  /\ api.pc = "register" => api.of \intersect handles = {} /\ lsn.on
  /\ api.pc \in {"query", "snapshot", "buffer", "replay"} => api.of \subseteq handles
  /\ released \subseteq closed
  /\ api.of \intersect closed = {}
  /\ IsFiniteSet(handles)

-----------------------------------------------------------------------------
(* The operators *)

LEMMA BufferedType ==
  ASSUME NEW buf \in Seq(Batch), Len(buf) <= BufLen, NEW b \in Batch
  PROVE  Buffered(buf, b) \in Seq(Batch) /\ Len(Buffered(buf, b)) <= BufLen
<1>1. Append(buf, b) \in Seq(Batch) /\ Len(Append(buf, b)) = Len(buf) + 1 /\ Append(buf, b) # <<>>
  BY AppendProperties
<1>2. Len(buf) \in Nat /\ BufLen \in Nat
  OBVIOUS
<1>3. Tail(Append(buf, b)) \in Seq(Batch) /\ Len(Tail(Append(buf, b))) = Len(buf)
  BY <1>1, <1>2, HeadTailProperties
<1>4. QED
  BY <1>1, <1>2, <1>3 DEF Buffered

LEMMA YoungerType ==
  ASSUME NEW buf \in Seq(Batch), NEW at \in Nat
  PROVE  Younger(buf, at) \in Seq(Batch)
<1> DEFINE old == {i \in DOMAIN buf : buf[i].at < at}
<1>1. Len(buf) \in Nat /\ DOMAIN buf = 1 .. Len(buf)
  OBVIOUS
<1>2. IsFiniteSet(1 .. Len(buf))
  <2>1. 1 \in Int /\ Len(buf) \in Int
    BY <1>1
  <2>2. QED
    BY <2>1, FS_Interval
<1>3. Cardinality(old) \in Nat
  <2>1. old \in SUBSET (1 .. Len(buf))
    BY <1>1
  <2>2. IsFiniteSet(old)
    BY <1>2, <2>1, FS_Subset
  <2>3. QED
    BY <2>2, FS_CardinalityType
<1>4. \A i \in Cardinality(old) + 1 .. Len(buf) : buf[i] \in Batch
  BY <1>1, <1>3
<1>5. SubSeq(buf, Cardinality(old) + 1, Len(buf)) \in Seq(Batch)
  <2>1. Cardinality(old) + 1 \in Int /\ Len(buf) \in Int
    BY <1>1, <1>3
  <2> HIDE DEF old
  <2>2. QED
    BY <1>4, <2>1, SubSeqProperties
<1>6. QED
  BY <1>5 DEF Younger

-----------------------------------------------------------------------------
(* Types *)

LEMMA InitType == Init => TypeOK
<1> SUFFICES ASSUME Init PROVE TypeOK
  OBVIOUS
<1>1. Quiet \in [lo : 1 .. MaxRows + 1, hi : 0 .. MaxRows, to : SUBSET Clients]
  BY DEF Quiet
<1>2. NoListener \in [on : BOOLEAN, seen : 0 .. 0, buf : Seq(Batch)] /\ Len(NoListener.buf) = 0
  BY DEF NoListener
<1>3. Idle \in [pc : {"idle"}, of : SUBSET Clients, upTo : 0 .. 0, replay : Seq(Batch)]
  BY DEF Idle
<1>4. /\ conn \in [Clients -> {"new", "attaching", "open", "failed"}]
      /\ outq \in [Clients -> Seq(Event)] /\ got \in [Clients -> SUBSET Rows]
  BY DEF Init
<1>5. QED
  BY <1>1, <1>2, <1>3, <1>4 DEF Init, TypeOK

\* An event of rows of the table is well typed.
LEMMA EmitType ==
  ASSUME TypeOK, NEW c \in Clients, NEW phase \in {"snapshot", "snapshot_boundary", "live"},
         NEW lo \in 1 .. MaxRows + 1, NEW hi \in 0 .. MaxRows, Emit(c, phase, lo, hi)
  PROVE  outq' \in [Clients -> Seq(Event)]
<1>1. [phase |-> phase, lo |-> lo, hi |-> hi] \in Event
  BY DEF Event
<1>2. CASE c \in closed
  BY <1>2 DEF Emit, TypeOK
<1>3. CASE c \notin closed
  <2>1. outq' = [outq EXCEPT ![c] = Append(@, [phase |-> phase, lo |-> lo, hi |-> hi])]
    BY <1>3, Zenon DEF Emit
  <2>2. outq \in [Clients -> Seq(Event)]
    BY Zenon DEF TypeOK
  <2>3. Append(outq[c], [phase |-> phase, lo |-> lo, hi |-> hi]) \in Seq(Event)
    BY <1>1, <2>2
  <2>4. QED
    BY <2>1, <2>2, <2>3, Zenon
<1>4. QED
  BY <1>2, <1>3

LEMMA UpdateType ==
  ASSUME TypeOK, RowAdded \/ UpdateThread
  PROVE  TypeOK'
<1> USE DEF TypeOK, subVars, connVars
<1>1. CASE RowAdded
  BY <1>1 DEF RowAdded
<1>2. CASE OnUpdate
  <2>1. PICK hi \in lsn.seen + 1 .. table :
          /\ lsn' = [lsn EXCEPT !.seen = hi,
                       !.buf = Buffered(@, [lo |-> lsn.seen + 1, hi |-> hi, at |-> table])]
          /\ emitting' = [lo |-> lsn.seen + 1, hi |-> hi, to |-> Subscribers]
    BY <1>2 DEF OnUpdate
  <2>2. [lo |-> lsn.seen + 1, hi |-> hi, at |-> table] \in Batch
    BY DEF Batch, Rows
  <2>3. /\ Buffered(lsn.buf, [lo |-> lsn.seen + 1, hi |-> hi, at |-> table]) \in Seq(Batch)
        /\ Len(Buffered(lsn.buf, [lo |-> lsn.seen + 1, hi |-> hi, at |-> table])) <= BufLen
    BY <2>2, BufferedType
  <2> DEFINE b == Buffered(lsn.buf, [lo |-> lsn.seen + 1, hi |-> hi, at |-> table])
  <2>4. lsn' \in [on : BOOLEAN, seen : 0 .. table, buf : Seq(Batch)] /\ Len(lsn'.buf) <= BufLen
    <3>1. hi \in 0 .. table
      OBVIOUS
    <3>2. lsn' = [lsn EXCEPT !.seen = hi, !.buf = b] /\ b \in Seq(Batch) /\ Len(b) <= BufLen
      BY <2>1, <2>3
    <3> HIDE DEF b
    <3>3. QED
      BY <3>1, <3>2
  <2>5. emitting' \in [lo : 1 .. MaxRows + 1, hi : 0 .. MaxRows, to : SUBSET Clients]
    BY <2>1 DEF Subscribers
  <2>6. QED
    BY <1>2, <2>4, <2>5 DEF OnUpdate
<1>3. ASSUME NEW c \in Clients, Deliver(c) PROVE TypeOK'
  <2>1. outq' \in [Clients -> Seq(Event)]
    <3>1. emitting.lo \in 1 .. MaxRows + 1 /\ emitting.hi \in 0 .. MaxRows
      OBVIOUS
    <3>2. Emit(c, "live", emitting.lo, emitting.hi)
      BY <1>3, Zenon DEF Deliver
    <3>3. QED
      BY <3>1, <3>2, EmitType
  <2>2. emitting' \in [lo : 1 .. MaxRows + 1, hi : 0 .. MaxRows, to : SUBSET Clients]
    <3>1. emitting' = IF emitting.to = {c} THEN Quiet ELSE [emitting EXCEPT !.to = @ \ {c}]
      BY <1>3, Zenon DEF Deliver
    <3>2. Quiet \in [lo : 1 .. MaxRows + 1, hi : 0 .. MaxRows, to : SUBSET Clients]
      BY DEF Quiet
    <3>3. [emitting EXCEPT !.to = @ \ {c}]
            \in [lo : 1 .. MaxRows + 1, hi : 0 .. MaxRows, to : SUBSET Clients]
      OBVIOUS
    <3>4. QED
      BY <3>1, <3>2, <3>3, Zenon
  <2>3. QED
    BY <1>3, <2>1, <2>2 DEF Deliver
<1>4. QED
  BY <1>1, <1>2, <1>3 DEF UpdateThread

LEMMA BatchBounds ==
  ASSUME NEW b \in Batch
  PROVE  b.lo \in 1 .. MaxRows + 1 /\ b.hi \in 0 .. MaxRows
BY DEF Batch, Rows

LEMMA EventBounds ==
  ASSUME NEW e \in Event
  PROVE  e.lo .. e.hi \subseteq Rows
BY DEF Event, Rows

LEMMA AttachType ==
  ASSUME TypeOK, Attach
  PROVE  TypeOK'
<1> USE DEF TypeOK, subVars, connVars
<1>0. /\ Idle \in [pc : {"idle", "ensure", "register", "query", "snapshot", "buffer", "replay"},
                   of : SUBSET Clients, upTo : 0 .. table, replay : Seq(Batch)]
      /\ [c \in Clients |-> IF c \in api.of THEN "failed" ELSE conn[c]]
           \in [Clients -> {"new", "attaching", "open", "failed"}]
  BY DEF Idle
<1>1. CASE Ensure
  <2>1. [on |-> TRUE, seen |-> table, buf |-> <<>>] \in [on : BOOLEAN, seen : 0 .. table, buf : Seq(Batch)]
    OBVIOUS
  <2>2. lsn' \in [on : BOOLEAN, seen : 0 .. table, buf : Seq(Batch)] /\ Len(lsn'.buf) <= BufLen
    <3>1. lsn' = lsn \/ lsn' = [on |-> TRUE, seen |-> table, buf |-> <<>>]
      BY <1>1, Zenon DEF Ensure
    <3>2. Len([on |-> TRUE, seen |-> table, buf |-> <<>>].buf) <= BufLen
      OBVIOUS
    <3>3. QED
      BY <2>1, <3>1, <3>2
  <2>3. QED
    <3>1. refs' \in Nat /\ api' = [api EXCEPT !.pc = "register"]
      BY <1>1 DEF Ensure
    <3>2. api' \in [pc : {"register"}, of : SUBSET Clients, upTo : 0 .. table, replay : Seq(Batch)]
      BY <3>1
    <3>3. UNCHANGED <<table, emitting, handles, leaked, connVars, outq, got, faults>>
      BY <1>1, Zenon DEF Ensure
    <3>4. QED
      BY <2>2, <3>1, <3>2, <3>3
<1>2. CASE EnsureRaises
  <2>1. /\ refs' = refs + 1 /\ leaked' = leaked + 1
        /\ faults < MaxFaults /\ faults' = faults + 1 /\ api' = Idle
        /\ conn' = [c \in Clients |-> IF c \in api.of THEN "failed" ELSE conn[c]]
        /\ UNCHANGED <<table, lsn, emitting, handles, gone, closed, released, outq, got>>
    BY <1>2 DEF EnsureRaises, AttachError
  <2>2. faults' \in 0 .. MaxFaults /\ refs' \in Nat /\ leaked' \in Nat
    BY <2>1
  <2>3. QED
    BY <1>0, <2>1, <2>2, Zenon
<1>3. CASE Register
  BY <1>3 DEF Register
<1>4. CASE Query
  <2>1. api' = [api EXCEPT !.pc = "snapshot", !.upTo = table]
    BY <1>4 DEF Query
  <2>2. api' \in [pc : {"snapshot"}, of : SUBSET Clients, upTo : 0 .. table, replay : Seq(Batch)]
    <3>1. /\ api \in [pc : {"idle", "ensure", "register", "query", "snapshot", "buffer", "replay"},
                       of : SUBSET Clients, upTo : 0 .. table, replay : Seq(Batch)]
          /\ table \in 0 .. table
      OBVIOUS
    <3> HIDE DEF TypeOK
    <3>2. QED
      BY <2>1, <3>1
  <2>3. QED
    BY <1>4, <2>2 DEF Query
<1>5. CASE QueryRaises
  <2>1. /\ UNCHANGED <<refs, leaked>>
        /\ faults < MaxFaults /\ faults' = faults + 1 /\ api' = Idle
        /\ conn' = [c \in Clients |-> IF c \in api.of THEN "failed" ELSE conn[c]]
        /\ UNCHANGED <<table, lsn, emitting, handles, gone, closed, released, outq, got>>
    BY <1>5 DEF QueryRaises, AttachError
  <2>2. faults' \in 0 .. MaxFaults
    BY <2>1
  <2>3. QED
    BY <1>0, <2>1, <2>2, Zenon
<1>6. CASE EmitSnapshot
  <2>1. PICK c \in api.of : Emit(c, "snapshot", 1, api.upTo)
    BY <1>6, Zenon DEF EmitSnapshot
  <2>2. 1 \in 1 .. MaxRows + 1 /\ api.upTo \in 0 .. MaxRows /\ c \in Clients
    OBVIOUS
  <2>3. outq' \in [Clients -> Seq(Event)]
    BY <2>1, <2>2, EmitType
  <2>4. QED
    BY <1>6, <2>3 DEF EmitSnapshot
<1>7. CASE ReadBuffer
  <2>1. Younger(lsn.buf, api.upTo) \in Seq(Batch)
    BY YoungerType
  <2> DEFINE r == IF WithExchange THEN <<>> ELSE Younger(lsn.buf, api.upTo)
  <2>2. api' \in [pc : {"replay"}, of : SUBSET Clients, upTo : 0 .. table, replay : Seq(Batch)]
    <3>1. r \in Seq(Batch)
      BY <2>1
    <3>2. api' = [api EXCEPT !.pc = "replay", !.replay = r]
      BY <1>7, Zenon DEF ReadBuffer
    <3> HIDE DEF r
    <3>3. QED
      BY <3>1, <3>2
  <2>3. QED
    BY <1>7, <2>2 DEF ReadBuffer
<1>8. CASE EmitReplay
  <2>1. PICK c \in api.of : /\ Emit(c, "snapshot", Head(api.replay).lo, Head(api.replay).hi)
                            /\ api.replay # <<>>
                            /\ api' = [api EXCEPT !.replay = Tail(@)]
    BY <1>8, Zenon DEF EmitReplay
  <2>2. Head(api.replay) \in Batch /\ Tail(api.replay) \in Seq(Batch) /\ c \in Clients
    BY <2>1, HeadTailProperties
  <2>3. Head(api.replay).lo \in 1 .. MaxRows + 1 /\ Head(api.replay).hi \in 0 .. MaxRows
    BY <2>2, BatchBounds
  <2>4. outq' \in [Clients -> Seq(Event)]
    BY <2>1, <2>2, <2>3, EmitType
  <2>5. api' \in [pc : {"idle", "ensure", "register", "query", "snapshot", "buffer", "replay"},
                  of : SUBSET Clients, upTo : 0 .. table, replay : Seq(Batch)]
    BY <2>1, <2>2
  <2>6. QED
    BY <1>8, <2>4, <2>5 DEF EmitReplay
<1>9. CASE EmitBoundary
  <2>1. PICK c \in api.of : /\ Emit(c, "snapshot_boundary", 1, 0)
                            /\ conn' = [conn EXCEPT ![c] = "open"]
    BY <1>9, Zenon DEF EmitBoundary
  <2>2. 1 \in 1 .. MaxRows + 1 /\ 0 \in 0 .. MaxRows /\ c \in Clients
    OBVIOUS
  <2>3. outq' \in [Clients -> Seq(Event)]
    BY <2>1, <2>2, EmitType
  <2>4. conn' \in [Clients -> {"new", "attaching", "open", "failed"}]
    BY <2>1
  <2>5. /\ api' = Idle
        /\ UNCHANGED <<table, lsn, emitting, subVars, gone, closed, released, got, faults>>
    BY <1>9, Zenon DEF EmitBoundary
  <2>6. QED
    BY <1>0, <2>3, <2>4, <2>5
<1>10. QED
  BY <1>1, <1>2, <1>3, <1>4, <1>5, <1>6, <1>7, <1>8, <1>9 DEF Attach

LEMMA ConnectionType ==
  ASSUME TypeOK, NEW c \in Clients, AttachStart(c) \/ Disconnect(c) \/ Send(c) \/ Unsubscribe(c)
  PROVE  TypeOK'
<1> USE DEF TypeOK, subVars, connVars
<1>1. CASE AttachStart(c)
  <2>1. api' = [Idle EXCEPT !.pc = "ensure", !.of = {c}] /\ conn' = [conn EXCEPT ![c] = "attaching"]
    BY <1>1 DEF AttachStart
  <2>2. /\ api' \in [pc : {"ensure"}, of : SUBSET Clients, upTo : 0 .. table, replay : Seq(Batch)]
        /\ conn' \in [Clients -> {"new", "attaching", "open", "failed"}]
    <3>1. api' = [pc |-> "ensure", of |-> {c}, upTo |-> 0, replay |-> <<>>]
      BY <2>1 DEF Idle
    <3>2. <<>> \in Seq(Batch) /\ 0 \in 0 .. table
      OBVIOUS
    <3>3. {c} \in SUBSET Clients
      OBVIOUS
    <3>4. conn' \in [Clients -> {"new", "attaching", "open", "failed"}]
      BY <2>1
    <3> HIDE DEF TypeOK
    <3>5. QED
      BY <3>1, <3>2, <3>3, <3>4
  <2>3. QED
    BY <1>1, <2>2 DEF AttachStart
<1>2. CASE Disconnect(c)
  BY <1>2 DEF Disconnect
<1>3. CASE Send(c)
  <2>1. outq[c] \in Seq(Event) /\ outq[c] # <<>> /\ outq' = [outq EXCEPT ![c] = Tail(@)]
    BY <1>3 DEF Send
  <2>2. Head(outq[c]) \in Event /\ Tail(outq[c]) \in Seq(Event)
    BY <2>1, HeadTailProperties
  <2>3. outq' \in [Clients -> Seq(Event)]
    BY <2>1, <2>2
  <2>4. Head(outq[c]).lo .. Head(outq[c]).hi \subseteq Rows
    BY <2>2, EventBounds
  <2>5. got' \in [Clients -> SUBSET Rows] /\ closed' \subseteq Clients
    <3>1. \/ got' = got \/ got' = [got EXCEPT ![c] = @ \union (Head(outq[c]).lo .. Head(outq[c]).hi)]
      BY <1>3, Zenon DEF Send
    <3>2. closed' = closed \/ closed' = closed \union {c}
      BY <1>3, Zenon DEF Send
    <3>3. got' \in [Clients -> SUBSET Rows]
      <4> DEFINE sent == Head(outq[c]).lo .. Head(outq[c]).hi
      <4>1. got \in [Clients -> SUBSET Rows]
        OBVIOUS
      <4>2. got[c] \union sent \in SUBSET Rows
        BY <2>4, <4>1
      <4>3. got' = got \/ got' = [got EXCEPT ![c] = got[c] \union sent]
        BY <3>1
      <4> HIDE DEF sent, TypeOK
      <4>4. QED
        BY <4>1, <4>2, <4>3
    <3>4. closed' \subseteq Clients
      BY <3>2
    <3>5. QED
      BY <3>3, <3>4
  <2>6. QED
    BY <1>3, <2>3, <2>5 DEF Send
<1>4. CASE Unsubscribe(c)
  <2>1. NoListener \in [on : BOOLEAN, seen : 0 .. table, buf : Seq(Batch)] /\ Len(NoListener.buf) <= BufLen
    BY DEF NoListener
  <2>2. /\ lsn' \in [on : BOOLEAN, seen : 0 .. table, buf : Seq(Batch)] /\ Len(lsn'.buf) <= BufLen
        /\ handles' \subseteq Clients /\ refs' \in Nat
    BY <1>4, <2>1 DEF Unsubscribe
  <2>3. QED
    BY <1>4, <2>2 DEF Unsubscribe
<1>5. QED
  BY <1>1, <1>2, <1>3, <1>4

LEMMA TypeStep ==
  ASSUME TypeOK, [Next]_vars
  PROVE  TypeOK'
<1>1. CASE UNCHANGED vars
  BY <1>1 DEF TypeOK, vars, subVars, connVars
<1>2. CASE Next
  BY <1>2, UpdateType, AttachType, ConnectionType DEF Next
<1>3. QED
  BY <1>1, <1>2

\* Every variable of the fan-out has its type, for any clients, rows and ring length.
THEOREM TypeCorrect == Spec => []TypeOK
BY InitType, TypeStep, PTL DEF Spec

-----------------------------------------------------------------------------
(* References *)

Refs == Subscribed /\ RefsExact /\ ListenerServes

LEMMA InitRefs == Init => Refs
<1>1. IsFiniteSet({}) /\ Cardinality({}) = 0
  BY FS_EmptySet
<1>2. QED
  BY <1>1 DEF Init, Refs, Subscribed, RefsExact, ListenerServes, Idle, NoListener

\* The steps that leave subscriptions, references and the attach in progress alone.
LEMMA OtherRefs ==
  ASSUME Refs, UNCHANGED <<subVars, api, connVars>>, lsn'.on = lsn.on
  PROVE  Refs'
BY DEF Refs, Subscribed, RefsExact, ListenerServes, Idle, subVars, connVars

LEMMA AttachRefs ==
  ASSUME TypeOK, Refs, Attach
  PROVE  Refs'
<1> USE DEF Refs, Subscribed, RefsExact, ListenerServes
<1>0. /\ refs \in Nat /\ leaked \in Nat /\ Cardinality(handles) \in Nat
      /\ conn \in [Clients -> {"new", "attaching", "open", "failed"}]
      /\ api \in [pc : {"idle", "ensure", "register", "query", "snapshot", "buffer", "replay"},
                  of : SUBSET Clients, upTo : 0 .. table, replay : Seq(Batch)]
      /\ lsn \in [on : BOOLEAN, seen : 0 .. table, buf : Seq(Batch)]
  BY FS_CardinalityType DEF TypeOK
<1>00. PICK c \in Clients : api.pc # "idle" => api.of = {c} /\ conn[c] = "attaching"
  BY DEF TypeOK
<1>1. CASE Ensure
  <2>1. /\ api.pc = "ensure" /\ refs' = refs + 1
        /\ api' = [api EXCEPT !.pc = "register"]
        /\ lsn' = lsn \/ lsn' = [on |-> TRUE, seen |-> table, buf |-> <<>>]
        /\ lsn.on => lsn' = lsn
        /\ ~lsn.on => lsn' = [on |-> TRUE, seen |-> table, buf |-> <<>>]
        /\ UNCHANGED <<handles, leaked, conn, released, closed, gone>>
    BY <1>1, Zenon DEF Ensure, connVars
  <2>2. lsn'.on /\ api'.pc = "register" /\ api'.of = api.of
    BY <1>0, <2>1
  <2>3. RefsExact' /\ ListenerServes'
    BY <1>0, <2>1, <2>2
  <2>4. api.of = {c} /\ conn[c] = "attaching"
    BY <1>00, <2>1
  <2>5. Subscribed'
    BY <2>1, <2>2, <2>4
  <2>6. QED
    BY <2>3, <2>5
<1>2. CASE EnsureRaises
  <2>1. /\ api.pc = "ensure" /\ ~lsn.on /\ refs' = refs + 1 /\ leaked' = leaked + 1
        /\ api' = Idle
        /\ conn' = [x \in Clients |-> IF x \in api.of THEN "failed" ELSE conn[x]]
        /\ UNCHANGED <<lsn, handles, released, closed, gone>>
    BY <1>2, Zenon DEF EnsureRaises, AttachError
  <2>2. QED
    BY <1>0, <1>00, <2>1 DEF Idle
<1>3. CASE Register
  <2>1. /\ api.pc = "register" /\ handles' = handles \union api.of
        /\ api' = [api EXCEPT !.pc = "query"]
        /\ UNCHANGED <<lsn, refs, leaked, conn, released, closed, gone>>
    BY <1>3, Zenon DEF Register, connVars
  <2>2. api.of = {c} /\ conn[c] = "attaching" /\ c \notin handles
    BY <1>00, <2>1
  <2>3. IsFiniteSet(handles') /\ Cardinality(handles') = Cardinality(handles) + 1
    BY <2>1, <2>2, FS_AddElement
  <2>4. api'.pc = "query" /\ api'.of = {c}
    BY <1>0, <2>1, <2>2
  <2>5. RefsExact' /\ ListenerServes'
    BY <1>0, <2>1, <2>3, <2>4
  <2>6. Subscribed'
    BY <1>0, <2>1, <2>2, <2>3, <2>4
  <2>7. QED
    BY <2>5, <2>6
<1>4. CASE QueryRaises
  <2>1. /\ api.pc = "query" /\ api' = Idle
        /\ conn' = [x \in Clients |-> IF x \in api.of THEN "failed" ELSE conn[x]]
        /\ UNCHANGED <<lsn, handles, released, closed, gone, refs, leaked>>
    BY <1>4, Zenon DEF QueryRaises, AttachError
  <2>2. QED
    BY <1>0, <1>00, <2>1 DEF Idle
<1>5. CASE Query \/ EmitSnapshot \/ ReadBuffer \/ EmitReplay
  <2>1. /\ UNCHANGED <<handles, refs, leaked, conn, released, closed, gone, lsn>>
        /\ api'.of = api.of
        /\ api.pc \in {"query", "snapshot", "buffer", "replay"}
        /\ api'.pc \in {"query", "snapshot", "buffer", "replay"}
    BY <1>0, <1>5 DEF Query, EmitSnapshot, ReadBuffer, EmitReplay, subVars, connVars
  <2>2. QED
    BY <1>0, <1>00, <2>1
<1>6. CASE EmitBoundary
  <2>1. PICK x \in api.of : conn' = [conn EXCEPT ![x] = "open"]
    BY <1>6, Zenon DEF EmitBoundary
  <2>2. api.pc = "replay" /\ api' = Idle /\ UNCHANGED <<lsn, handles, refs, leaked, released, closed, gone>>
    BY <1>6, Zenon DEF EmitBoundary, subVars
  <2>3. x = c /\ c \in handles /\ conn[c] = "attaching"
    BY <1>00, <2>1, <2>2
  <2>4. QED
    BY <1>0, <1>00, <2>1, <2>2, <2>3 DEF Idle
<1>7. QED
  BY <1>1, <1>2, <1>3, <1>4, <1>5, <1>6 DEF Attach

LEMMA ConnectionRefs ==
  ASSUME TypeOK, Refs, NEW c \in Clients, AttachStart(c) \/ Disconnect(c) \/ Send(c) \/ Unsubscribe(c)
  PROVE  Refs'
<1> USE DEF Refs, Subscribed, RefsExact, ListenerServes
<1>0. /\ refs \in Nat /\ leaked \in Nat /\ Cardinality(handles) \in Nat
      /\ conn \in [Clients -> {"new", "attaching", "open", "failed"}]
      /\ lsn.on \in BOOLEAN
  BY FS_CardinalityType DEF TypeOK
<1>1. CASE AttachStart(c)
  <2>1. /\ api = Idle /\ conn[c] = "new" /\ conn' = [conn EXCEPT ![c] = "attaching"]
        /\ api' = [Idle EXCEPT !.pc = "ensure", !.of = {c}]
        /\ UNCHANGED <<lsn, handles, refs, leaked, closed, gone, released>>
    BY <1>1, Zenon DEF AttachStart, subVars
  <2>2. api.pc = "idle" /\ api'.pc = "ensure" /\ api'.of = {c}
    BY <2>1 DEF Idle
  <2>3. c \notin closed /\ c \notin handles /\ api.of = {}
    BY <2>1 DEF Idle
  <2>4. conn'[c] = "attaching" /\ \A x \in Clients \ {c} : conn'[x] = conn[x]
    BY <1>0, <2>1
  <2>5. RefsExact' /\ ListenerServes'
    BY <1>0, <2>1, <2>2
  <2>6. Subscribed'
    BY <1>0, <2>1, <2>2, <2>3, <2>4
  <2>7. QED
    BY <2>5, <2>6
<1>2. CASE Unsubscribe(c)
  <2>1. /\ api = Idle /\ c \in closed /\ c \notin released /\ released' = released \union {c}
        /\ UNCHANGED <<api, conn, closed, gone, leaked>>
    BY <1>2, Zenon DEF Unsubscribe
  <2>2. api.pc = "idle" /\ api.of = {}
    BY <2>1 DEF Idle
  <2>3. CASE conn[c] = "open"
    <3>1. /\ handles' = handles \ {c} /\ refs' = (IF refs > 0 THEN refs - 1 ELSE 0)
          /\ lsn' = IF refs' > 0 THEN lsn ELSE NoListener
      BY <1>2, <2>3, Zenon DEF Unsubscribe
    <3>2. c \in handles
      BY <2>1, <2>3
    <3>3. IsFiniteSet(handles') /\ Cardinality(handles') = Cardinality(handles) - 1
      BY <3>1, <3>2, FS_RemoveElement
    <3>4. Cardinality(handles') \in Nat /\ (Cardinality(handles') = 0 <=> handles' = {})
      BY <3>3, FS_CardinalityType, FS_EmptySet
    <3>5. refs = Cardinality(handles) + leaked /\ refs' = Cardinality(handles') + leaked
      BY <1>0, <2>2, <3>1, <3>3, <3>4
    <3>6. (lsn'.on => refs' > 0) /\ (handles' # {} => lsn'.on)
      BY <1>0, <3>1, <3>2, <3>4, <3>5 DEF NoListener
    <3>7. QED
      BY <1>0, <2>1, <2>2, <3>1, <3>3, <3>5, <3>6
  <2>4. CASE conn[c] # "open"
    <3>1. UNCHANGED <<handles, refs, lsn>>
      BY <1>2, <2>4, Zenon DEF Unsubscribe
    <3>2. QED
      BY <1>0, <2>1, <2>2, <2>4, <3>1
  <2>5. QED
    BY <2>3, <2>4
<1>3. CASE Disconnect(c)
  <2>1. /\ conn[c] # "new" /\ gone' = gone \union {c}
        /\ UNCHANGED <<lsn, subVars, api, conn, closed, released>>
    BY <1>3, Zenon DEF Disconnect
  <2>2. QED
    BY <1>0, <2>1 DEF subVars
<1>4. CASE Send(c)
  <2>1. /\ api = Idle /\ (closed' = closed \/ (closed' = closed \union {c} /\ conn[c] # "new"))
        /\ UNCHANGED <<lsn, subVars, api, conn, gone, released>>
    <3>1. \/ closed' = closed
          \/ closed' = closed \union {c} /\ (c \in gone \/ conn[c] = "failed")
      BY <1>4, Zenon DEF Send
    <3>2. api = Idle /\ UNCHANGED <<lsn, subVars, api, conn, gone, released>>
      BY <1>4, Zenon DEF Send
    <3>3. QED
      BY <3>1, <3>2
  <2>2. QED
    BY <1>0, <2>1 DEF subVars, Idle
<1>5. QED
  BY <1>1, <1>2, <1>3, <1>4

LEMMA RefsStep ==
  ASSUME TypeOK, Refs, [Next]_vars
  PROVE  Refs'
<1>1. CASE UNCHANGED vars
  BY <1>1, OtherRefs DEF vars
<1>2. CASE RowAdded
  BY <1>2, OtherRefs DEF RowAdded
<1>3. CASE UpdateThread
  <2>1. CASE OnUpdate
    <3>1. UNCHANGED <<subVars, api, connVars>>
      BY <2>1, Zenon DEF OnUpdate
    <3>2. lsn'.on = lsn.on
      BY <2>1 DEF OnUpdate, TypeOK
    <3>3. QED
      BY <3>1, <3>2, OtherRefs
  <2>2. ASSUME NEW c \in Clients, Deliver(c) PROVE Refs'
    BY <2>2, OtherRefs DEF Deliver
  <2>3. QED
    BY <1>3, <2>1, <2>2 DEF UpdateThread
<1>4. QED
  BY <1>1, <1>2, <1>3, AttachRefs, ConnectionRefs DEF Next

\* Every reference has its reason, for any clients and failures.
THEOREM ReferencesExact == Spec => []RefsExact
<1>1. TypeOK /\ Refs /\ [Next]_vars => Refs'
  BY RefsStep
<1>2. Refs => RefsExact
  BY DEF Refs
<1>3. QED
  BY <1>1, <1>2, InitRefs, TypeCorrect, PTL DEF Spec

\* No subscriber loses the listener of its stream.
THEOREM SubscribersServed == Spec => []ListenerServes
<1>1. TypeOK /\ Refs /\ [Next]_vars => Refs'
  BY RefsStep
<1>2. Refs => ListenerServes
  BY DEF Refs
<1>3. QED
  BY <1>1, <1>2, InitRefs, TypeCorrect, PTL DEF Spec

-----------------------------------------------------------------------------
(* The promise of attach_gapless *)

\* The rows a client has, has queued, or is about to be handed.
Covered(c) ==
  got[c] \union RowsOf(outq[c]) \union
    (IF c \in emitting.to THEN emitting.lo .. emitting.hi ELSE {})

\* What Gapless says of an attached client, already said of one that attaches: before
\* its snapshot it lacks no row above the watermark, after it no row at all.
PromiseTo(c) ==
  /\ conn[c] = "open" => 1 .. lsn.seen \subseteq Covered(c)
  /\ c \in api.of /\ api.pc = "snapshot" => api.upTo + 1 .. lsn.seen \subseteq Covered(c)
  /\ c \in api.of /\ api.pc \in {"buffer", "replay"} => 1 .. lsn.seen \subseteq Covered(c)

Promise == \A c \in Clients : c \notin closed /\ c \notin gone => PromiseTo(c)

LEMMA RowsOfAppend ==
  ASSUME NEW q \in Seq(Event), NEW e \in Event
  PROVE  RowsOf(Append(q, e)) = RowsOf(q) \union (e.lo .. e.hi)
<1>1. /\ DOMAIN Append(q, e) = 1 .. Len(q) + 1 /\ DOMAIN q = 1 .. Len(q) /\ Len(q) \in Nat
      /\ Append(q, e)[Len(q) + 1] = e
      /\ \A i \in 1 .. Len(q) : Append(q, e)[i] = q[i]
  OBVIOUS
<1>2. 1 .. Len(q) + 1 = (1 .. Len(q)) \union {Len(q) + 1}
  BY <1>1
<1>3. QED
  BY <1>1, <1>2 DEF RowsOf

LEMMA RowsOfTail ==
  ASSUME NEW q \in Seq(Event), q # <<>>
  PROVE  RowsOf(q) \subseteq (Head(q).lo .. Head(q).hi) \union RowsOf(Tail(q))
<1>1. /\ DOMAIN q = 1 .. Len(q) /\ Len(q) \in Nat \ {0} /\ Head(q) = q[1]
      /\ DOMAIN Tail(q) = 1 .. Len(q) - 1
      /\ \A i \in 1 .. Len(q) - 1 : Tail(q)[i] = q[i + 1]
  OBVIOUS
<1>2. ASSUME NEW i \in 1 .. Len(q), i # 1
      PROVE  i - 1 \in DOMAIN Tail(q) /\ Tail(q)[i - 1] = q[i]
  BY <1>1, <1>2
<1>3. ASSUME NEW r \in RowsOf(q)
      PROVE  r \in (Head(q).lo .. Head(q).hi) \union RowsOf(Tail(q))
  <2>1. PICK i \in 1 .. Len(q) : r \in q[i].lo .. q[i].hi
    BY <1>1 DEF RowsOf
  <2>2. CASE i = 1
    BY <1>1, <2>1, <2>2
  <2>3. CASE i # 1
    <3>1. i - 1 \in DOMAIN Tail(q) /\ r \in Tail(q)[i - 1].lo .. Tail(q)[i - 1].hi
      BY <1>2, <2>1, <2>3
    <3>2. QED
      BY <3>1 DEF RowsOf
  <2>4. QED
    BY <2>2, <2>3
<1>4. QED
  BY <1>3

\* What an event adds to the queue of a client that is not closed, and of the others.
LEMMA EmitCovers ==
  ASSUME TypeOK, NEW c \in Clients, NEW phase \in {"snapshot", "snapshot_boundary", "live"},
         NEW lo \in 1 .. MaxRows + 1, NEW hi \in 0 .. MaxRows, Emit(c, phase, lo, hi)
  PROVE  /\ \A x \in Clients : RowsOf(outq[x]) \subseteq RowsOf(outq'[x])
         /\ c \notin closed => lo .. hi \subseteq RowsOf(outq'[c])
<1> DEFINE e == [phase |-> phase, lo |-> lo, hi |-> hi]
<1>1. outq \in [Clients -> Seq(Event)]
  BY DEF TypeOK
<1>2. e \in Event /\ e.lo = lo /\ e.hi = hi
  BY DEF Event
<1>3. outq' = IF c \in closed THEN outq ELSE [outq EXCEPT ![c] = Append(@, e)]
  BY Zenon DEF Emit
<1> HIDE DEF e
<1>4. RowsOf(Append(outq[c], e)) = RowsOf(outq[c]) \union (lo .. hi)
  BY <1>1, <1>2, RowsOfAppend
<1>5. QED
  BY <1>1, <1>3, <1>4

\* What a client that stays has covered it keeps.
LEMMA CoveredKept ==
  ASSUME TypeOK, [Next]_vars, NEW c \in Clients, c \notin closed', c \notin gone'
  PROVE  Covered(c) \subseteq Covered(c)'
<1> USE DEF Covered
<1>0. /\ outq \in [Clients -> Seq(Event)] /\ got \in [Clients -> SUBSET Rows]
      /\ emitting \in [lo : 1 .. MaxRows + 1, hi : 0 .. MaxRows, to : SUBSET Clients]
      /\ closed \subseteq Clients
  BY DEF TypeOK
<1>1. CASE UNCHANGED <<got, outq, emitting>>
  BY <1>1
<1>2. CASE OnUpdate
  <2>1. emitting.to = {} /\ UNCHANGED <<got, outq>>
    BY <1>2, Zenon DEF OnUpdate
  <2>2. QED
    BY <2>1
<1>3. ASSUME NEW x \in Clients, Deliver(x)
      PROVE  Covered(c) \subseteq Covered(c)'
  <2>1. /\ Emit(x, "live", emitting.lo, emitting.hi) /\ UNCHANGED <<got, closed>>
        /\ emitting' = IF emitting.to = {x} THEN Quiet ELSE [emitting EXCEPT !.to = @ \ {x}]
    BY <1>3, Zenon DEF Deliver, connVars
  <2>2. /\ \A y \in Clients : RowsOf(outq[y]) \subseteq RowsOf(outq'[y])
        /\ x \notin closed => emitting.lo .. emitting.hi \subseteq RowsOf(outq'[x])
    <3>1. emitting.lo \in 1 .. MaxRows + 1 /\ emitting.hi \in 0 .. MaxRows
      BY <1>0
    <3>2. QED
      BY <2>1, <3>1, EmitCovers
  <2>3. CASE c = x
    BY <2>1, <2>2, <2>3
  <2>4. CASE c # x
    <3>1. c \in emitting.to => /\ c \in emitting'.to
                               /\ emitting'.lo = emitting.lo /\ emitting'.hi = emitting.hi
      BY <1>0, <2>1, <2>4
    <3>2. QED
      BY <2>1, <2>2, <3>1
  <2>5. QED
    BY <2>3, <2>4
<1>4. ASSUME NEW x \in Clients, Send(x)
      PROVE  Covered(c) \subseteq Covered(c)'
  <2>1. outq[x] # <<>> /\ outq' = [outq EXCEPT ![x] = Tail(@)] /\ UNCHANGED emitting
    BY <1>4, Zenon DEF Send
  <2>2. CASE c # x
    <3>1. outq'[c] = outq[c]
      BY <1>0, <2>1, <2>2
    <3>2. \/ got' = got
          \/ got' = [got EXCEPT ![x] = @ \union (Head(outq[x]).lo .. Head(outq[x]).hi)]
      BY <1>4, Zenon DEF Send
    <3>3. got'[c] = got[c]
      BY <1>0, <2>2, <3>2
    <3>4. QED
      BY <2>1, <3>1, <3>3
  <2>3. CASE c = x
    <3>1. c \notin gone /\ c \notin closed
      BY <1>4, <2>3 DEF Send
    <3>2. got' = [got EXCEPT ![c] = @ \union (Head(outq[c]).lo .. Head(outq[c]).hi)]
      <4>1. c \in closed' \/ got' = [got EXCEPT ![c] = @ \union (Head(outq[c]).lo .. Head(outq[c]).hi)]
        BY <1>4, <2>3, <3>1, Zenon DEF Send
      <4>2. QED
        BY <4>1
    <3>3. got'[c] = got[c] \union (Head(outq[c]).lo .. Head(outq[c]).hi)
      BY <1>0, <3>2
    <3>4. outq'[c] = Tail(outq[c]) /\ outq[c] # <<>> /\ outq[c] \in Seq(Event)
      BY <1>0, <2>1, <2>3
    <3>5. RowsOf(outq[c]) \subseteq (Head(outq[c]).lo .. Head(outq[c]).hi) \union RowsOf(Tail(outq[c]))
      BY <3>4, RowsOfTail
    <3>6. QED
      BY <2>1, <3>3, <3>4, <3>5
  <2>4. QED
    BY <2>2, <2>3
<1>5. CASE EmitSnapshot \/ EmitReplay \/ EmitBoundary
  <2>1. UNCHANGED <<got, emitting>>
    BY <1>5, Zenon DEF EmitSnapshot, EmitReplay, EmitBoundary
  <2>2. RowsOf(outq[c]) \subseteq RowsOf(outq'[c])
    <3>1. CASE EmitSnapshot
      <4>1. PICK x \in api.of : Emit(x, "snapshot", 1, api.upTo)
        BY <3>1, Zenon DEF EmitSnapshot
      <4>2. x \in Clients /\ 1 \in 1 .. MaxRows + 1 /\ api.upTo \in 0 .. MaxRows
        BY DEF TypeOK
      <4>3. QED
        BY <4>1, <4>2, EmitCovers
    <3>2. CASE EmitReplay
      <4>1. PICK x \in api.of : /\ Emit(x, "snapshot", Head(api.replay).lo, Head(api.replay).hi)
                                /\ api.replay # <<>>
        BY <3>2, Zenon DEF EmitReplay
      <4>2. x \in Clients /\ Head(api.replay) \in Batch
        BY <4>1, HeadTailProperties DEF TypeOK
      <4>3. Head(api.replay).lo \in 1 .. MaxRows + 1 /\ Head(api.replay).hi \in 0 .. MaxRows
        BY <4>2, BatchBounds
      <4>4. QED
        BY <4>1, <4>2, <4>3, EmitCovers
    <3>3. CASE EmitBoundary
      <4>1. PICK x \in api.of : Emit(x, "snapshot_boundary", 1, 0)
        BY <3>3, Zenon DEF EmitBoundary
      <4>2. x \in Clients /\ 1 \in 1 .. MaxRows + 1 /\ 0 \in 0 .. MaxRows
        BY DEF TypeOK
      <4>3. QED
        BY <4>1, <4>2, EmitCovers
    <3>4. QED
      BY <1>5, <3>1, <3>2, <3>3
  <2>3. QED
    BY <2>1, <2>2
<1>6. CASE RowAdded \/ Ensure \/ EnsureRaises \/ Register \/ Query \/ QueryRaises \/ ReadBuffer
  BY <1>1, <1>6, Zenon
     DEF RowAdded, Ensure, EnsureRaises, AttachError, Register, Query, QueryRaises, ReadBuffer
<1>7. ASSUME NEW x \in Clients, AttachStart(x) \/ Disconnect(x) \/ Unsubscribe(x)
      PROVE  Covered(c) \subseteq Covered(c)'
  BY <1>1, <1>7, Zenon DEF AttachStart, Disconnect, Unsubscribe
<1>8. CASE UNCHANGED vars
  BY <1>1, <1>8 DEF vars
<1>9. QED
  BY <1>2, <1>3, <1>4, <1>5, <1>6, <1>7, <1>8 DEF Next, UpdateThread, Attach

LEMMA PromiseStep ==
  ASSUME TypeOK, Refs, Promise, [Next]_vars
  PROVE  Promise'
<1> SUFFICES ASSUME NEW c \in Clients, c \notin closed', c \notin gone'
             PROVE  PromiseTo(c)'
  BY DEF Promise
<1>0. /\ api \in [pc : {"idle", "ensure", "register", "query", "snapshot", "buffer", "replay"},
                  of : SUBSET Clients, upTo : 0 .. table, replay : Seq(Batch)]
      /\ lsn \in [on : BOOLEAN, seen : 0 .. table, buf : Seq(Batch)]
      /\ conn \in [Clients -> {"new", "attaching", "open", "failed"}]
      /\ table \in Nat
  BY DEF TypeOK
<1>1. Covered(c) \subseteq Covered(c)'
  BY CoveredKept
<1>2. c \notin closed /\ c \notin gone
  <2>1. closed \subseteq closed' /\ gone \subseteq gone'
    <3>1. CASE UNCHANGED <<closed, gone>>
      BY <3>1
    <3>2. CASE UNCHANGED vars
      BY <3>1, <3>2 DEF vars, connVars
    <3>3. CASE Next
      <4>1. CASE RowAdded \/ UpdateThread
        BY <3>1, <4>1, Zenon DEF RowAdded, UpdateThread, OnUpdate, Deliver, connVars
      <4>2. CASE Attach
        BY <3>1, <4>2, Zenon
           DEF Attach, Ensure, EnsureRaises, AttachError, Register, Query, QueryRaises,
               EmitSnapshot, ReadBuffer, EmitReplay, EmitBoundary, connVars
      <4>3. ASSUME NEW x \in Clients, AttachStart(x) \/ Disconnect(x) \/ Send(x) \/ Unsubscribe(x)
            PROVE  closed \subseteq closed' /\ gone \subseteq gone'
        <5>1. \/ UNCHANGED <<closed, gone>>
              \/ UNCHANGED closed /\ gone' = gone \union {x}
              \/ UNCHANGED gone /\ closed' = closed \union {x}
          BY <4>3, Zenon DEF AttachStart, Disconnect, Send, Unsubscribe
        <5>2. QED
          BY <5>1
      <4>4. QED
        BY <3>3, <4>1, <4>2, <4>3 DEF Next
    <3>4. QED
      BY <3>2, <3>3
  <2>2. QED
    BY <2>1
<1>3. PromiseTo(c)
  BY <1>2 DEF Promise
\* Who has been attached, and the client an attach has come to, is a subscriber.
<1>4. /\ conn[c] = "open" => c \in handles
      /\ c \in api.of /\ api.pc \in {"query", "snapshot", "buffer", "replay"} => c \in handles
      /\ handles # {} => lsn.on
      /\ c \in api.of => api.of = {c}
  BY <1>2 DEF Refs, Subscribed, ListenerServes, Idle
<1> USE DEF PromiseTo
<1>5. ASSUME lsn'.seen \in {lsn.seen, 0}, UNCHANGED <<conn, api>>
      PROVE  PromiseTo(c)'
  BY <1>0, <1>1, <1>3, <1>5
<1>6. ASSUME lsn' = lsn, conn'[c] = "open" => conn[c] = "open",
             api'.pc \in {"idle", "ensure", "register", "query"}
      PROVE  PromiseTo(c)'
  BY <1>1, <1>3, <1>6
<1>7. CASE OnUpdate
  <2>1. PICK hi \in lsn.seen + 1 .. table :
          /\ lsn' = [lsn EXCEPT !.seen = hi,
                       !.buf = Buffered(@, [lo |-> lsn.seen + 1, hi |-> hi, at |-> table])]
          /\ emitting' = [lo |-> lsn.seen + 1, hi |-> hi, to |-> handles]
    BY <1>7 DEF OnUpdate, Subscribers
  <2>2. lsn'.seen = hi /\ UNCHANGED <<conn, api>>
    BY <1>0, <1>7, <2>1 DEF OnUpdate, connVars
  <2>3. CASE c \in handles
    <3>1. lsn.seen + 1 .. hi \subseteq Covered(c)'
      BY <2>1, <2>3 DEF Covered
    <3>2. /\ 1 .. hi \subseteq (1 .. lsn.seen) \union (lsn.seen + 1 .. hi)
          /\ api.upTo + 1 .. hi \subseteq (api.upTo + 1 .. lsn.seen) \union (lsn.seen + 1 .. hi)
      BY <1>0
    <3>3. QED
      BY <1>1, <1>3, <2>2, <3>1, <3>2
  <2>4. CASE c \notin handles
    BY <1>4, <2>2, <2>4
  <2>5. QED
    BY <2>3, <2>4
<1>8. CASE RowAdded \/ \E x \in Clients : Deliver(x) \/ Disconnect(x) \/ Send(x)
  <2>1. UNCHANGED <<lsn, conn, api>>
    BY <1>8, Zenon DEF RowAdded, Deliver, Disconnect, Send, connVars
  <2>2. QED
    BY <1>5, <2>1
<1>9. ASSUME NEW x \in Clients, Unsubscribe(x)
      PROVE  PromiseTo(c)'
  <2>1. (lsn' = lsn \/ lsn' = NoListener) /\ UNCHANGED <<conn, api>>
    BY <1>9, Zenon DEF Unsubscribe
  <2>2. QED
    BY <1>5, <2>1 DEF NoListener
<1>10. ASSUME NEW x \in Clients, AttachStart(x)
       PROVE  PromiseTo(c)'
  <2>1. /\ lsn' = lsn /\ conn' = [conn EXCEPT ![x] = "attaching"]
        /\ api' = [Idle EXCEPT !.pc = "ensure", !.of = {x}]
    BY <1>10, Zenon DEF AttachStart
  <2>2. api'.pc = "ensure"
    BY <2>1 DEF Idle
  <2>3. QED
    BY <1>0, <1>6, <2>1, <2>2
<1>11. CASE Ensure
  <2>1. /\ conn' = conn /\ (lsn.on => lsn' = lsn) /\ api' = [api EXCEPT !.pc = "register"]
    BY <1>11, Zenon DEF Ensure, connVars
  <2>2. api'.pc = "register"
    BY <1>0, <2>1
  <2>3. CASE lsn.on
    BY <1>6, <2>1, <2>2, <2>3
  <2>4. CASE ~lsn.on
    BY <1>4, <2>1, <2>2, <2>4
  <2>5. QED
    BY <2>3, <2>4
<1>12. CASE EnsureRaises \/ QueryRaises
  <2>1. /\ lsn' = lsn /\ api' = Idle
        /\ conn' = [x \in Clients |-> IF x \in api.of THEN "failed" ELSE conn[x]]
    BY <1>12, Zenon DEF EnsureRaises, QueryRaises, AttachError
  <2>2. QED
    BY <1>0, <1>6, <2>1 DEF Idle
<1>13. CASE Register
  <2>1. UNCHANGED <<lsn, conn>> /\ api' = [api EXCEPT !.pc = "query"]
    BY <1>13, Zenon DEF Register, connVars
  <2>2. QED
    BY <1>0, <1>6, <2>1
<1>14. CASE Query
  <2>1. UNCHANGED <<lsn, conn>> /\ api' = [api EXCEPT !.pc = "snapshot", !.upTo = table]
    BY <1>14, Zenon DEF Query, connVars
  <2>2. api'.pc = "snapshot" /\ api'.upTo = table
    BY <1>0, <2>1
  <2>3. table + 1 .. lsn.seen = {}
    BY <1>0
  <2>4. QED
    BY <1>1, <1>3, <2>1, <2>2, <2>3
<1>15. CASE EmitSnapshot
  <2>1. PICK x \in api.of : Emit(x, "snapshot", 1, api.upTo)
    BY <1>15, Zenon DEF EmitSnapshot
  <2>2. api.pc = "snapshot" /\ api' = [api EXCEPT !.pc = "buffer"] /\ UNCHANGED <<lsn, conn>>
    BY <1>15, Zenon DEF EmitSnapshot, connVars
  <2>3. api'.pc = "buffer" /\ api'.of = api.of
    BY <1>0, <2>2
  <2>4. x \in Clients /\ 1 \in 1 .. MaxRows + 1 /\ api.upTo \in 0 .. MaxRows
    BY DEF TypeOK
  <2>5. x \notin closed => 1 .. api.upTo \subseteq RowsOf(outq'[x])
    BY <2>1, <2>4, EmitCovers
  <2>6. c \in api.of => 1 .. api.upTo \subseteq Covered(c)'
    BY <1>2, <1>4, <2>5 DEF Covered
  <2>7. 1 .. lsn.seen \subseteq (1 .. api.upTo) \union (api.upTo + 1 .. lsn.seen)
    BY <1>0
  <2>8. QED
    BY <1>1, <1>3, <2>2, <2>3, <2>6, <2>7
<1>16. CASE ReadBuffer \/ EmitReplay
  <2>1. UNCHANGED <<lsn, conn>> /\ api.pc \in {"buffer", "replay"}
    BY <1>16, Zenon DEF ReadBuffer, EmitReplay, connVars
  <2>2. api'.pc = "replay" /\ api'.of = api.of
    BY <1>0, <1>16 DEF ReadBuffer, EmitReplay
  <2>3. QED
    BY <1>1, <1>3, <2>1, <2>2
<1>17. CASE EmitBoundary
  <2>1. PICK x \in api.of : conn' = [conn EXCEPT ![x] = "open"]
    BY <1>17, Zenon DEF EmitBoundary
  <2>2. api.pc = "replay" /\ api' = Idle /\ lsn' = lsn
    BY <1>17, Zenon DEF EmitBoundary
  <2>3. api'.pc = "idle"
    BY <2>2 DEF Idle
  <2>4. conn'[c] = "open" => conn[c] = "open" \/ c \in api.of
    BY <1>0, <2>1
  <2>5. QED
    BY <1>1, <1>3, <2>2, <2>3, <2>4
<1>18. CASE UNCHANGED vars
  BY <1>5, <1>18 DEF vars, connVars
<1>19. QED
  BY <1>7, <1>8, <1>9, <1>10, <1>11, <1>12, <1>13, <1>14, <1>15, <1>16, <1>17, <1>18
     DEF Next, UpdateThread, Attach

\* attach_gapless leaves no gap, for any clients, rows and ring length, and whatever
\* fails: the snapshot of a client that is already registered is enough.
THEOREM AttachIsGapless == Spec => []Gapless
<1>1. Init => Promise
  BY DEF Init, Promise, PromiseTo, NoListener, Idle
<1>2. TypeOK /\ Refs /\ [Next]_vars => Refs'
  BY RefsStep
<1>3. TypeOK /\ Refs /\ Promise /\ [Next]_vars => Promise'
  BY PromiseStep
<1>4. Promise => Gapless
  BY DEF Promise, PromiseTo, Gapless, Attached, Covered
<1>5. QED
  BY <1>1, <1>2, <1>3, <1>4, InitRefs, TypeCorrect, PTL DEF Spec
=============================================================================
