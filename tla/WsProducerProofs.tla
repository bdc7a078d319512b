-------------------------- MODULE WsProducerProofs --------------------------
(***************************************************************************)
(* What holds of a WebSocket producer for any batch size, any volumes and  *)
(* any number of messages and failures: types, no row stranded in _batch,  *)
(* each row stored once and in order, the copy DH is given, the volume     *)
(* account, and the status row.                                            *)
(***************************************************************************)
EXTENDS WsProducer, SequenceTheorems, TLAPS

USE ProducerAssumption

\* In the middle of a flush the batch is what the log ends with.
FlushStored ==
  pc \in {"enqueue", "clear"} => stored # <<>> /\ stored[Len(stored)] = batch

\* DH has not been given more envelopes than the log has.
DhBehind == Len(dhGot) <= Len(stored)

\* What StatusHonest says of a worker that has ended already holds of one that has
\* been told to end.
StatusKnown ==
  shown /\ ctl = "idle" /\ (pc = "ended" \/ stopSet) => died \/ ignored \/ byAll

-----------------------------------------------------------------------------
(* The operators *)

\* What Append adds to the elements of a sequence.
LEMMA ToSetAppend ==
  ASSUME NEW S, NEW s \in Seq(S), NEW x \in S
  PROVE  ToSet(Append(s, x)) = ToSet(s) \union {x}
<1>1. /\ DOMAIN Append(s, x) = 1 .. Len(s) + 1
      /\ DOMAIN s = 1 .. Len(s)
      /\ Append(s, x)[Len(s) + 1] = x
      /\ \A i \in 1 .. Len(s) : Append(s, x)[i] = s[i]
  OBVIOUS
<1>2. Len(s) \in Nat
  OBVIOUS
<1>3. QED
  BY <1>1, <1>2 DEF ToSet

\* What an envelope adds to the rows of the log.
LEMMA InLogAppend ==
  ASSUME stored \in Seq(Seq(Nat)), batch \in Seq(Nat), stored' = Append(stored, batch)
  PROVE  InLog' = InLog \union ToSet(batch)
<1>1. /\ DOMAIN stored' = 1 .. Len(stored) + 1
      /\ DOMAIN stored = 1 .. Len(stored)
      /\ Len(stored) \in Nat
      /\ stored'[Len(stored) + 1] = batch
      /\ \A b \in 1 .. Len(stored) : stored'[b] = stored[b]
  OBVIOUS
<1>2. InLog' = UNION {ToSet(stored'[b]) : b \in 1 .. Len(stored) + 1}
  BY <1>1 DEF InLog, ToSet
<1>3. InLog = UNION {ToSet(stored[b]) : b \in 1 .. Len(stored)}
  BY <1>1 DEF InLog
<1>4. \A b \in 1 .. Len(stored) : ToSet(stored'[b]) = ToSet(stored[b])
  BY <1>1
<1>5. ToSet(stored'[Len(stored) + 1]) = ToSet(batch)
  BY <1>1
<1>6. 1 .. Len(stored) + 1 = (1 .. Len(stored)) \union {Len(stored) + 1}
  BY <1>1
<1>7. QED
  BY <1>2, <1>3, <1>4, <1>5, <1>6

\* A row has as much volume as the exchange counted, unless its counter fell.
LEMMA VolDeltaBounds ==
  ASSUME TypeOK, NEW volume \in -1 .. MaxVolume, Account(volume)
  PROVE  /\ VolDelta(volume) \in Nat
         /\ traded' - traded \in Nat /\ traded' \in Nat /\ reset' \in BOOLEAN
         /\ VolDelta(volume) <= traded' - traded
         /\ ~reset' => ~reset /\ VolDelta(volume) = traded' - traded
<1>1. /\ quote.volume \in Nat \union {-1} /\ volume \in Nat \union {-1}
      /\ traded \in Nat /\ reset \in BOOLEAN
  BY DEF TypeOK
<1>2. CASE volume = -1 \/ quote.volume = -1
  BY <1>1, <1>2 DEF Account, VolDelta
<1>3. CASE volume # -1 /\ quote.volume # -1
  <2>1. reset' \in BOOLEAN /\ (~reset' => ~reset /\ ~(volume < quote.volume))
    BY <1>1, <1>3, Zenon DEF Account
  <2>2. traded' = traded + (IF volume >= quote.volume THEN volume - quote.volume ELSE volume)
    BY <1>3, Zenon DEF Account
  <2>3. /\ VolDelta(volume) \in Nat
        /\ traded' - traded \in Nat /\ traded' \in Nat
        /\ VolDelta(volume) <= traded' - traded
        /\ ~(volume < quote.volume) => VolDelta(volume) = traded' - traded
    BY <1>1, <1>3, <2>2 DEF VolDelta
  <2>4. QED
    BY <2>1, <2>3
<1>4. QED
  BY <1>2, <1>3

-----------------------------------------------------------------------------
(* Types *)

LEMMA InitType == Init => TypeOK
<1> USE DEF Init
<1>1. Init => /\ quote \in [priced : BOOLEAN, volume : Nat \union {-1}]
              /\ batch \in Seq(Nat) /\ stored \in Seq(Seq(Nat)) /\ dhGot \in Seq(Seq(Nat))
              /\ updates \in 0 .. MaxUpdates /\ faults \in 0 .. MaxFaults
              /\ made \in Nat /\ counted \in Nat /\ traded \in Nat
  OBVIOUS
<1>2. QED
  BY <1>1 DEF TypeOK, Connected

LEMMA ControllerType ==
  ASSUME TypeOK, StartProducer \/ (\E all \in BOOLEAN : StopClose(all)) \/ Stop
  PROVE  TypeOK'
<1> USE DEF TypeOK, logVars, quoteVars
<1>1. CASE StartProducer
  BY <1>1 DEF StartProducer
<1>2. ASSUME NEW all \in BOOLEAN, StopClose(all) PROVE TypeOK'
  BY <1>2 DEF StopClose
<1>3. CASE StopFlag
  BY <1>3 DEF StopFlag
<1>4. CASE StopJoined
  BY <1>4 DEF StopJoined
<1>5. QED
  BY <1>1, <1>2, <1>3, <1>4 DEF Stop

LEMMA LoopType ==
  ASSUME TypeOK,
         LoopHead \/ Open \/ Dial \/ DialFails \/ Closed \/ Broken \/ Wake
  PROVE  TypeOK'
<1> USE DEF TypeOK, LoopUnchanged, ctlVars, logVars, quoteVars
<1>1. CASE LoopHead
  BY <1>1 DEF LoopHead
<1>2. CASE Open \/ Dial \/ Wake
  <2>1. pc' \in {"dial", "live", "check"}
    BY <1>2 DEF Open, Dial, Wake
  <2>2. pc' \in {"ended", "check", "open", "dial", "sleep"} \union Connected
    BY <2>1 DEF Connected
  <2>3. UNCHANGED <<forced, closing>> /\ LoopUnchanged
    BY <1>2 DEF Open, Dial, Wake, LoopUnchanged
  <2>4. QED
    BY <2>2, <2>3
<1>3. CASE DialFails \/ Closed \/ Broken
  <2>1. CASE DialFails
    BY <2>1 DEF DialFails, Finally, Connected
  <2>2. CASE Closed
    BY <2>2 DEF Closed, Finally, Connected
  <2>3. CASE Broken
    BY <2>3 DEF Broken, Finally, Connected
  <2>4. QED
    BY <1>3, <2>1, <2>2, <2>3
<1>4. QED
  BY <1>1, <1>2, <1>3

LEMMA FlushType ==
  ASSUME TypeOK, FlushAppend \/ FlushRaises \/ FlushEnqueue \/ FlushClear
  PROVE  TypeOK'
<1> USE DEF TypeOK, ctlVars, logVars, quoteVars, Connected
<1>1. CASE FlushAppend
  BY <1>1 DEF FlushAppend
<1>2. CASE FlushRaises
  <2>1. ToSet(batch) \subseteq Nat
    BY DEF ToSet
  <2>2. faults' \in 0 .. MaxFaults /\ batch' \in Seq(Nat)
    BY <1>2 DEF FlushRaises
  <2>3. lost' \subseteq Nat
    BY <1>2, <2>1 DEF FlushRaises
  <2>4. pc' \in {"ended", "live"} /\ died' \in BOOLEAN /\ forced' \in BOOLEAN
    BY <1>2 DEF FlushRaises
  <2>5. QED
    BY <1>2, <2>2, <2>3, <2>4 DEF FlushRaises
<1>3. CASE FlushEnqueue
  <2>1. Len(stored) \in Nat
    OBVIOUS
  <2>2. ring' \subseteq Nat
    BY <1>3, <2>1 DEF FlushEnqueue
  <2>3. QED
    BY <1>3, <2>2 DEF FlushEnqueue
<1>4. CASE FlushClear
  <2>1. batch' \in Seq(Nat)
    BY <1>4 DEF FlushClear
  <2>2. pc' \in {"live", "check", "sleep"}
    BY <1>4 DEF FlushClear
  <2>3. pc' \in {"ended", "check", "open", "dial", "sleep"} \union Connected
    BY <2>2
  <2>4. QED
    <3>1. forced' = FALSE /\ UNCHANGED <<provider, stopSet, closing, updates, made, lost, died,
                                         faults>>
      BY <1>4 DEF FlushClear
    <3>2. UNCHANGED <<ctlVars, logVars, quoteVars>>
      BY <1>4 DEF FlushClear
    <3>3. QED
      BY ZenonT(30), <2>1, <2>3, <3>1, <3>2
<1>5. QED
  BY <1>1, <1>2, <1>3, <1>4

LEMMA MessageType ==
  ASSUME TypeOK,
         Trade \/ \E hasPrice \in BOOLEAN, volume \in -1 .. MaxVolume : Quote(hasPrice, volume)
  PROVE  TypeOK'
<1> USE DEF TypeOK, Receiving, MessageUnchanged, ctlVars, logVars, quoteVars, Connected
<1>1. ASSUME AddRow PROVE batch' \in Seq(Nat) /\ made' \in Nat /\ pc' \in {"append", "live"}
  BY <1>1 DEF AddRow
<1>2. CASE Trade
  BY <1>1, <1>2 DEF Trade
<1>3. ASSUME NEW hasPrice \in BOOLEAN, NEW volume \in -1 .. MaxVolume, Quote(hasPrice, volume)
      PROVE  TypeOK'
  <2>1. Account(volume)
    BY <1>3 DEF Quote
  <2>2. VolDelta(volume) \in Nat /\ traded' \in Nat /\ reset' \in BOOLEAN
    BY <2>1, VolDeltaBounds
  <2>3. quote' \in [priced : BOOLEAN, volume : Nat \union {-1}]
    BY <1>3 DEF Quote
  <2>4. /\ batch' \in Seq(Nat) /\ made' \in Nat /\ counted' \in Nat
        /\ pc' \in {"append"} \union {pc, "live"}
    BY <1>1, <1>3, <2>2 DEF Quote
  <2>5. QED
    BY <1>3, <2>2, <2>3, <2>4 DEF Quote
<1>4. QED
  BY <1>2, <1>3

LEMMA DhType ==
  ASSUME TypeOK, DhTake
  PROVE  TypeOK'
<1> USE DEF TypeOK, ctlVars, quoteVars
<1>1. Len(dhGot) + 1 \in DOMAIN stored
  BY DEF DhTake
<1>2. RingRows(Len(dhGot) + 1) \in Seq(Nat) /\ stored[Len(dhGot) + 1] \in Seq(Nat)
  BY <1>1 DEF RingRows
<1>3. dhGot' \in Seq(Seq(Nat))
  BY <1>2 DEF DhTake
<1>4. QED
  BY <1>3 DEF DhTake

LEMMA TypeStep ==
  ASSUME TypeOK, [Next]_vars
  PROVE  TypeOK'
<1>1. CASE UNCHANGED vars
  BY <1>1 DEF TypeOK, vars, ctlVars, logVars, quoteVars
<1>2. CASE Next
  BY <1>2, ControllerType, LoopType, FlushType, MessageType, DhType DEF Next, Worker, Network
<1>3. QED
  BY <1>1, <1>2

\* Every variable of a producer has its type, for any batch size and volumes.
THEOREM TypeCorrect == Spec => []TypeOK
BY InitType, TypeStep, PTL DEF Spec

-----------------------------------------------------------------------------
(* The rows *)

\* What a row does to the batch.
LEMMA AddRowKeeps ==
  ASSUME TypeOK, AddRow
  PROVE  /\ ToSet(batch') = ToSet(batch) \union {made + 1}
         /\ 1 .. made' = (1 .. made) \union {made + 1}
         /\ pc' \in {"append", "live"}
<1>1. made \in Nat /\ batch \in Seq(Nat)
  BY DEF TypeOK
<1>2. made + 1 \in Nat
  BY <1>1
<1>3. ToSet(Append(batch, made + 1)) = ToSet(batch) \union {made + 1}
  BY <1>1, <1>2, ToSetAppend
<1>4. batch' = Append(batch, made + 1)
  BY Zenon DEF AddRow
<1>5. ToSet(batch') = ToSet(batch) \union {made + 1}
  BY <1>3, <1>4, Zenon
<1>6. 1 .. made' = (1 .. made) \union {made + 1}
  BY <1>1 DEF AddRow
<1>7. pc' \in {"append", "live"}
  BY Zenon DEF AddRow
<1>8. QED
  BY <1>5, <1>6, <1>7

\* A message and the flush of a row leave no row out.
LEMMA RowsStep ==
  ASSUME TypeOK, FlushStored, RowsKept, [Next]_vars
  PROVE  RowsKept' /\ FlushStored'
<1> USE DEF RowsKept, FlushStored, Connected
<1>1. ASSUME UNCHANGED <<made, lost, batch, stored>>,
             pc' \notin {"enqueue", "clear"} \/ pc' = pc,
             pc' \in {"ended", "check", "open", "dial", "sleep"} => batch = <<>>
      PROVE  RowsKept' /\ FlushStored'
  <2>1. InLog' = InLog /\ ToSet(batch') = ToSet(batch)
    BY <1>1 DEF InLog, ToSet
  <2>2. pc' \notin Connected => batch' = <<>>
    <3>1. pc' \in {"ended", "check", "open", "dial", "sleep"} \union Connected
      BY TypeStep DEF TypeOK
    <3>2. QED
      BY <1>1, <3>1
  <2>3. QED
    BY <1>1, <2>1, <2>2
<1>2. CASE UNCHANGED vars
  BY <1>1, <1>2 DEF vars, logVars, TypeOK
<1>3. CASE StartProducer
  <2>1. pc' = pc \/ (pc = "ended" /\ pc' = "check")
    BY <1>3, Zenon DEF StartProducer
  <2>2. UNCHANGED <<made, lost, batch, stored>>
    BY <1>3, Zenon DEF StartProducer, logVars
  <2>3. QED
    BY <1>1, <2>1, <2>2
<1>4. CASE Stop \/ \E all \in BOOLEAN : StopClose(all)
  <2>1. UNCHANGED <<pc, made, lost, batch, stored>>
    BY <1>4, Zenon DEF Stop, StopClose, StopFlag, StopJoined, logVars
  <2>2. QED
    BY <1>1, <2>1
<1>5. CASE LoopHead \/ Open \/ Dial \/ Wake
  <2>1. UNCHANGED <<made, lost, batch, stored>>
    BY <1>5, Zenon DEF LoopHead, Open, Dial, Wake, LoopUnchanged, logVars
  <2>2. pc \in {"check", "open", "dial", "sleep"} /\ pc' \in {"ended", "open", "dial", "live", "check"}
    BY <1>5, Zenon DEF LoopHead, Open, Dial, Wake
  <2>3. QED
    BY <1>1, <2>1, <2>2
<1>6. CASE DialFails \/ Broken \/ Closed
  <2>1. UNCHANGED <<made, lost, batch, stored>>
    BY <1>6, Zenon DEF DialFails, Broken, Closed, Finally, LoopUnchanged, logVars
  <2>2. IF batch # <<>> THEN pc' = "append" ELSE pc' \in {"check", "sleep"}
    BY <1>6, Zenon DEF DialFails, Broken, Closed, Finally
  <2>3. QED
    BY <1>1, <2>1, <2>2
<1>7. ASSUME Receiving, MessageUnchanged, AddRow
      PROVE  RowsKept' /\ FlushStored'
  <2>1. InLog' = InLog /\ lost' = lost
    BY <1>7 DEF MessageUnchanged, logVars, InLog
  <2>2. QED
    BY <1>7, <2>1, AddRowKeeps
<1>8. CASE Trade
  BY <1>7, <1>8 DEF Trade
<1>9. ASSUME NEW hasPrice \in BOOLEAN, NEW volume \in -1 .. MaxVolume, Quote(hasPrice, volume)
      PROVE  RowsKept' /\ FlushStored'
  <2>1. AddRow \/ UNCHANGED <<batch, made, pc>>
    BY <1>9, Zenon DEF Quote
  <2>2. Receiving /\ MessageUnchanged
    BY <1>9, Zenon DEF Quote
  <2>3. UNCHANGED <<lost, stored>> /\ pc = "live"
    BY <2>2, Zenon DEF MessageUnchanged, logVars, Receiving
  <2>4. QED
    BY <1>1, <1>7, <2>1, <2>2, <2>3
<1>10. CASE FlushAppend
  <2>1. stored' = Append(stored, batch) /\ UNCHANGED <<batch, made, lost>> /\ pc' = "enqueue"
    BY <1>10 DEF FlushAppend
  <2>2. stored \in Seq(Seq(Nat)) /\ batch \in Seq(Nat)
    BY DEF TypeOK
  <2>3. InLog' = InLog \union ToSet(batch)
    BY <2>1, <2>2, InLogAppend
  <2>4. ToSet(batch') = ToSet(batch)
    BY <2>1 DEF ToSet
  <2>5. stored' # <<>> /\ stored'[Len(stored')] = batch
    <3>1. Len(stored) \in Nat
      BY <2>2
    <3>2. Len(Append(stored, batch)) = Len(stored) + 1
      BY <2>2
    <3>3. Append(stored, batch)[Len(stored) + 1] = batch
      BY <2>2
    <3>4. Append(stored, batch) # <<>>
      BY <2>2, AppendProperties
    <3>5. QED
      BY <2>1, <3>2, <3>3, <3>4
  <2>6. FlushStored'
    BY <2>1, <2>5
  <2>7. QED
    BY <2>1, <2>3, <2>4, <2>6
<1>11. CASE FlushRaises
  <2>1. /\ lost' = lost \union ToSet(batch) /\ batch' = <<>> /\ UNCHANGED <<made, stored>>
        /\ pc' \in {"ended", "live"}
    BY <1>11, Zenon DEF FlushRaises, logVars
  <2>2. InLog' = InLog /\ ToSet(batch') = {}
    BY <2>1 DEF InLog, ToSet
  <2>3. QED
    BY <2>1, <2>2
<1>12. CASE FlushEnqueue
  <2>1. UNCHANGED <<made, lost, batch, stored>> /\ pc = "enqueue" /\ pc' = "clear"
    BY <1>12, Zenon DEF FlushEnqueue
  <2>2. InLog' = InLog /\ ToSet(batch') = ToSet(batch)
    BY <2>1 DEF InLog, ToSet
  <2>3. QED
    BY <2>1, <2>2
<1>13. CASE FlushClear
  <2>1. /\ UNCHANGED <<made, lost, stored>> /\ batch' = <<>>
        /\ pc = "clear" /\ pc' \in {"live", "check", "sleep"}
    BY <1>13, Zenon DEF FlushClear, logVars
  <2>2. InLog' = InLog /\ ToSet(batch') = {}
    BY <2>1 DEF InLog, ToSet
  <2>3. Len(stored) \in DOMAIN stored /\ stored[Len(stored)] = batch
    BY <2>1 DEF TypeOK
  <2>4. ToSet(batch) \subseteq InLog
    BY <2>3 DEF InLog
  <2>5. QED
    BY <2>1, <2>2, <2>4
<1>14. CASE DhTake
  BY <1>1, <1>14 DEF DhTake, TypeOK
<1>15. QED
  BY <1>2, <1>3, <1>4, <1>5, <1>6, <1>8, <1>9, <1>10, <1>11, <1>12, <1>13, <1>14
     DEF Next, Worker, Network

\* No row is stranded in _batch: each is in the log, in the batch of a worker that is
\* connected or flushing, or was lost by a publish() that raised.
THEOREM NoRowStranded == Spec => []RowsKept
<1>1. Init => FlushStored /\ RowsKept
  BY DEF Init, FlushStored, RowsKept, InLog, ToSet, Connected
<1>2. TypeOK /\ FlushStored /\ RowsKept /\ [Next]_vars => (FlushStored /\ RowsKept)'
  BY RowsStep
<1>3. QED
  BY <1>1, <1>2, TypeCorrect, PTL DEF Spec

-----------------------------------------------------------------------------
(* The order of the rows *)

\* An empty envelope is always in order.
LEMMA EmptyEnvelope ==
  ASSUME NEW log \in Seq(Seq(Nat)), RowsInOrder(log)
  PROVE  RowsInOrder(Append(log, <<>>))
<1> DEFINE longer == Append(log, <<>>)
<1>1. /\ Len(log) \in Nat /\ DOMAIN log = 1 .. Len(log)
      /\ DOMAIN longer = 1 .. Len(log) + 1
      /\ \A b \in 1 .. Len(log) : longer[b] = log[b]
      /\ longer[Len(log) + 1] = <<>>
  OBVIOUS
<1> HIDE DEF longer
<1>2. \A b \in DOMAIN longer : \A i \in DOMAIN longer[b] : b \in DOMAIN log
  BY <1>1
<1>3. RowsInOrder(longer)
  BY <1>1, <1>2 DEF RowsInOrder
<1>4. QED
  BY <1>3 DEF longer

\* An envelope can be taken off the end.
LEMMA WithoutLast ==
  ASSUME NEW log \in Seq(Seq(Nat)), NEW rows \in Seq(Nat), RowsInOrder(Append(log, rows))
  PROVE  RowsInOrder(log)
<1> DEFINE longer == Append(log, rows)
<1>1. /\ Len(log) \in Nat /\ DOMAIN log = 1 .. Len(log)
      /\ DOMAIN longer = 1 .. Len(log) + 1
      /\ \A b \in 1 .. Len(log) : longer[b] = log[b]
  OBVIOUS
<1>2. RowsInOrder(longer)
  OBVIOUS
<1> HIDE DEF longer
<1>3. DOMAIN log \subseteq DOMAIN longer
  BY <1>1
<1>4. QED
  BY <1>1, <1>2, <1>3 DEF RowsInOrder

\* A row above all others can be put at the end of the last envelope.
LEMMA NewestRow ==
  ASSUME NEW log \in Seq(Seq(Nat)), NEW rows \in Seq(Nat), NEW n \in Nat,
         RowsInOrder(Append(log, rows)),
         \A b \in DOMAIN log : \A i \in DOMAIN log[b] : log[b][i] < n,
         \A i \in DOMAIN rows : rows[i] < n
  PROVE  RowsInOrder(Append(log, Append(rows, n)))
<1> DEFINE before == Append(log, rows)
           more == Append(rows, n)
           after == Append(log, more)
           last == Len(log) + 1
           new == Len(rows) + 1
<1>1. /\ Len(log) \in Nat /\ DOMAIN log = 1 .. Len(log)
      /\ DOMAIN before = 1 .. Len(log) + 1 /\ DOMAIN after = 1 .. Len(log) + 1
      /\ \A b \in 1 .. Len(log) : before[b] = log[b] /\ after[b] = log[b]
      /\ before[last] = rows /\ after[last] = more
  OBVIOUS
<1>2. /\ Len(rows) \in Nat /\ DOMAIN rows = 1 .. Len(rows) /\ DOMAIN more = 1 .. new
      /\ \A i \in 1 .. Len(rows) : more[i] = rows[i]
      /\ more[new] = n
  OBVIOUS
<1>3. RowsInOrder(before)
  OBVIOUS
<1> HIDE DEF before, more, after
<1>4. SUFFICES ASSUME NEW b \in DOMAIN after, NEW c \in DOMAIN after,
                      NEW i \in DOMAIN after[b], NEW j \in DOMAIN after[c],
                      b < c \/ (b = c /\ i < j)
               PROVE  after[b][i] < after[c][j]
  BY DEF RowsInOrder, after, more
<1>5. i \in DOMAIN before[b] /\ after[b][i] = before[b][i]
  <2>1. CASE b # last
    BY <1>1, <2>1
  <2>2. CASE b = last
    <3>1. c = last /\ i < j
      BY <1>1, <1>4, <2>2
    <3>2. i \in 1 .. Len(rows)
      BY <1>1, <1>2, <2>2, <3>1
    <3>3. QED
      BY <1>1, <1>2, <2>2, <3>2
  <2>3. QED
    BY <2>1, <2>2
<1>6. CASE c = last /\ j = new
  <2>1. after[c][j] = n
    BY <1>1, <1>2, <1>6
  <2>2. before[b][i] < n
    <3>1. CASE b = last
      <4>1. before[b] = rows
        BY <1>1, <3>1
      <4>2. QED
        BY <1>5, <4>1
    <3>2. CASE b # last
      <4>1. b \in DOMAIN log /\ before[b] = log[b]
        BY <1>1, <3>2
      <4>2. QED
        BY <1>5, <4>1
    <3>3. QED
      BY <3>1, <3>2
  <2>3. QED
    BY <1>5, <2>1, <2>2
<1>7. CASE ~(c = last /\ j = new)
  <2>1. j \in DOMAIN before[c] /\ after[c][j] = before[c][j]
    <3>1. CASE c = last
      <4>1. j \in 1 .. new /\ j # new
        BY <1>1, <1>2, <1>7, <3>1
      <4>2. j \in 1 .. Len(rows)
        BY <1>2, <4>1
      <4>3. QED
        BY <1>1, <1>2, <3>1, <4>2
    <3>2. CASE c # last
      <4>1. c \in 1 .. Len(log) + 1
        BY <1>1
      <4>2. c \in 1 .. Len(log)
        <5>1. Len(log) \in Nat
          BY <1>1
        <5>2. QED
          BY <3>2, <4>1, <5>1
      <4>3. after[c] = before[c]
        BY <1>1, <4>2
      <4>4. QED
        BY <4>3
    <3>3. QED
      BY <3>1, <3>2
  <2>2. before[b][i] < before[c][j]
    BY <1>1, <1>3, <1>4, <1>5, <2>1 DEF RowsInOrder
  <2>3. QED
    BY <1>5, <2>1, <2>2
<1>8. QED
  BY <1>6, <1>7

\* Only the clearing after a flush that has stored the batch, and the loss of a batch,
\* take rows out of it; a new row has the next number.
LEMMA OrderStep ==
  ASSUME TypeOK, RowsKept, StoredOnceInOrder, [Next]_vars
  PROVE  StoredOnceInOrder'
<1>0. stored \in Seq(Seq(Nat)) /\ batch \in Seq(Nat) /\ made \in Nat
  BY DEF TypeOK
<1>1. ASSUME UNCHANGED <<stored, batch>>,
             pc' \in {"enqueue", "clear"} <=> pc \in {"enqueue", "clear"}
      PROVE  StoredOnceInOrder'
  BY <1>1 DEF StoredOnceInOrder, RowsInOrder, LogAndBatch
<1>2. ASSUME Receiving, MessageUnchanged, AddRow
      PROVE  StoredOnceInOrder'
  <2>1. pc = "live" /\ stored' = stored
    BY <1>2 DEF Receiving, MessageUnchanged, logVars
  <2>2. batch' = Append(batch, made + 1) /\ pc' \in {"append", "live"}
    BY <1>2 DEF AddRow
  <2>3. InLog \subseteq 1 .. made /\ ToSet(batch) \subseteq 1 .. made
    BY DEF RowsKept
  <2>4. \A b \in DOMAIN stored : \A i \in DOMAIN stored[b] : stored[b][i] \in 1 .. made
    BY <2>3 DEF InLog, ToSet
  <2>5. \A i \in DOMAIN batch : batch[i] \in 1 .. made
    BY <2>3 DEF ToSet
  <2>6. RowsInOrder(Append(stored, batch))
    BY <2>1 DEF StoredOnceInOrder, LogAndBatch
  <2>7. /\ made + 1 \in Nat /\ \A x \in 1 .. made : x < made + 1
        /\ \A b \in DOMAIN stored : \A i \in DOMAIN stored[b] : stored[b][i] < made + 1
        /\ \A i \in DOMAIN batch : batch[i] < made + 1
    <3>1. made + 1 \in Nat /\ \A x \in 1 .. made : x < made + 1
      BY <1>0
    <3>2. QED
      BY <2>4, <2>5, <3>1
  <2>8. RowsInOrder(Append(stored, Append(batch, made + 1)))
    BY <1>0, <2>6, <2>7, NewestRow
  <2>9. LogAndBatch' = Append(stored, Append(batch, made + 1))
    BY <2>1, <2>2 DEF LogAndBatch
  <2>10. QED
    BY <2>8, <2>9 DEF StoredOnceInOrder, RowsInOrder
<1>3. CASE Trade
  BY <1>2, <1>3 DEF Trade
<1>4. ASSUME NEW hasPrice \in BOOLEAN, NEW volume \in -1 .. MaxVolume, Quote(hasPrice, volume)
      PROVE  StoredOnceInOrder'
  <2>1. AddRow \/ UNCHANGED <<batch, made, pc>>
    BY <1>4, Zenon DEF Quote
  <2>2. Receiving /\ MessageUnchanged
    BY <1>4, Zenon DEF Quote
  <2>3. stored' = stored
    BY <2>2, Zenon DEF MessageUnchanged, logVars
  <2>4. QED
    BY <1>1, <1>2, <2>1, <2>2, <2>3
<1>5. CASE FlushAppend
  <2>1. pc = "append" /\ pc' = "enqueue" /\ stored' = Append(stored, batch)
    BY <1>5, Zenon DEF FlushAppend
  <2>2. LogAndBatch' = LogAndBatch
    BY <2>1 DEF LogAndBatch
  <2>3. QED
    BY <2>2 DEF StoredOnceInOrder, RowsInOrder
<1>6. CASE FlushRaises
  <2>1. pc = "append" /\ pc' \in {"ended", "live"} /\ stored' = stored /\ batch' = <<>>
    BY <1>6, Zenon DEF FlushRaises, logVars
  <2>2. LogAndBatch = Append(stored, batch) /\ LogAndBatch' = Append(stored, <<>>)
    BY <2>1 DEF LogAndBatch
  <2>3. RowsInOrder(Append(stored, <<>>))
    BY <1>0, <2>2, WithoutLast, EmptyEnvelope DEF StoredOnceInOrder
  <2>4. QED
    BY <2>2, <2>3 DEF StoredOnceInOrder, RowsInOrder
<1>7. CASE FlushClear
  <2>1. pc = "clear" /\ pc' \in {"live", "check", "sleep"} /\ stored' = stored /\ batch' = <<>>
    BY <1>7, Zenon DEF FlushClear, logVars
  <2>2. LogAndBatch = stored /\ LogAndBatch' = Append(stored, <<>>)
    BY <2>1 DEF LogAndBatch
  <2>3. RowsInOrder(Append(stored, <<>>))
    BY <1>0, <2>2, EmptyEnvelope DEF StoredOnceInOrder
  <2>4. QED
    BY <2>2, <2>3 DEF StoredOnceInOrder, RowsInOrder
<1>8. CASE StartProducer
  <2>1. pc' = pc \/ (pc = "ended" /\ pc' = "check")
    BY <1>8, Zenon DEF StartProducer
  <2>2. UNCHANGED <<stored, batch>>
    BY <1>8, Zenon DEF StartProducer, logVars
  <2>3. QED
    BY <1>1, <2>1, <2>2
<1>9. CASE Stop \/ (\E all \in BOOLEAN : StopClose(all)) \/ DhTake \/ UNCHANGED vars
  <2>1. UNCHANGED <<pc, stored, batch>>
    BY <1>9, Zenon DEF Stop, StopClose, StopFlag, StopJoined, DhTake, logVars, vars
  <2>2. QED
    BY <1>1, <2>1
<1>10. CASE LoopHead \/ Open \/ Dial \/ Wake \/ DialFails \/ Broken \/ Closed
  <2>1. UNCHANGED <<stored, batch>>
    BY <1>10, Zenon
       DEF LoopHead, Open, Dial, Wake, DialFails, Broken, Closed, Finally, LoopUnchanged, logVars
  <2>2. /\ pc \in {"check", "open", "dial", "sleep", "live"}
        /\ pc' \in {"ended", "open", "dial", "live", "check", "append", "sleep"}
    BY <1>10, Zenon DEF LoopHead, Open, Dial, Wake, DialFails, Broken, Closed, Finally
  <2>3. QED
    BY <1>1, <2>1, <2>2
<1>11. CASE FlushEnqueue
  <2>1. UNCHANGED <<stored, batch>> /\ pc = "enqueue" /\ pc' = "clear"
    BY <1>11, Zenon DEF FlushEnqueue
  <2>2. QED
    BY <1>1, <2>1
<1>12. QED
  BY <1>3, <1>4, <1>5, <1>6, <1>7, <1>8, <1>9, <1>10, <1>11 DEF Next, Worker, Network

\* Each row is stored once, and the log has the rows in the order they came, for any
\* batch size and whichever flush took them.
THEOREM RowsOnceInOrder == Spec => []StoredOnceInOrder
<1>1. Init => StoredOnceInOrder
  <2> SUFFICES ASSUME Init PROVE StoredOnceInOrder
    OBVIOUS
  <2>1. LogAndBatch = Append(<<>>, <<>>)
    BY DEF Init, LogAndBatch
  <2>2. <<>> \in Seq(Seq(Nat)) /\ RowsInOrder(<<>>)
    BY DEF RowsInOrder
  <2>3. QED
    BY <2>1, <2>2, EmptyEnvelope DEF StoredOnceInOrder
<1>2. TypeOK /\ RowsKept /\ StoredOnceInOrder /\ [Next]_vars => StoredOnceInOrder'
  BY OrderStep
<1>3. QED
  BY <1>1, <1>2, TypeCorrect, NoRowStranded, PTL DEF Spec

-----------------------------------------------------------------------------
(* What DH is given *)

\* DH is given an envelope as it is then, and the log is only appended to.
LEMMA CopyStep ==
  ASSUME TypeOK, DhBehind, CopyReachesDh, [Next]_vars
  PROVE  DhBehind' /\ CopyReachesDh'
<1> USE DEF DhBehind, CopyReachesDh
<1>0. stored \in Seq(Seq(Nat)) /\ dhGot \in Seq(Seq(Nat)) /\ batch \in Seq(Nat)
  BY DEF TypeOK
<1>1. CASE UNCHANGED <<provider, stored, dhGot>>
  BY <1>1
<1>2. CASE FlushAppend
  <2>1. stored' = Append(stored, batch) /\ UNCHANGED <<provider, dhGot>>
    BY <1>2, Zenon DEF FlushAppend
  <2>2. /\ Len(stored') = Len(stored) + 1
        /\ \A i \in 1 .. Len(stored) : stored'[i] = stored[i]
    BY <1>0, <2>1, AppendProperties
  <2>3. DOMAIN dhGot = 1 .. Len(dhGot) /\ Len(dhGot) \in Nat /\ Len(stored) \in Nat
    BY <1>0
  <2>4. DOMAIN dhGot \subseteq 1 .. Len(stored)
    BY <2>3
  <2>5. DhBehind'
    BY <2>1, <2>2, <2>3
  <2>6. CopyReachesDh'
    BY <2>1, <2>2, <2>4
  <2>7. QED
    BY <2>5, <2>6
<1>3. CASE DhTake
  <2> DEFINE b == Len(dhGot) + 1
             rows == IF b \in ring THEN RingRows(b) ELSE stored[b]
  <2>1. /\ Len(dhGot) < Len(stored) /\ dhGot' = Append(dhGot, rows)
        /\ UNCHANGED <<provider, stored>>
    BY <1>3 DEF DhTake
  <2>2. b \in 1 .. Len(stored) /\ b \in DOMAIN stored
    BY <1>0, <2>1
  <2>3. rows \in Seq(Nat) /\ (provider = "binance" => rows = stored[b])
    BY <1>0, <2>2 DEF RingRows
  <2> HIDE DEF rows
  <2>4. /\ Len(dhGot') = b /\ dhGot'[b] = rows /\ DOMAIN dhGot' = 1 .. b
        /\ \A i \in 1 .. Len(dhGot) : dhGot'[i] = dhGot[i]
    <3>1. dhGot' \in Seq(Seq(Nat))
      BY <1>0, <2>1, <2>3, AppendProperties
    <3>2. QED
      BY <1>0, <2>1, <2>3, <3>1, AppendProperties
  <2>5. DOMAIN dhGot = 1 .. Len(dhGot) /\ Len(dhGot) \in Nat /\ Len(stored) \in Nat
    BY <1>0
  <2>6. DhBehind'
    BY <2>1, <2>4, <2>5
  <2>7. \A i \in 1 .. b : i \in 1 .. Len(dhGot) \/ i = b
    BY <2>5
  <2>8. CopyReachesDh'
    BY <2>1, <2>3, <2>4, <2>5, <2>7
  <2>9. QED
    BY <2>6, <2>8
<1>4. CASE \/ StartProducer \/ (\E all \in BOOLEAN : StopClose(all)) \/ Stop
           \/ LoopHead \/ Open \/ Dial \/ DialFails \/ Closed \/ Wake \/ Broken
  BY <1>1, <1>4, Zenon
     DEF StartProducer, StopClose, Stop, StopFlag, StopJoined, LoopHead, Open, Dial, DialFails,
         Closed, Broken, Wake, Finally, LoopUnchanged, logVars
<1>5. CASE FlushRaises \/ FlushEnqueue \/ FlushClear
  BY <1>1, <1>5, Zenon DEF FlushRaises, FlushEnqueue, FlushClear, logVars
<1>6. CASE Trade \/ \E hasPrice \in BOOLEAN, volume \in -1 .. MaxVolume : Quote(hasPrice, volume)
  BY <1>1, <1>6, Zenon DEF Trade, Quote, MessageUnchanged, logVars
<1>7. CASE UNCHANGED vars
  BY <1>1, <1>7 DEF vars, logVars
<1>8. QED
  BY <1>2, <1>3, <1>4, <1>5, <1>6, <1>7 DEF Next, Worker, Network

\* What DH is given of a producer that publishes a copy is what was stored.
THEOREM CopyUntouched == Spec => []CopyReachesDh
<1>1. Init => DhBehind /\ CopyReachesDh
  BY DEF Init, DhBehind, CopyReachesDh
<1>2. TypeOK /\ DhBehind /\ CopyReachesDh /\ [Next]_vars => (DhBehind /\ CopyReachesDh)'
  BY CopyStep
<1>3. QED
  BY <1>1, <1>2, TypeCorrect, PTL DEF Spec

-----------------------------------------------------------------------------
(* The volume *)

\* Only a quote counts volume, and it counts what the exchange counts.
LEMMA VolumeStep ==
  ASSUME TypeOK, VolumeConserved, [Next]_vars
  PROVE  VolumeConserved'
<1> USE DEF VolumeConserved
<1>1. CASE UNCHANGED quoteVars
  BY <1>1 DEF quoteVars
<1>2. ASSUME NEW hasPrice \in BOOLEAN, NEW volume \in -1 .. MaxVolume, Quote(hasPrice, volume)
      PROVE  VolumeConserved'
  <2>1. Account(volume)
    BY <1>2, Zenon DEF Quote
  <2>2. /\ VolDelta(volume) \in Nat
        /\ traded' \in Nat
        /\ VolDelta(volume) <= traded' - traded
        /\ ~reset' => ~reset /\ VolDelta(volume) = traded' - traded
    BY <2>1, VolDeltaBounds
  <2>3. counted' = counted + VolDelta(volume) \/ (counted' = counted /\ ~(VolDelta(volume) > 0))
    BY <1>2, Zenon DEF Quote
  <2>4. counted \in Nat /\ traded \in Nat
    BY DEF TypeOK
  <2>5. counted' = counted + VolDelta(volume)
    BY <2>2, <2>3, <2>4
  <2>6. QED
    BY <2>2, <2>4, <2>5
<1>3. CASE \/ StartProducer \/ (\E all \in BOOLEAN : StopClose(all)) \/ Stop
           \/ LoopHead \/ Open \/ Dial \/ DialFails \/ Closed \/ Wake \/ Broken
  BY <1>1, <1>3, Zenon
     DEF StartProducer, StopClose, Stop, StopFlag, StopJoined, LoopHead, Open, Dial, DialFails,
         Closed, Broken, Wake, Finally, LoopUnchanged
<1>4. CASE FlushAppend \/ FlushRaises \/ FlushEnqueue \/ FlushClear \/ DhTake \/ Trade
  BY <1>1, <1>4, Zenon DEF FlushAppend, FlushRaises, FlushEnqueue, FlushClear, DhTake, Trade
<1>5. CASE UNCHANGED vars
  BY <1>1, <1>5 DEF vars, quoteVars
<1>6. QED
  BY <1>2, <1>3, <1>4, <1>5 DEF Next, Worker, Network

\* The VolDelta of all rows add up to the volume traded, for any volumes.
THEOREM VolumeAccount == Spec => []VolumeConserved
<1>1. Init => VolumeConserved
  BY DEF Init, VolumeConserved
<1>2. TypeOK /\ VolumeConserved /\ [Next]_vars => VolumeConserved'
  BY VolumeStep
<1>3. QED
  BY <1>1, <1>2, TypeCorrect, PTL DEF Spec

-----------------------------------------------------------------------------
(* The status row *)

LEMMA StatusStep ==
  ASSUME StatusKnown, [Next]_vars
  PROVE  StatusKnown'
<1> USE DEF StatusKnown, ctlVars
<1>1. CASE StartProducer
  BY <1>1, Zenon DEF StartProducer
<1>2. CASE (\E all \in BOOLEAN : StopClose(all)) \/ StopFlag
  <2>1. ctl' \in {"flag", "join"}
    BY <1>2 DEF StopClose, StopFlag
  <2>2. QED
    BY <2>1
<1>3. CASE StopJoined
  BY <1>3, Zenon DEF StopJoined
<1>4. CASE LoopHead \/ FlushRaises
  BY <1>4, Zenon DEF LoopHead, LoopUnchanged, FlushRaises
<1>5. CASE UNCHANGED <<ctlVars, stopSet, died>> /\ pc' # "ended"
  BY <1>5, Zenon
<1>6. CASE Open \/ Dial \/ DialFails \/ Closed \/ Broken \/ Wake
  <2>1. UNCHANGED <<ctlVars, stopSet, died>>
    BY <1>6, Zenon DEF Open, Dial, DialFails, Closed, Broken, Wake, Finally, LoopUnchanged
  <2>2. pc' \in {"dial", "live", "append", "check", "sleep"}
    BY <1>6, Zenon DEF Open, Dial, DialFails, Closed, Broken, Wake, Finally
  <2>3. QED
    BY <1>5, <2>1, <2>2
<1>7. CASE FlushAppend \/ FlushEnqueue \/ FlushClear
  <2>1. UNCHANGED <<ctlVars, stopSet, died>>
    BY <1>7, Zenon DEF FlushAppend, FlushEnqueue, FlushClear
  <2>2. pc' \in {"enqueue", "clear", "live", "check", "sleep"}
    BY <1>7, Zenon DEF FlushAppend, FlushEnqueue, FlushClear
  <2>3. QED
    BY <1>5, <2>1, <2>2
<1>8. CASE Trade \/ \E hasPrice \in BOOLEAN, volume \in -1 .. MaxVolume : Quote(hasPrice, volume)
  <2>1. UNCHANGED <<ctlVars, stopSet, died>>
    BY <1>8, Zenon DEF Trade, Quote, MessageUnchanged
  <2>2. pc' \in {"append", "live"}
    BY <1>8, Zenon DEF Trade, Quote, AddRow, Receiving
  <2>3. QED
    BY <1>5, <2>1, <2>2
<1>9. CASE UNCHANGED <<ctlVars, pc, stopSet, died>>
  BY <1>9, Zenon
<1>10. CASE DhTake
  BY <1>9, <1>10, Zenon DEF DhTake
<1>11. CASE UNCHANGED vars
  BY <1>9, <1>11, Zenon DEF vars
<1>12. QED
  BY <1>1, <1>2, <1>3, <1>4, <1>6, <1>7, <1>8, <1>10, <1>11 DEF Next, Stop, Worker, Network

\* A status row that says Alive of an ended worker has one of three causes.
THEOREM StatusCauses == Spec => []StatusHonest
<1>1. Init => StatusKnown
  BY DEF Init, StatusKnown
<1>2. StatusKnown /\ [Next]_vars => StatusKnown'
  BY StatusStep
<1>3. StatusKnown => StatusHonest
  BY DEF StatusKnown, StatusHonest
<1>4. QED
  BY <1>1, <1>2, <1>3, PTL DEF Spec
=============================================================================
