-------------------------- MODULE TradingBotProofs --------------------------
(***************************************************************************)
(* What holds of a trading bot for any queue size, any room for streams    *)
(* and any number of rows, failures and calls: types, what ends the        *)
(* worker, that no stream is left behind, and that no row is missed        *)
(* unnoticed.                                                              *)
(***************************************************************************)
EXTENDS TradingBot, SequenceTheorems, TLAPS

USE BotAssumption

\* An envelope that the server or the client has made: only one of kind rows has any,
\* and the server had them.
Sound(x) ==
  /\ x \in Item
  /\ 1 <= x.lo /\ x.hi <= head
  /\ x.kind # "rows" => x.hi < x.lo

Putting == {"put", "evict", "reput"}

\* A stream holds an envelope while it is in on_data, and knows what it is sent next.
SoundStream(s) ==
  /\ Sound(str[s].env) /\ str[s].env.kind # "sentinel"
  /\ str[s].next <= head + 1
  /\ str[s].pc \notin Putting => str[s].env = Error
  /\ str[s].pc = "open" => 1 <= str[s].next

TypeInv ==
  /\ TypeOK
  /\ Sound(env) /\ (pc \notin {"gate", "wait"} => env = Error)
  /\ \A i \in DOMAIN queue : Sound(queue[i])
  /\ \A s \in Slots : SoundStream(s)
  /\ subbed # 0 => str[subbed].pc = "new"

-----------------------------------------------------------------------------
(* Envelopes and queues *)

LEMMA EnvelopeTypes ==
  /\ Error \in Item /\ Error.lo = 1 /\ Error.hi = 0 /\ Error.kind = "error"
  /\ Sentinel \in Item /\ Sentinel.lo = 1 /\ Sentinel.hi = 0 /\ Sentinel.kind = "sentinel"
  /\ Error # Sentinel
BY DEF Item, Error, Sentinel

LEMMA SoundConstants ==
  ASSUME head \in Nat
  PROVE  Sound(Error) /\ Sound(Sentinel)
BY EnvelopeTypes DEF Sound

\* What put_nowait makes of a queue that is not full.
LEMMA QueueAppend ==
  ASSUME queue \in Seq(Item), Len(queue) < QMax, NEW x \in Item, queue' = Append(queue, x)
  PROVE  /\ queue' \in Seq(Item) /\ Len(queue') <= QMax
         /\ DOMAIN queue = 1 .. Len(queue) /\ DOMAIN queue' = 1 .. Len(queue) + 1
         /\ Len(queue) \in Nat /\ Len(queue') = Len(queue) + 1
         /\ queue'[Len(queue) + 1] = x
         /\ \A i \in 1 .. Len(queue) : queue'[i] = queue[i]
OBVIOUS

\* What get_nowait leaves of it.
LEMMA QueueTail ==
  ASSUME queue \in Seq(Item), Len(queue) <= QMax, queue # <<>>, queue' = Tail(queue)
  PROVE  /\ queue' \in Seq(Item) /\ Len(queue') <= QMax
         /\ DOMAIN queue = 1 .. Len(queue) /\ DOMAIN queue' = 1 .. Len(queue) - 1
         /\ Len(queue) \in Nat \ {0} /\ Len(queue') = Len(queue) - 1
         /\ \A i \in 1 .. Len(queue) - 1 : queue'[i] = queue[i + 1]
         /\ Head(queue) = queue[1] /\ Head(queue) \in Item
<1>1. /\ Head(queue) \in Item /\ queue' \in Seq(Item) /\ Len(queue') = Len(queue) - 1
      /\ \A i \in 1 .. Len(queue') : queue'[i] = queue[i + 1]
  BY HeadTailProperties
<1>2. Len(queue) \in Nat \ {0} /\ DOMAIN queue = 1 .. Len(queue) /\ Head(queue) = queue[1]
  OBVIOUS
<1>3. QED
  BY <1>1, <1>2

-----------------------------------------------------------------------------
(* Types *)

\* Stopping a stream, or the registration of another one, leaves the streams sound.
LEMMA StoppedSound ==
  ASSUME TypeInv
  PROVE  /\ Stopped \in [Slots -> Stream]
         /\ \A s \in Slots : /\ Stopped[s].pc = str[s].pc /\ Stopped[s].env = str[s].env
                             /\ Stopped[s].next = str[s].next
                             /\ str[s].stop => Stopped[s].stop
                             /\ s = reg => Stopped[s].stop
BY DEF TypeInv, TypeOK, Stopped, Stream

LEMMA NoStreamType ==
  /\ NoStream \in Stream
  /\ NoStream.pc = "done" /\ NoStream.stop /\ NoStream.next = 0 /\ NoStream.env = Error
BY EnvelopeTypes DEF NoStream, Stream

LEMMA InitType == Init => TypeInv
<1>1. ASSUME Init PROVE TypeOK
  <2>1. queue \in Seq(Item) /\ Len(queue) <= QMax /\ str \in [Slots -> Stream] /\ env \in Item
    BY <1>1, EnvelopeTypes, NoStreamType DEF Init
  <2>2. head \in 0 .. MaxRows /\ events \in 0 .. MaxEvents /\ known \subseteq 1 .. head
    BY <1>1 DEF Init
  <2>3. QED
    BY <1>1, <2>1, <2>2 DEF Init, TypeOK
<1>2. ASSUME Init PROVE /\ Sound(env) /\ env = Error
                        /\ \A i \in DOMAIN queue : Sound(queue[i])
                        /\ \A s \in Slots : SoundStream(s)
                        /\ subbed = 0
  BY <1>2, SoundConstants, NoStreamType, EnvelopeTypes DEF Init, SoundStream, Putting
<1>3. QED
  BY <1>1, <1>2 DEF TypeInv

\* What unsubscribing leaves of the types.
LEMMA UnsubscribeType ==
  ASSUME TypeInv, UnsubscribeSilent \/ Unsubscribe, head' = head
  PROVE  /\ str' \in [Slots -> Stream] /\ reg' \in Slots \union {0, -1} /\ raced' \in BOOLEAN
         /\ \A s \in Slots : SoundStream(s)' /\ str'[s].pc = str[s].pc
<1>1. CASE Unsubscribe
  <2>1. str' = Stopped /\ reg' = 0 /\ raced' \in BOOLEAN
    BY <1>1 DEF Unsubscribe, RacedStop, TypeInv, TypeOK
  <2>2. QED
    BY <2>1, StoppedSound DEF TypeInv, TypeOK, SoundStream, Sound
<1>2. CASE UnsubscribeSilent /\ UNCHANGED clientVars
  BY <1>2 DEF clientVars, TypeInv, TypeOK, SoundStream, Sound
<1>3. QED
  BY <1>1, <1>2 DEF UnsubscribeSilent

\* The envelopes of the queue and the worker stay sound when nothing is added.
LEMMA SameQueue ==
  ASSUME TypeInv, UNCHANGED <<queue, head>>
  PROVE  /\ queue' \in Seq(Item) /\ Len(queue') <= QMax
         /\ (\A i \in DOMAIN queue : Sound(queue[i]))'
BY DEF TypeInv, TypeOK, Sound

\* A sound envelope joins a queue that is not full.
LEMMA PutType ==
  ASSUME TypeInv, head' = head, NEW x, Sound(x),
         queue' = IF Len(queue) < QMax THEN Append(queue, x) ELSE queue
  PROVE  /\ queue' \in Seq(Item) /\ Len(queue') <= QMax
         /\ (\A i \in DOMAIN queue : Sound(queue[i]))'
<1>1. CASE Len(queue) < QMax
  <2>1. queue \in Seq(Item) /\ x \in Item /\ queue' = Append(queue, x)
    BY <1>1 DEF TypeInv, TypeOK, Sound
  <2>2. QED
    BY <1>1, <2>1, QueueAppend DEF TypeInv, Sound
<1>2. CASE ~(Len(queue) < QMax)
  BY <1>2, SameQueue
<1>3. QED
  BY <1>1, <1>2

\* The oldest envelope leaves the queue.
LEMMA TakeType ==
  ASSUME TypeInv, head' = head, queue # <<>>, queue' = Tail(queue)
  PROVE  /\ queue' \in Seq(Item) /\ Len(queue') <= QMax
         /\ (\A i \in DOMAIN queue : Sound(queue[i]))'
         /\ Sound(Head(queue))
<1>1. queue \in Seq(Item) /\ Len(queue) <= QMax
  BY DEF TypeInv, TypeOK
<1>2. QED
  BY <1>1, QueueTail DEF TypeInv, Sound

\* The streams stay sound when none changes.
LEMMA SameStreams ==
  ASSUME TypeInv, UNCHANGED <<str, head>>
  PROVE  str' \in [Slots -> Stream] /\ \A s \in Slots : SoundStream(s)'
BY DEF TypeInv, TypeOK, SoundStream, Sound

\* What every type has to do with the flags of the user.
LEMMA UserType ==
  ASSUME TypeInv, BotStart \/ BotStop \/ Pause \/ Resume
  PROVE  TypeInv'
<1>1. UNCHANGED <<head, queue, str, env, handle, subbed, known, reg, raced, dropped>>
  BY Zenon DEF BotStart, BotStop, Pause, Resume, clientVars
<1>2. /\ pc' \in {"ended", "loop", "subscribe", "start", "get", "gate", "wait", "leave"}
      /\ stopSet' \in BOOLEAN /\ paused' \in BOOLEAN /\ stopping' \in BOOLEAN
      /\ leftover' \in BOOLEAN /\ events' \in 0 .. MaxEvents
      /\ pc' # pc => env = Error
  <2> USE DEF TypeInv, TypeOK
  <2>1. CASE BotStart
    BY <2>1 DEF BotStart
  <2>2. CASE BotStop
    BY <2>2 DEF BotStop
  <2>3. CASE Pause
    BY <2>3 DEF Pause, Outside
  <2>4. CASE Resume
    BY <2>4 DEF Resume
  <2>5. QED
    BY <2>1, <2>2, <2>3, <2>4
<1>3. TypeOK'
  BY <1>1, <1>2, SameQueue, SameStreams DEF TypeInv, TypeOK
<1>4. Sound(env)' /\ (pc' \notin {"gate", "wait"} => env' = Error)
  BY <1>1, <1>2 DEF TypeInv, Sound
<1>5. subbed' # 0 => str'[subbed'].pc = "new"
  BY <1>1 DEF TypeInv
<1>6. QED
  BY <1>1, <1>3, <1>4, <1>5, SameQueue, SameStreams DEF TypeInv

LEMMA StopType ==
  ASSUME TypeInv, StopWakesUp
  PROVE  TypeInv'
<1>1. /\ UNCHANGED <<head, pc, stopSet, paused, env, subbed, known, leftover, dropped, events>>
      /\ stopping' = FALSE /\ UnsubscribeSilent /\ WakeUp
  BY DEF StopWakesUp
<1>2. queue' = IF Len(queue) < QMax THEN Append(queue, Sentinel) ELSE queue
  BY <1>1 DEF WakeUp
<1>3. head \in Nat /\ Sound(Sentinel)
  BY SoundConstants DEF TypeInv, TypeOK
<1>4. /\ queue' \in Seq(Item) /\ Len(queue') <= QMax
      /\ (\A i \in DOMAIN queue : Sound(queue[i]))'
  BY <1>1, <1>2, <1>3, PutType
<1>5. /\ str' \in [Slots -> Stream] /\ reg' \in Slots \union {0, -1} /\ raced' \in BOOLEAN
      /\ \A s \in Slots : SoundStream(s)' /\ str'[s].pc = str[s].pc
  BY <1>1, UnsubscribeType
<1>6. handle' = 0
  BY <1>1 DEF UnsubscribeSilent
<1>7. TypeOK'
  BY <1>1, <1>4, <1>5, <1>6 DEF TypeInv, TypeOK
<1>8. Sound(env)' /\ (pc' \notin {"gate", "wait"} => env' = Error)
  BY <1>1 DEF TypeInv, Sound
<1>9. subbed' # 0 => str'[subbed'].pc = "new"
  BY <1>1, <1>5 DEF TypeInv, TypeOK
<1>10. QED
  BY <1>4, <1>5, <1>7, <1>8, <1>9 DEF TypeInv

LEMMA SubscribeType ==
  ASSUME TypeInv, LoopHead \/ Subscribe \/ SubscribeStart \/ SubscribeFails \/ Leave
  PROVE  TypeInv'
<1>1. /\ UNCHANGED <<head, queue, env, stopSet, paused, stopping, known, dropped>>
      /\ pc \notin {"gate", "wait"} /\ pc' \notin {"gate", "wait"}
      /\ pc' \in {"ended", "loop", "subscribe", "start", "get", "leave"}
      /\ leftover' \in BOOLEAN /\ events' \in 0 .. MaxEvents
  <2> USE DEF TypeInv, TypeOK
  <2>1. CASE LoopHead
    BY <2>1 DEF LoopHead
  <2>2. CASE Subscribe
    BY <2>2 DEF Subscribe
  <2>3. CASE SubscribeStart
    BY <2>3 DEF SubscribeStart
  <2>4. CASE SubscribeFails
    BY <2>4 DEF SubscribeFails, Outside
  <2>5. CASE Leave
    BY <2>5 DEF Leave
  <2>6. QED
    BY <2>1, <2>2, <2>3, <2>4, <2>5
<1>2. /\ str' \in [Slots -> Stream] /\ reg' \in Slots \union {0, -1} /\ raced' \in BOOLEAN
      /\ \A s \in Slots : SoundStream(s)'
      /\ handle' \in Slots \union {0} /\ subbed' \in Slots \union {0}
      /\ subbed' # 0 => str'[subbed'].pc = "new"
  <2>1. CASE LoopHead
    BY <1>1, <2>1, SameStreams DEF LoopHead, clientVars, TypeInv, TypeOK
  <2>2. CASE Subscribe
    <3>1. PICK s \in Slots : Register(s) /\ subbed' = s
      BY <2>2 DEF Subscribe
    <3>2. DEFINE new == [NoStream EXCEPT !.pc = "new", !.stop = FALSE]
    <3>3. str' = [Stopped EXCEPT ![s] = new] /\ reg' = s /\ raced' = RacedStop
      BY <3>1 DEF Register
    <3>4. new \in Stream /\ new.pc = "new" /\ new.env = Error /\ new.next = 0
      BY NoStreamType DEF Stream
    <3>5. raced' \in BOOLEAN /\ handle' = handle
      BY <2>2, <3>3 DEF RacedStop, Subscribe, TypeInv, TypeOK
    <3>6. head \in Nat /\ Sound(Error)
      BY SoundConstants DEF TypeInv, TypeOK
    <3> HIDE DEF new
    <3>7. str' \in [Slots -> Stream]
      BY <3>3, <3>4, StoppedSound
    <3>8. ASSUME NEW x \in Slots PROVE SoundStream(x)'
      <4>1. CASE x = s
        BY <1>1, <3>3, <3>4, <3>6, <4>1, StoppedSound, EnvelopeTypes
           DEF SoundStream, Sound, Putting
      <4>2. CASE x # s
        BY <1>1, <3>3, <4>2, StoppedSound DEF SoundStream, Sound, Putting, TypeInv
      <4>3. QED
        BY <4>1, <4>2
    <3>9. str'[subbed'].pc = "new"
      BY <3>1, <3>3, <3>4, StoppedSound
    <3>10. QED
      BY <3>1, <3>3, <3>5, <3>7, <3>8, <3>9 DEF TypeInv, TypeOK
  <2>3. CASE SubscribeStart
    <3>1. /\ str' = [str EXCEPT ![subbed].pc = "connect", ![subbed].stop = FALSE]
          /\ handle' = subbed /\ subbed' = 0 /\ UNCHANGED <<reg, raced>>
          /\ pc = "start"
      BY <2>3 DEF SubscribeStart, StartStream
    <3>2. str' \in [Slots -> Stream]
      <4>1. str \in [Slots -> Stream]
        BY DEF TypeInv, TypeOK
      <4> DEFINE begun == [str[subbed] EXCEPT !.pc = "connect", !.stop = FALSE]
      <4>2. subbed \in Slots => begun \in Stream
        BY <4>1 DEF Stream
      <4>3. \A x \in Slots : str'[x] = IF x = subbed THEN begun ELSE str[x]
        BY <3>1, <4>1
      <4>4. DOMAIN str' = Slots /\ str' = [x \in Slots |-> str'[x]]
        BY <3>1, <4>1
      <4> HIDE DEF begun
      <4>5. QED
        BY <4>1, <4>2, <4>3, <4>4
    <3>3. ASSUME NEW x \in Slots PROVE SoundStream(x)'
      BY <1>1, <3>1 DEF TypeInv, TypeOK, SoundStream, Sound, Putting
    <3>4. QED
      BY <3>1, <3>2, <3>3 DEF TypeInv, TypeOK
  <2>4. CASE SubscribeFails \/ Leave
    <3>1. UnsubscribeSilent /\ subbed' = subbed /\ head' = head
      BY <2>4 DEF SubscribeFails, Leave
    <3>2. handle' = 0
      BY <3>1 DEF UnsubscribeSilent
    <3>3. QED
      BY <3>1, <3>2, UnsubscribeType DEF TypeInv, TypeOK
  <2>5. QED
    BY <2>1, <2>2, <2>3, <2>4
<1>3. TypeOK'
  BY <1>1, <1>2, SameQueue DEF TypeInv, TypeOK
<1>4. Sound(env)' /\ (pc' \notin {"gate", "wait"} => env' = Error)
  BY <1>1 DEF TypeInv, Sound
<1>5. QED
  BY <1>1, <1>2, <1>3, <1>4, SameQueue DEF TypeInv

LEMMA WorkType ==
  ASSUME TypeInv, Get \/ Gate \/ Wait
  PROVE  TypeInv'
<1>1. /\ UNCHANGED <<head, stopSet, paused, stopping, handle, subbed, leftover, reg, str, raced,
                     dropped, events>>
      /\ pc' \in {"leave", "gate", "wait", "loop"}
  BY Zenon DEF Get, Gate, Wait, Dispatch, clientVars
<1>2. /\ queue' \in Seq(Item) /\ Len(queue') <= QMax
      /\ (\A i \in DOMAIN queue : Sound(queue[i]))'
      /\ Sound(env') /\ (pc' \notin {"gate", "wait"} => env' = Error)
      /\ known' \subseteq 1 .. head
  <2>0. head \in Nat /\ Sound(Error) /\ Sound(env) /\ known \subseteq 1 .. head
    BY SoundConstants DEF TypeInv, TypeOK
  <2>1. CASE Get
    <3>1. queue # <<>> /\ queue' = Tail(queue) /\ known' = known
      BY <2>1, Zenon DEF Get
    <3>2. /\ queue' \in Seq(Item) /\ Len(queue') <= QMax
          /\ (\A i \in DOMAIN queue : Sound(queue[i]))'
          /\ Sound(Head(queue))
      BY <1>1, <3>1, TakeType
    <3>3. /\ env' = IF Head(queue) = Sentinel THEN Error ELSE Head(queue)
          /\ pc' = IF Head(queue) = Sentinel THEN "leave" ELSE "gate"
      BY <2>1, Zenon DEF Get
    <3>4. QED
      BY <2>0, <3>1, <3>2, <3>3
  <2>2. CASE Dispatch /\ queue' = queue
    <3>1. /\ known' = known \union (env.lo .. env.hi) /\ env' = Error
      BY <2>2 DEF Dispatch
    <3>2. (env.lo .. env.hi) \subseteq 1 .. head
      BY <2>0 DEF Sound, Item
    <3>3. QED
      BY <1>1, <2>0, <2>2, <3>1, <3>2, SameQueue
  <2>3. CASE pc' = "wait" /\ UNCHANGED <<queue, env, known>>
    BY <1>1, <2>0, <2>3, SameQueue
  <2>4. QED
    BY <2>1, <2>2, <2>3 DEF Gate, Wait
<1>3. Sound(env)'
  BY <1>1, <1>2 DEF Sound
<1>4. env' \in Item
  BY <1>2 DEF Sound
<1>5. TypeOK'
  BY <1>1, <1>2, <1>4, SameStreams DEF TypeInv, TypeOK
<1>6. subbed' # 0 => str'[subbed'].pc = "new"
  BY <1>1 DEF TypeInv
<1>7. QED
  BY <1>1, <1>2, <1>3, <1>5, <1>6, SameStreams DEF TypeInv

\* A stream's thread changes its own stream, the queue, and nothing of the bot.
LEMMA StreamType ==
  ASSUME TypeInv, NEW s \in Slots, StreamStep(s) \/ Broken(s)
  PROVE  TypeInv'
<1>0. /\ head \in 0 .. MaxRows /\ str \in [Slots -> Stream] /\ SoundStream(s)
      /\ queue \in Seq(Item) /\ Len(queue) <= QMax /\ Sound(Error) /\ dropped \in BOOLEAN
      /\ events \in 0 .. MaxEvents /\ Sound(str[s].env) /\ str[s] \in Stream
      /\ str[s].env.kind # "sentinel" /\ Error.kind # "sentinel"
      /\ str[s].env \in Item /\ str[s].next \in Nat /\ str[s].next <= head + 1 /\ Error \in Item
      /\ str[s].pc = "open" => 1 <= str[s].next
      /\ str[s].pc \notin Putting => str[s].env = Error
  <2>1. str \in [Slots -> Stream] /\ SoundStream(s) /\ head \in Nat
    BY DEF TypeInv, TypeOK
  <2>2. str[s] \in Stream
    BY <2>1
  <2>3. str[s].next \in Nat /\ str[s].env \in Item
    BY <2>2 DEF Stream
  <2>4. QED
    BY <2>1, <2>2, <2>3, SoundConstants, EnvelopeTypes DEF TypeInv, TypeOK, SoundStream
<1>1. UNCHANGED <<head, pc, stopSet, paused, stopping, env, handle, subbed, known, leftover,
                  reg, raced>>
  BY Zenon DEF StreamStep, StreamEnds, Connected, ConnectFails, Recv, Broken, OnData, Evict,
     Reput, StreamUnchanged, botVars
<1>2. DEFINE Sane(new) == /\ new \in Stream /\ new.pc # "new"
                          /\ Sound(new.env) /\ new.env.kind # "sentinel"
                          /\ new.next <= head + 1
                          /\ new.pc \notin Putting => new.env = Error
                          /\ new.pc = "open" => 1 <= new.next
<1>3. /\ \E new : Sane(new) /\ str' = [str EXCEPT ![s] = new]
      /\ str[s].pc # "new"
  <2> USE DEF Putting
  <2>0. Sane(NoStream)
    BY <1>0, NoStreamType
  <2>1. CASE StreamEnds(s)
    BY <2>0, <2>1 DEF StreamEnds
  <2>2. CASE Connected(s)
    <3>1. DEFINE new == [str[s] EXCEPT !.pc = "open", !.next = FirstRow]
    <3>2. str' = [str EXCEPT ![s] = new] /\ str[s].pc = "connect"
      BY <1>0, <2>2 DEF Connected
    <3>3. new \in Stream /\ new.pc = "open" /\ new.env = str[s].env /\ new.next = 1
      BY <1>0, <3>2 DEF Stream, FirstRow
    <3>5. Sane(new)
      <4> HIDE DEF new
      <4> QED BY <1>0, <3>2, <3>3
    <3>4. QED
      BY <3>2, <3>5
  <2>3. CASE ConnectFails(s)
    <3>1. DEFINE new == [str[s] EXCEPT !.env = Error, !.pc = "put"]
    <3>2. str' = [str EXCEPT ![s] = new] /\ str[s].pc = "connect"
      BY <1>0, <2>3 DEF ConnectFails
    <3>3. Sane(new)
      BY <1>0, <3>2, EnvelopeTypes DEF SoundStream, Stream
    <3>4. QED
      BY <3>2, <3>3
  <2>4. CASE Recv(s)
    <3>1. DEFINE new == [str[s] EXCEPT !.env = Rows(str[s].next, head), !.next = head + 1,
                                       !.pc = "put"]
    <3>2. /\ str' = [str EXCEPT ![s] = new]
          /\ str[s].pc = "open" /\ str[s].next <= head
      BY <1>0, <2>4 DEF Recv
    <3>3. /\ str[s].next \in Nat /\ 1 <= str[s].next
      BY <1>0, <3>2 DEF SoundStream, Stream
    <3>4. /\ Rows(str[s].next, head) \in Item /\ Sound(Rows(str[s].next, head))
          /\ Rows(str[s].next, head).kind # "sentinel"
      BY <1>0, <3>3 DEF Rows, Item, Sound
    <3>5. /\ new \in Stream /\ new.pc = "put" /\ new.next = head + 1
          /\ new.env = Rows(str[s].next, head)
      <4>1. PICK e \in Item : e = Rows(str[s].next, head)
        BY <3>4
      <4>2. PICK n \in Nat : n = head + 1
        BY <1>0
      <4>3. new = [str[s] EXCEPT !.env = e, !.next = n, !.pc = "put"]
        BY <4>1, <4>2
      <4> HIDE DEF new
      <4>4. QED
        BY <1>0, <4>1, <4>2, <4>3 DEF Stream
    <3>6. Sane(new)
      <4> HIDE DEF new
      <4> QED BY <1>0, <3>4, <3>5
    <3>7. QED
      BY <3>2, <3>6
  <2>5. CASE Broken(s)
    <3>1. CASE str[s].stop
      BY <2>0, <2>5, <3>1 DEF Broken
    <3>2. CASE ~str[s].stop
      <4>1. DEFINE new == [str[s] EXCEPT !.pc = "connect", !.next = 0]
      <4>2. str' = [str EXCEPT ![s] = new] /\ str[s].pc = "open"
        BY <1>0, <2>5, <3>2 DEF Broken
      <4>3. new \in Stream /\ new.pc = "connect" /\ new.env = str[s].env /\ new.next = 0
        BY <1>0, <4>2 DEF Stream
      <4>4. Sane(new)
        <5> HIDE DEF new
        <5> QED BY <1>0, <4>2, <4>3
      <4>5. QED
        BY <4>2, <4>4
    <3>3. QED
      BY <3>1, <3>2
  <2>6. ASSUME str' = Return(s), str[s].pc \in Putting
        PROVE  \E new : Sane(new) /\ str' = [str EXCEPT ![s] = new]
    <3>1. CASE str[s].stop
      BY <2>0, <2>6, <3>1 DEF Return
    <3>2. CASE ~str[s].stop
      <4>1. DEFINE new == [str[s] EXCEPT !.pc = IF str[s].next = 0 THEN "connect" ELSE "open",
                                         !.env = Error]
      <4>2. str' = [str EXCEPT ![s] = new]
        BY <1>0, <2>6, <3>2 DEF Return
      <4>3. /\ new \in Stream /\ new.pc \in {"connect", "open"} /\ new.env = Error
            /\ new.next = str[s].next /\ (new.pc = "open" => new.next # 0)
        BY <1>0 DEF Stream
      <4>4. Sane(new)
        <5> HIDE DEF new
        <5> QED BY <1>0, <4>3
      <4>5. QED
        BY <4>2, <4>4
    <3>3. QED
      BY <3>1, <3>2
  <2>7. ASSUME NEW at \in {"evict", "reput"}, str' = [str EXCEPT ![s].pc = at],
               str[s].pc \in Putting
        PROVE  \E new : Sane(new) /\ str' = [str EXCEPT ![s] = new]
    <3>1. DEFINE new == [str[s] EXCEPT !.pc = at]
    <3>2. str' = [str EXCEPT ![s] = new]
      BY <1>0, <2>7
    <3>3. Sane(new)
      BY <1>0, <2>7 DEF SoundStream, Stream
    <3>4. QED
      BY <3>2, <3>3
  <2>8. CASE OnData(s)
    BY <2>6, <2>7, <2>8 DEF OnData
  <2>9. CASE Evict(s)
    BY <2>6, <2>7, <2>9 DEF Evict
  <2>10. CASE Reput(s)
    BY <2>6, <2>10 DEF Reput
  <2>11. QED
    BY <2>1, <2>2, <2>3, <2>4, <2>5, <2>8, <2>9, <2>10 DEF StreamStep
<1>4. /\ queue' \in Seq(Item) /\ Len(queue') <= QMax
      /\ (\A i \in DOMAIN queue : Sound(queue[i]))'
  <2>1. CASE queue' = IF Len(queue) < QMax THEN Append(queue, str[s].env) ELSE queue
    BY <1>0, <1>1, <2>1, PutType
  <2>2. CASE queue # <<>> /\ queue' = Tail(queue)
    BY <1>1, <2>2, TakeType
  <2>3. CASE queue' = queue
    BY <1>1, <2>3, SameQueue
  <2>4. QED
    BY <2>1, <2>2, <2>3, Zenon DEF StreamStep, StreamEnds, Connected, ConnectFails, Recv, Broken,
       OnData, Evict, Reput
<1>5. dropped' \in BOOLEAN /\ events' \in 0 .. MaxEvents
  <2>1. CASE StreamEnds(s) \/ Connected(s) \/ Recv(s) \/ OnData(s)
    BY <1>0, <2>1, Zenon DEF StreamEnds, Connected, Recv, OnData
  <2>2. CASE ConnectFails(s)
    BY <1>0, <2>2 DEF ConnectFails, Outside
  <2>3. CASE Broken(s)
    BY <1>0, <2>3 DEF Broken
  <2>4. CASE Evict(s)
    <3>1. dropped' \in {dropped, dropped \/ str[s].env.kind = "rows",
                        dropped \/ Head(queue).kind = "rows"} /\ events' = events
      BY <2>4, Zenon DEF Evict
    <3>2. QED
      BY <1>0, <3>1
  <2>5. CASE Reput(s)
    <3>1. /\ dropped' = (dropped \/ (Len(queue) >= QMax /\ str[s].env.kind = "rows"))
          /\ events' = events
      BY <2>5, Zenon DEF Reput
    <3>2. QED
      BY <1>0, <3>1
  <2>6. QED
    BY <2>1, <2>2, <2>3, <2>4, <2>5 DEF StreamStep
<1>6. PICK new : Sane(new) /\ str' = [str EXCEPT ![s] = new]
  BY <1>3
<1>7. str' \in [Slots -> Stream]
  BY <1>0, <1>6
<1>8. ASSUME NEW x \in Slots PROVE SoundStream(x)'
  <2>1. CASE x = s
    BY <1>0, <1>1, <1>6, <2>1 DEF SoundStream, Sound
  <2>2. CASE x # s
    BY <1>0, <1>1, <1>6, <2>2 DEF SoundStream, Sound, TypeInv
  <2>3. QED
    BY <2>1, <2>2
<1>9. subbed' # 0 => str'[subbed'].pc = "new"
  BY <1>0, <1>1, <1>3, <1>6 DEF TypeInv, TypeOK
<1>10. TypeOK'
  BY <1>1, <1>4, <1>5, <1>7 DEF TypeInv, TypeOK
<1>11. Sound(env)' /\ (pc' \notin {"gate", "wait"} => env' = Error)
  BY <1>1 DEF TypeInv, Sound
<1>12. QED
  BY <1>4, <1>8, <1>9, <1>10, <1>11 DEF TypeInv

LEMMA OtherType ==
  ASSUME TypeInv, RowAdded \/ OtherSubscribes \/ OtherUnsubscribes
  PROVE  TypeInv'
<1>1. CASE RowAdded
  <2>1. /\ head' = head + 1 /\ head \in Nat /\ head' \in 0 .. MaxRows
        /\ UNCHANGED <<botVars, queue, clientVars, dropped, events>>
    BY <1>1 DEF RowAdded, TypeInv, TypeOK
  <2>2. UNCHANGED <<pc, stopSet, paused, stopping, env, handle, subbed, known, leftover, reg, str,
                    raced, queue, dropped, events>>
    BY <2>1 DEF botVars, clientVars
  <2>3. \A x : Sound(x) => Sound(x)'
    BY <2>1 DEF Sound, Item
  <2>4. \A s \in Slots : SoundStream(s)'
    BY SMTT(30), <2>1, <2>2 DEF TypeInv, TypeOK, SoundStream, Sound, Stream, Item
  <2>5. TypeOK'
    BY <2>1, <2>2 DEF TypeInv, TypeOK
  <2>6. Sound(env)' /\ (\A i \in DOMAIN queue : Sound(queue[i]))'
    BY <2>1, <2>2 DEF TypeInv, Sound, Item
  <2>7. QED
    BY <2>2, <2>4, <2>5, <2>6 DEF TypeInv
<1>2. CASE OtherSubscribes \/ OtherUnsubscribes
  <2>1. /\ UNCHANGED <<head, pc, stopSet, paused, stopping, env, handle, subbed, known, leftover,
                       queue, dropped>>
        /\ str' = Stopped /\ reg' \in {0, -1} /\ raced' = RacedStop
    BY <1>2, Zenon DEF OtherSubscribes, OtherUnsubscribes, Unsubscribe, botVars
  <2>2. events' \in 0 .. MaxEvents
    BY <1>2 DEF OtherSubscribes, OtherUnsubscribes, Outside, TypeInv, TypeOK
  <2>3. raced' \in BOOLEAN
    BY <2>1 DEF RacedStop, TypeInv, TypeOK
  <2>4. str' \in [Slots -> Stream] /\ \A s \in Slots : SoundStream(s)' /\ str'[s].pc = str[s].pc
    BY <2>1, StoppedSound DEF SoundStream, Sound, TypeInv
  <2>5. TypeOK'
    BY <2>1, <2>2, <2>3, <2>4, SameQueue DEF TypeInv, TypeOK
  <2>6. Sound(env)' /\ (subbed' # 0 => str'[subbed'].pc = "new")
    BY <2>1, <2>4 DEF TypeInv, TypeOK, Sound
  <2>7. QED
    BY <2>1, <2>4, <2>5, <2>6, SameQueue DEF TypeInv
<1>3. QED
  BY <1>1, <1>2

LEMMA TypeStep == TypeInv /\ [Next]_vars => TypeInv'
<1>1. ASSUME TypeInv, UNCHANGED vars PROVE TypeInv'
  BY <1>1, SameQueue, SameStreams
     DEF vars, botVars, clientVars, TypeInv, TypeOK, Sound
<1>2. ASSUME TypeInv, Next PROVE TypeInv'
  BY <1>2, UserType, StopType, SubscribeType, WorkType, StreamType, OtherType
     DEF Next, User, Worker
<1>3. QED
  BY <1>1, <1>2

\* Every variable of a bot has its type, for any queue size, streams, rows and failures:
\* in particular the queue keeps its bound and nothing is dispatched that the server
\* does not have.
THEOREM TypeCorrect == Spec => []TypeOK
<1>1. TypeInv => TypeOK
  BY DEF TypeInv
<1>2. QED
  BY <1>1, InitType, TypeStep, PTL DEF Spec

-----------------------------------------------------------------------------
(* What ends the worker *)

SentinelQueued == \E i \in DOMAIN queue : queue[i] = Sentinel

EndInv ==
  /\ stopping => stopSet
  /\ pc # "ended" /\ SentinelQueued => stopSet \/ leftover
  /\ pc = "leave" => stopSet \/ leftover

\* The queue changes by one envelope at a time, and only stop() adds a sentinel.
LEMMA NoNewSentinel ==
  ASSUME TypeInv, TypeInv',
         \/ queue' = queue
         \/ queue # <<>> /\ queue' = Tail(queue)
         \/ \E x : /\ Sound(x) /\ x.kind # "sentinel"
                  /\ queue' = IF Len(queue) < QMax THEN Append(queue, x) ELSE queue
  PROVE  SentinelQueued' => SentinelQueued
<1>0. queue \in Seq(Item) /\ Len(queue) <= QMax
  BY DEF TypeInv, TypeOK
<1>1. CASE queue' = queue
  BY <1>1 DEF SentinelQueued
<1>2. CASE queue # <<>> /\ queue' = Tail(queue)
  <2>1. /\ DOMAIN queue = 1 .. Len(queue) /\ DOMAIN queue' = 1 .. Len(queue) - 1
        /\ Len(queue) \in Nat /\ \A i \in 1 .. Len(queue) - 1 : queue'[i] = queue[i + 1]
    BY <1>0, <1>2, QueueTail
  <2>2. ASSUME NEW i \in 1 .. Len(queue) - 1, queue'[i] = Sentinel
        PROVE  SentinelQueued
    <3>1. i + 1 \in 1 .. Len(queue) /\ queue[i + 1] = Sentinel
      <4>1. Len(queue) \in Nat /\ queue'[i] = queue[i + 1]
        BY <2>1
      <4>2. QED
        BY <2>2, <4>1
    <3>2. QED
      BY <2>1, <3>1 DEF SentinelQueued
  <2>3. QED
    BY <2>1, <2>2 DEF SentinelQueued
<1>3. ASSUME NEW x, Sound(x), x.kind # "sentinel", Len(queue) < QMax, queue' = Append(queue, x)
      PROVE  SentinelQueued' => SentinelQueued
  <2>1. /\ DOMAIN queue = 1 .. Len(queue) /\ DOMAIN queue' = 1 .. Len(queue) + 1
        /\ Len(queue) \in Nat /\ queue'[Len(queue) + 1] = x
        /\ \A i \in 1 .. Len(queue) : queue'[i] = queue[i]
    <3>1. x \in Item
      BY <1>3 DEF Sound
    <3>2. QED
      BY <1>0, <1>3, <3>1, QueueAppend
  <2>2. x # Sentinel
    BY <1>3, EnvelopeTypes
  <2>3. ASSUME NEW i \in DOMAIN queue', queue'[i] = Sentinel
        PROVE  SentinelQueued
    <3>1. i \in 1 .. Len(queue)
      <4>1. i \in 1 .. Len(queue) + 1 /\ i # Len(queue) + 1 /\ Len(queue) \in Nat
        BY <2>1, <2>2, <2>3
      <4>2. QED
        BY <4>1
    <3>2. QED
      BY <2>1, <2>3, <3>1 DEF SentinelQueued
  <2>4. QED
    BY <2>3 DEF SentinelQueued
<1>4. QED
  BY <1>1, <1>2, <1>3

\* What a stream's thread does to the queue.
LEMMA StreamQueue ==
  ASSUME TypeInv, NEW s \in Slots, StreamStep(s) \/ Broken(s)
  PROVE  \/ queue' = queue
         \/ queue # <<>> /\ queue' = Tail(queue)
         \/ queue' = IF Len(queue) < QMax THEN Append(queue, str[s].env) ELSE queue
BY Zenon DEF StreamStep, StreamEnds, Connected, ConnectFails, Recv, Broken, OnData, Evict, Reput

LEMMA EndStep == TypeInv /\ EndInv /\ [Next]_vars => EndInv'
<1> SUFFICES ASSUME TypeInv, EndInv, [Next]_vars PROVE EndInv'
  OBVIOUS
<1>0. TypeInv'
  BY TypeStep
<1>1. CASE UNCHANGED vars
  BY <1>1 DEF vars, botVars, EndInv, SentinelQueued
<1>2. CASE BotStart
  BY <1>2 DEF BotStart, EndInv, SentinelQueued
<1>3. CASE BotStop
  BY <1>3 DEF BotStop, EndInv, SentinelQueued
<1>4. CASE StopWakesUp
  BY <1>4 DEF StopWakesUp, EndInv
<1>5. CASE Pause \/ Resume
  BY <1>5 DEF Pause, Resume, EndInv, SentinelQueued
<1>6. CASE LoopHead
  BY <1>6 DEF LoopHead, EndInv, SentinelQueued
<1>7. CASE Subscribe \/ SubscribeStart \/ SubscribeFails
  BY <1>7 DEF Subscribe, SubscribeStart, SubscribeFails, EndInv, SentinelQueued
<1>8. CASE Get
  <2>1. /\ pc = "get" /\ queue # <<>> /\ queue' = Tail(queue)
        /\ pc' = IF Head(queue) = Sentinel THEN "leave" ELSE "gate"
        /\ UNCHANGED <<stopSet, stopping, leftover>>
    BY <1>8, Zenon DEF Get
  <2>2. SentinelQueued' => SentinelQueued
    BY <1>0, <2>1, NoNewSentinel
  <2>3. Head(queue) = Sentinel => SentinelQueued
    <3>1. /\ queue \in Seq(Item) /\ Len(queue) <= QMax
      BY DEF TypeInv, TypeOK
    <3>2. DOMAIN queue = 1 .. Len(queue) /\ Len(queue) \in Nat \ {0} /\ Head(queue) = queue[1]
      BY <2>1, <3>1, QueueTail
    <3>3. QED
      BY <3>2 DEF SentinelQueued
  <2>4. QED
    BY <2>1, <2>2, <2>3 DEF EndInv
<1>9. CASE Gate \/ Wait
  BY <1>9 DEF Gate, Wait, Dispatch, EndInv, SentinelQueued
<1>10. CASE Leave
  BY <1>10 DEF Leave, EndInv
<1>11. ASSUME NEW s \in Slots, StreamStep(s) \/ Broken(s)
       PROVE  EndInv'
  <2>1. UNCHANGED <<pc, stopSet, stopping, leftover>>
    BY <1>11, Zenon DEF StreamStep, StreamEnds, Connected, ConnectFails, Recv, Broken, OnData,
       Evict, Reput, StreamUnchanged, botVars
  <2>2. Sound(str[s].env) /\ str[s].env.kind # "sentinel"
    BY DEF TypeInv, SoundStream
  <2>3. SentinelQueued' => SentinelQueued
    BY <1>0, <1>11, <2>2, StreamQueue, NoNewSentinel
  <2>4. QED
    BY <2>1, <2>3 DEF EndInv
<1>12. CASE RowAdded \/ OtherSubscribes \/ OtherUnsubscribes
  BY <1>12 DEF RowAdded, OtherSubscribes, OtherUnsubscribes, botVars, EndInv, SentinelQueued
<1>13. QED
  BY <1>1, <1>2, <1>3, <1>4, <1>5, <1>6, <1>7, <1>8, <1>9, <1>10, <1>11, <1>12
     DEF Next, User, Worker

\* The worker ends only after a stop(), or on a sentinel that an earlier stop() left in
\* the queue: _run leaves its loop by the stop event or by None, and the queue has no
\* None that nobody's stop() put there.
THEOREM EndsOnlyWhenStopped == Spec => EndsWhenStopped
<1>1. Init => EndInv
  BY DEF Init, EndInv
<1>2. TypeInv /\ EndInv /\ [Next]_vars => [pc # "ended" /\ pc' = "ended" => stopSet \/ leftover]_vars
  <2>1. ASSUME Next, EndInv, pc # "ended", pc' = "ended" PROVE stopSet \/ leftover
    <3>1. ASSUME NEW s \in Slots, StreamStep(s) \/ Broken(s) PROVE pc' = pc
      BY <3>1, Zenon DEF StreamStep, StreamEnds, Connected, ConnectFails, Recv, Broken, OnData,
         Evict, Reput, StreamUnchanged, botVars
    <3>2. CASE User \/ RowAdded \/ OtherSubscribes \/ OtherUnsubscribes
      BY <2>1, <3>2 DEF User, BotStart, BotStop, StopWakesUp, Pause, Resume, RowAdded,
         OtherSubscribes, OtherUnsubscribes, botVars
    <3>3. CASE Worker
      BY <2>1, <3>3 DEF Worker, LoopHead, Subscribe, SubscribeStart, SubscribeFails, Get, Gate,
         Wait, Dispatch, Leave, EndInv
    <3>4. QED
      BY <2>1, <3>1, <3>2, <3>3 DEF Next
  <2>2. QED
    BY <2>1
<1>3. QED
  BY <1>1, <1>2, InitType, TypeStep, EndStep, PTL DEF Spec, EndsWhenStopped

-----------------------------------------------------------------------------
(* No stream is left behind *)

Live(s) == ~str[s].stop /\ str[s].pc # "done"

\* The handle and the registration change in different threads: what binds them is
\* where the worker is between subscribing and keeping the handle.
OrphanInv ==
  /\ pc \in {"ended", "subscribe", "start"} => handle = 0
  /\ pc = "start" <=> subbed # 0
  /\ ~raced =>
       /\ pc = "start" => reg = subbed /\ str[subbed].pc = "new"
       /\ \A s \in Slots : Live(s) => reg = s /\ (handle # 0 \/ pc = "start")

\* After unregistering, nobody's stream is live, unless it was not the registered one.
LEMMA NoneLive ==
  ASSUME TypeInv, OrphanInv, str' = Stopped, raced' = RacedStop
  PROVE  /\ ~raced' => ~raced
         /\ ~raced' => \A s \in Slots : ~Live(s)'
         /\ ~raced' => pc # "start"
<1>1. ~raced' => ~raced /\ ~(reg \in Slots /\ str[reg].pc = "new")
  BY DEF RacedStop
<1>2. ASSUME ~raced', NEW s \in Slots, Live(s)' PROVE FALSE
  <2>1. Live(s) /\ s # reg
    BY <1>2, StoppedSound DEF Live
  <2>2. QED
    BY <1>1, <1>2, <2>1 DEF OrphanInv
<1>3. ASSUME ~raced', pc = "start" PROVE FALSE
  <2>1. subbed \in Slots /\ reg = subbed /\ str[reg].pc = "new"
    BY <1>1, <1>3 DEF OrphanInv, TypeInv, TypeOK
  <2>2. QED
    BY <1>1, <1>3, <2>1
<1>4. QED
  BY <1>1, <1>2, <1>3

\* Giving up the handle leaves no live stream, or one that is just being started.
LEMMA GivesUp ==
  ASSUME TypeInv, OrphanInv, UnsubscribeSilent, pc' = pc \/ pc # "start", subbed' = subbed,
         pc' \in {pc, "loop", "ended"}
  PROVE  OrphanInv'
<1>1. handle' = 0
  BY DEF UnsubscribeSilent
<1>2. CASE handle # 0
  <2>1. str' = Stopped /\ raced' = RacedStop /\ pc # "start" /\ subbed = 0
    BY <1>2 DEF UnsubscribeSilent, Unsubscribe, OrphanInv
  <2>2. ~raced' => \A s \in Slots : ~Live(s)'
    BY <2>1, NoneLive
  <2>3. QED
    BY <1>1, <2>1, <2>2 DEF OrphanInv
<1>3. CASE handle = 0
  <2>1. UNCHANGED <<reg, str, raced>>
    BY <1>3 DEF UnsubscribeSilent, clientVars
  <2>2. QED
    BY <1>1, <1>3, <2>1 DEF OrphanInv, Live
<1>4. QED
  BY <1>2, <1>3

LEMMA OrphanStep == TypeInv /\ OrphanInv /\ [Next]_vars => OrphanInv'
<1> SUFFICES ASSUME TypeInv, OrphanInv, [Next]_vars PROVE OrphanInv'
  OBVIOUS
<1>1. CASE UNCHANGED vars
  BY <1>1 DEF vars, botVars, clientVars, OrphanInv, Live
<1>2. CASE BotStart \/ BotStop \/ Pause \/ Resume \/ LoopHead \/ Get \/ Gate \/ Wait \/ RowAdded
  <2>1. UNCHANGED <<handle, subbed, reg, str, raced>>
    BY <1>2, Zenon DEF BotStart, BotStop, Pause, Resume, LoopHead, Get, Gate, Wait, RowAdded,
       clientVars, botVars
  <2>2. \/ pc' = pc
        \/ pc # "start" /\ pc' \in {"loop", "leave", "get", "gate", "wait"}
        \/ pc = "loop" /\ pc' = "subscribe" /\ handle = 0
    BY <1>2 DEF BotStart, BotStop, Pause, Resume, LoopHead, Get, Gate, Wait, Dispatch, RowAdded,
       botVars
  <2>3. QED
    BY <2>1, <2>2 DEF OrphanInv, Live
<1>3. CASE StopWakesUp \/ SubscribeFails \/ Leave
  BY <1>3, GivesUp DEF StopWakesUp, SubscribeFails, Leave
<1>4. CASE Subscribe
  <2>1. PICK s \in Slots : Register(s) /\ subbed' = s
    BY <1>4 DEF Subscribe
  <2>2. DEFINE new == [NoStream EXCEPT !.pc = "new", !.stop = FALSE]
  <2>3. str' = [Stopped EXCEPT ![s] = new] /\ reg' = s /\ raced' = RacedStop
    BY <2>1 DEF Register
  <2>4. new.pc = "new"
    BY NoStreamType DEF Stream
  <2>5. s # 0 /\ pc' = "start" /\ pc = "subscribe" /\ handle' = handle
    BY <1>4 DEF Subscribe
  <2> HIDE DEF new
  <2>6. str'[s].pc = "new"
    BY <2>3, <2>4, StoppedSound
  <2>7. ASSUME NEW x \in Slots, Live(x)', ~raced' PROVE x = s
    <3>1. ~raced
      BY <2>3, <2>7 DEF RacedStop
    <3>2. SUFFICES ASSUME x # s PROVE FALSE
      OBVIOUS
    <3>3. Live(x) /\ x # reg
      BY <2>3, <2>7, <3>2, StoppedSound DEF Live
    <3>4. QED
      BY <3>1, <3>3 DEF OrphanInv
  <2>8. QED
    BY <2>1, <2>3, <2>5, <2>6, <2>7 DEF OrphanInv
<1>5. CASE SubscribeStart
  <2>1. /\ str' = [str EXCEPT ![subbed].pc = "connect", ![subbed].stop = FALSE]
        /\ handle' = subbed /\ subbed' = 0 /\ UNCHANGED <<reg, raced>>
        /\ pc = "start" /\ pc' = "get"
    BY <1>5 DEF SubscribeStart, StartStream
  <2>2. subbed \in Slots
    BY <2>1 DEF OrphanInv, TypeInv, TypeOK
  <2>3. ASSUME ~raced', NEW x \in Slots, Live(x)' PROVE reg = x
    <3>1. CASE x = subbed
      BY <2>1, <2>3, <3>1 DEF OrphanInv
    <3>2. CASE x # subbed
      BY <2>1, <2>3, <3>2 DEF OrphanInv, Live, TypeInv, TypeOK
    <3>3. QED
      BY <3>1, <3>2
  <2>4. QED
    BY <2>1, <2>2, <2>3 DEF OrphanInv
<1>6. ASSUME NEW s \in Slots, StreamStep(s) \/ Broken(s)
      PROVE  OrphanInv'
  <2>1. UNCHANGED <<pc, handle, subbed, reg, raced>>
    BY <1>6, Zenon DEF StreamStep, StreamEnds, Connected, ConnectFails, Recv, Broken, OnData,
       Evict, Reput, StreamUnchanged, botVars
  <2>2. /\ str[s].pc \notin {"new", "done"} /\ (\A x \in Slots \ {s} : str'[x] = str[x])
        /\ str'[s].stop \/ str'[s].stop = str[s].stop
    <3> USE NoStreamType DEF TypeInv, TypeOK, Stream
    <3>1. CASE StreamEnds(s) \/ Connected(s)
      BY <3>1 DEF StreamEnds, Connected
    <3>2. CASE ConnectFails(s) \/ Recv(s)
      BY <3>2 DEF ConnectFails, Recv
    <3>3. CASE Broken(s)
      BY <3>3 DEF Broken
    <3>4. CASE OnData(s)
      BY <3>4 DEF OnData, Return
    <3>5. CASE Evict(s) \/ Reput(s)
      BY <3>5 DEF Evict, Reput, Return
    <3>6. QED
      BY <1>6, <3>1, <3>2, <3>3, <3>4, <3>5 DEF StreamStep
  <2>3. \A x \in Slots : Live(x)' => Live(x)
    BY <2>2 DEF Live
  <2>4. pc = "start" /\ ~raced => subbed \in Slots \ {s}
    BY <2>2 DEF OrphanInv, TypeInv, TypeOK
  <2>5. QED
    BY <2>1, <2>2, <2>3, <2>4 DEF OrphanInv
<1>7. CASE OtherSubscribes \/ OtherUnsubscribes
  <2>1. str' = Stopped /\ raced' = RacedStop /\ UNCHANGED <<pc, handle, subbed>>
    BY <1>7, Zenon DEF OtherSubscribes, OtherUnsubscribes, Unsubscribe, botVars
  <2>2. QED
    BY <2>1, NoneLive DEF OrphanInv
<1>8. QED
  BY <1>1, <1>2, <1>3, <1>4, <1>5, <1>6, <1>7 DEF Next, User, Worker

\* A stream that runs is the registered one, and an ended bot has none, for any number of
\* streams and calls of the user and of the other bot; except when a stop() came between
\* the registration of a stream and its start, which clears the stop event.
THEOREM NothingOrphaned == Spec => []NoOrphan
<1>1. Init => OrphanInv
  BY NoStreamType DEF Init, OrphanInv, Live
<1>2. OrphanInv => NoOrphan
  BY DEF OrphanInv, Live, NoOrphan
<1>3. QED
  BY <1>1, <1>2, InitType, TypeStep, OrphanStep, PTL DEF Spec

-----------------------------------------------------------------------------
(* No row is missed unnoticed *)

Carries(x, r) == x.lo <= r /\ r <= x.hi

\* The strategy knows the row, or it is on its way: with the worker, or in the queue
\* before position n.
HasBefore(n, r) ==
  \/ r \in known
  \/ Carries(env, r)
  \/ \E i \in DOMAIN queue : i < n /\ Carries(queue[i], r)

Has(r) ==
  \/ r \in known
  \/ Carries(env, r)
  \/ \E i \in DOMAIN queue : Carries(queue[i], r)

\* The envelopes come in an order in which each finds the rows below its own ones known
\* or ahead of it: the known rows have no gap, nor would they after any of them.
QueueInv ==
  /\ \A r \in known : 1 .. r \subseteq known
  /\ 1 .. env.lo - 1 \subseteq known
  /\ \A i \in DOMAIN queue : \A r \in 1 .. queue[i].lo - 1 : HasBefore(i, r)

\* A stream owes nothing below the envelope it holds, nor below what it will be sent.
Paid(s) ==
  /\ \A r \in 1 .. str[s].env.lo - 1 : Has(r)
  /\ \A r \in 1 .. str[s].next - 1 : Has(r) \/ Carries(str[s].env, r)

GapInv == ~dropped => QueueInv /\ \A s \in Slots : Paid(s)

LEMMA OnlyRowsCarry ==
  ASSUME NEW x, Sound(x), x.kind # "rows", NEW r \in Int
  PROVE  ~Carries(x, r)
BY DEF Sound, Carries, Item

\* Rows on their way stay so when the queue gets an envelope at its end.
LEMMA AppendGap ==
  ASSUME TypeInv, QueueInv, NEW x, Sound(x), \A r \in 1 .. x.lo - 1 : Has(r),
         queue' = IF Len(queue) < QMax THEN Append(queue, x) ELSE queue,
         UNCHANGED <<known, env>>
  PROVE  /\ QueueInv'
         /\ \A r : Has(r) => Has(r)'
         /\ Len(queue) < QMax => \A r : Carries(x, r) => Has(r)'
<1>1. CASE Len(queue) < QMax
  <2>1. queue \in Seq(Item) /\ x \in Item /\ queue' = Append(queue, x)
    BY <1>1 DEF TypeInv, TypeOK, Sound
  <2>2. /\ DOMAIN queue = 1 .. Len(queue) /\ DOMAIN queue' = 1 .. Len(queue) + 1
        /\ Len(queue) \in Nat /\ queue'[Len(queue) + 1] = x
        /\ \A i \in 1 .. Len(queue) : queue'[i] = queue[i]
    BY <1>1, <2>1, QueueAppend
  <2>0. PICK n \in Nat : n = Len(queue)
    BY <2>2
  <2>3. n \in Nat /\ DOMAIN queue = 1 .. n /\ DOMAIN queue' = 1 .. n + 1
        /\ queue'[n + 1] = x /\ \A i \in 1 .. n : i \in 1 .. n + 1 /\ i < n + 1 /\ queue'[i] = queue[i]
    BY <2>0, <2>2
  <2>4. \A r : Has(r) => Has(r)' /\ HasBefore(n + 1, r)'
    <3>1. ASSUME NEW r, NEW i \in 1 .. n, Carries(queue[i], r)
          PROVE  Has(r)' /\ HasBefore(n + 1, r)'
      <4>1. i \in DOMAIN queue' /\ i < n + 1 /\ Carries(queue'[i], r)
        BY <2>3, <3>1
      <4>2. QED
        BY <4>1 DEF Has, HasBefore
    <3>2. ASSUME NEW r, r \in known \/ Carries(env, r)
          PROVE  Has(r)' /\ HasBefore(n + 1, r)'
      BY <3>2 DEF Has, HasBefore
    <3>3. QED
      BY <2>3, <3>1, <3>2 DEF Has
  <2>5. ASSUME NEW i \in 1 .. n + 1, NEW r \in 1 .. queue'[i].lo - 1
        PROVE  HasBefore(i, r)'
    <3>1. CASE i = n + 1
      <4>1. r \in 1 .. x.lo - 1
        BY <2>3, <2>5, <3>1
      <4>2. HasBefore(n + 1, r)'
        BY <2>4, <4>1
      <4>3. QED
        BY <3>1, <4>2
    <3>2. CASE i \in 1 .. n
      <4>1. HasBefore(i, r)
        BY <2>3, <2>5, <3>2 DEF QueueInv
      <4>2. QED
        BY <2>3, <4>1 DEF HasBefore
    <3>3. QED
      BY <2>3, <3>1, <3>2
  <2>6. n + 1 \in 1 .. n + 1
    BY <2>3
  <2>7. \A r : Carries(x, r) => Has(r)'
    BY <2>3, <2>6 DEF Has
  <2>8. QED
    BY <2>3, <2>4, <2>5, <2>7 DEF QueueInv
<1>2. CASE ~(Len(queue) < QMax)
  BY <1>2 DEF QueueInv, Has, HasBefore
<1>3. QED
  BY <1>1, <1>2

\* And when its oldest leaves: to the worker, or for good when it has no rows.
LEMMA TailGap ==
  ASSUME TypeInv, QueueInv, queue # <<>>, queue' = Tail(queue), known' = known,
         \/ env' = env /\ Head(queue).kind # "rows"
         \/ env' = Head(queue) /\ env = Error
         \/ env' = Error /\ env = Error /\ Head(queue).kind # "rows"
  PROVE  /\ QueueInv'
         /\ \A r \in Int : Has(r) => Has(r)'
<1>1. queue \in Seq(Item) /\ Len(queue) <= QMax
  BY DEF TypeInv, TypeOK
<1>0. PICK n \in Nat : n = Len(queue)
  BY <1>1
<1>2. /\ n \in Nat \ {0} /\ DOMAIN queue = 1 .. n /\ DOMAIN queue' = 1 .. n - 1
      /\ \A i \in 1 .. n - 1 : queue'[i] = queue[i + 1]
      /\ Head(queue) = queue[1]
  BY <1>0, <1>1, QueueTail
<1>3. Sound(queue[1])
  BY <1>2 DEF TypeInv
<1>4. \A r \in Int : Carries(queue[1], r) \/ Carries(env, r) => Carries(env', r)
  <2>1. \A r \in Int : ~Carries(Error, r)
    BY EnvelopeTypes DEF Carries
  <2>2. \A r \in Int : queue[1].kind # "rows" => ~Carries(queue[1], r)
    BY <1>3, OnlyRowsCarry
  <2>3. QED
    BY <1>2, <2>1, <2>2
<1>5. ASSUME NEW r \in Int, NEW m \in 1 .. n, HasBefore(m, r)
      PROVE  HasBefore(m - 1, r)'
  <2>1. CASE r \in known \/ Carries(env, r)
    BY <1>4, <2>1 DEF HasBefore
  <2>2. ASSUME NEW i \in 1 .. n, i < m, Carries(queue[i], r) PROVE HasBefore(m - 1, r)'
    <3>1. CASE i = 1
      BY <1>4, <2>2, <3>1 DEF HasBefore
    <3>2. CASE i # 1
      <4>1. i - 1 \in 1 .. n - 1 /\ i - 1 < m - 1 /\ (i - 1) + 1 = i
        BY <1>2, <2>2, <3>2
      <4>2. queue'[i - 1] = queue[i]
        BY <1>2, <4>1
      <4>3. QED
        BY <1>2, <2>2, <4>1, <4>2 DEF HasBefore
    <3>3. QED
      BY <3>1, <3>2
  <2>3. QED
    BY <1>2, <1>5, <2>1, <2>2 DEF HasBefore
<1>6. ASSUME NEW r \in Int, Has(r)
      PROVE  Has(r)'
  <2>1. CASE r \in known \/ Carries(env, r)
    BY <1>4, <2>1 DEF Has
  <2>2. ASSUME NEW i \in 1 .. n, Carries(queue[i], r) PROVE Has(r)'
    <3>1. CASE i = 1
      BY <1>4, <2>2, <3>1 DEF Has
    <3>2. CASE i # 1
      <4>1. i - 1 \in 1 .. n - 1 /\ (i - 1) + 1 = i
        BY <1>2, <2>2, <3>2
      <4>2. queue'[i - 1] = queue[i]
        BY <1>2, <4>1
      <4>3. QED
        BY <1>2, <2>2, <4>1, <4>2 DEF Has
    <3>3. QED
      BY <3>1, <3>2
  <2>3. QED
    BY <1>2, <1>6, <2>1, <2>2 DEF Has
<1>7. ASSUME NEW i \in 1 .. n - 1, NEW r \in 1 .. queue'[i].lo - 1
      PROVE  HasBefore(i, r)'
  <2>1. i + 1 \in 1 .. n /\ (i + 1) - 1 = i /\ r \in Int
    BY <1>2, <1>7
  <2>2. HasBefore(i + 1, r)
    BY <1>2, <1>7, <2>1 DEF QueueInv
  <2>3. QED
    BY <1>5, <2>1, <2>2
<1>8. 1 .. env'.lo - 1 \subseteq known
  <2>1. 1 \in 1 .. n
    BY <1>2
  <2>2. \A r \in 1 .. queue[1].lo - 1 : HasBefore(1, r)
    BY <1>2, <2>1 DEF QueueInv
  <2>3. CASE env' = Head(queue) /\ env = Error
    <3>1. ASSUME NEW r \in 1 .. queue[1].lo - 1 PROVE r \in known
      <4>1. r \in known \/ Carries(Error, r)
        BY <1>2, <2>2, <2>3 DEF HasBefore
      <4>2. QED
        BY <4>1, EnvelopeTypes DEF Carries
    <3>2. QED
      BY <1>2, <2>3, <3>1
  <2>4. CASE env' = Error
    BY <2>4, EnvelopeTypes
  <2>5. CASE env' = env
    BY <2>5 DEF QueueInv
  <2>6. QED
    BY <2>3, <2>4, <2>5
<1>9. QED
  BY <1>2, <1>6, <1>7, <1>8 DEF QueueInv

\* A stream goes on owing nothing while what is known or on its way only grows.
LEMMA PaidStays ==
  ASSUME TypeInv, NEW s \in Slots, Paid(s), \A r \in Int : Has(r) => Has(r)',
         str'[s].env = str[s].env, str'[s].next = str[s].next
  PROVE  Paid(s)'
BY DEF Paid

\* The streams keep their envelopes and what they will be sent.
SameEnvelopes == \A s \in Slots : str'[s].env = str[s].env /\ str'[s].next = str[s].next

LEMMA StoppedSame ==
  ASSUME TypeInv, UnsubscribeSilent \/ Unsubscribe \/ str' = Stopped
  PROVE  SameEnvelopes
BY StoppedSound DEF UnsubscribeSilent, Unsubscribe, clientVars, SameEnvelopes

LEMMA StillGap ==
  ASSUME TypeInv, QueueInv, UNCHANGED <<known, env, queue>>
  PROVE  QueueInv' /\ \A r : Has(r) => Has(r)'
BY DEF QueueInv, Has, HasBefore

\* The worker's and the user's steps.
LEMMA BotGap ==
  ASSUME TypeInv, QueueInv, \A s \in Slots : Paid(s),
         User \/ Worker \/ RowAdded \/ OtherSubscribes \/ OtherUnsubscribes
  PROVE  QueueInv' /\ \A s \in Slots : Paid(s)'
<1>1. ASSUME QueueInv', \A r \in Int : Has(r) => Has(r)', SameEnvelopes
      PROVE  QueueInv' /\ \A s \in Slots : Paid(s)'
  BY <1>1, PaidStays DEF SameEnvelopes
<1>2. CASE \/ BotStart \/ BotStop \/ Pause \/ Resume \/ LoopHead \/ RowAdded
           \/ (Gate /\ paused)
  <2>1. UNCHANGED <<known, env, queue, str>>
    BY <1>2, Zenon DEF BotStart, BotStop, Pause, Resume, LoopHead, RowAdded, Gate, clientVars,
       botVars
  <2>2. QED
    BY <1>1, <2>1, StillGap DEF SameEnvelopes
<1>3. CASE SubscribeFails \/ Leave \/ OtherSubscribes \/ OtherUnsubscribes
  <2>1. UNCHANGED <<known, env, queue>>
    BY <1>3, Zenon DEF SubscribeFails, Leave, OtherSubscribes, OtherUnsubscribes, botVars
  <2>2. SameEnvelopes
    BY <1>3, StoppedSame DEF SubscribeFails, Leave, OtherSubscribes, OtherUnsubscribes
  <2>3. QED
    BY <1>1, <2>1, <2>2, StillGap
<1>4. CASE StopWakesUp
  <2>1. /\ UNCHANGED <<known, env>> /\ UnsubscribeSilent
        /\ queue' = IF Len(queue) < QMax THEN Append(queue, Sentinel) ELSE queue
    BY <1>4 DEF StopWakesUp, WakeUp
  <2>2. Sound(Sentinel) /\ \A r \in 1 .. Sentinel.lo - 1 : Has(r)
    BY SoundConstants, EnvelopeTypes DEF TypeInv, TypeOK
  <2>3. QED
    BY <1>1, <2>1, <2>2, AppendGap, StoppedSame
<1>5. CASE Subscribe
  <2>1. PICK s \in Slots : Register(s)
    BY <1>5 DEF Subscribe
  <2>2. DEFINE new == [NoStream EXCEPT !.pc = "new", !.stop = FALSE]
  <2>3. str' = [Stopped EXCEPT ![s] = new] /\ UNCHANGED <<known, env, queue>>
    BY <1>5, <2>1 DEF Register, Subscribe
  <2>4. new.env = Error /\ new.next = 0
    BY NoStreamType DEF Stream
  <2> HIDE DEF new
  <2>5. QueueInv' /\ \A r \in Int : Has(r) => Has(r)'
    BY <2>3, StillGap
  <2>6. ASSUME NEW x \in Slots PROVE Paid(x)'
    <3>1. CASE x = s
      <4>1. str'[x].env = Error /\ str'[x].next = 0
        BY <2>3, <2>4, <3>1, StoppedSound
      <4>2. QED
        BY <4>1, EnvelopeTypes DEF Paid
    <3>2. CASE x # s
      BY <2>3, <2>5, <3>2, StoppedSound, PaidStays
    <3>3. QED
      BY <3>1, <3>2
  <2>7. QED
    BY <2>5, <2>6
<1>6. CASE SubscribeStart
  <2>1. UNCHANGED <<known, env, queue>>
    BY <1>6, Zenon DEF SubscribeStart
  <2>2. str' = [str EXCEPT ![subbed].pc = "connect", ![subbed].stop = FALSE]
    BY <1>6 DEF SubscribeStart, StartStream
  <2>3. SameEnvelopes
    BY <2>2 DEF SameEnvelopes, TypeInv, TypeOK, Stream
  <2>4. QED
    BY <1>1, <2>1, <2>3, StillGap
<1>7. CASE Get
  <2>1. /\ queue # <<>> /\ queue' = Tail(queue) /\ known' = known /\ str' = str /\ pc = "get"
        /\ env' = IF Head(queue) = Sentinel THEN Error ELSE Head(queue)
    BY <1>7, Zenon DEF Get, clientVars
  <2>2. env = Error
    BY <2>1 DEF TypeInv
  <2>3. QED
    BY <1>1, <2>1, <2>2, TailGap, EnvelopeTypes DEF SameEnvelopes
<1>8. CASE Dispatch /\ UNCHANGED <<queue, str>>
  <2>1. known' = known \union (env.lo .. env.hi) /\ env' = Error /\ UNCHANGED <<queue, str>>
    BY <1>8 DEF Dispatch
  <2>2. env.lo \in Nat /\ env.hi \in Nat /\ env \in Item
    BY DEF TypeInv, TypeOK, Item
  <2>3. \A r \in Int : r \in known \/ Carries(env, r) => r \in known'
    BY <2>1, <2>2 DEF Carries
  <2>4. \A r \in Int : Has(r) => Has(r)'
    BY <2>1, <2>3 DEF Has
  <2>5. \A r \in Int, i \in DOMAIN queue : HasBefore(i, r) => HasBefore(i, r)'
    BY <2>1, <2>3 DEF HasBefore
  <2>6. \A r \in known' : 1 .. r \subseteq known'
    <3>1. ASSUME NEW r \in known, NEW q \in 1 .. r PROVE q \in known'
      BY <2>1, <3>1 DEF QueueInv
    <3>2. ASSUME NEW r \in env.lo .. env.hi, NEW q \in 1 .. r PROVE q \in known'
      <4>1. q \in 1 .. env.lo - 1 \/ q \in env.lo .. env.hi
        BY <2>2, <3>2
      <4>2. QED
        BY <2>1, <4>1 DEF QueueInv
    <3>3. QED
      BY <2>1, <3>1, <3>2
  <2>7. \A i \in DOMAIN queue' : \A r \in 1 .. queue'[i].lo - 1 : HasBefore(i, r)'
    BY <2>1, <2>5 DEF QueueInv
  <2>8. QueueInv'
    BY <2>1, <2>6, <2>7, EnvelopeTypes DEF QueueInv
  <2>9. QED
    BY <1>1, <2>1, <2>4, <2>8 DEF SameEnvelopes
<1>9. QED
  BY <1>2, <1>3, <1>4, <1>5, <1>6, <1>7, <1>8 DEF User, Worker, Gate, Wait, clientVars

\* The stream's thread takes leave of its envelope, and goes on or ends.
LEMMA ReturnPays ==
  ASSUME TypeInv, NEW s \in Slots, Paid(s), str' = Return(s),
         \A r \in Int : Has(r) => Has(r)',
         \A r \in Int : Carries(str[s].env, r) => Has(r)'
  PROVE  Paid(s)'
<1>1. str'[s].env = Error /\ str'[s].next \in {0, str[s].next} /\ str[s].next \in Nat
  BY NoStreamType DEF Return, TypeInv, TypeOK, Stream
<1>2. QED
  BY <1>1, EnvelopeTypes DEF Paid

LEMMA StreamGap ==
  ASSUME TypeInv, QueueInv, NEW s \in Slots, Paid(s), StreamStep(s) \/ Broken(s), ~dropped'
  PROVE  QueueInv' /\ Paid(s)' /\ \A r \in Int : Has(r) => Has(r)'
<1>0. /\ str \in [Slots -> Stream] /\ str[s] \in Stream /\ Sound(str[s].env)
      /\ \A r \in 1 .. str[s].env.lo - 1 : Has(r)
      /\ UNCHANGED <<known, env>>
  <2>1. UNCHANGED <<known, env>>
    BY Zenon DEF StreamStep, StreamEnds, Connected, ConnectFails, Recv, Broken, OnData,
       Evict, Reput, StreamUnchanged, botVars
  <2>2. QED
    BY <2>1 DEF TypeInv, TypeOK, SoundStream, Paid
<1>1. CASE StreamEnds(s) \/ Connected(s) \/ ConnectFails(s) \/ Broken(s)
  <2>1. /\ queue' = queue
        /\ str'[s].env = Error /\ str'[s].next \in {0, 1, str[s].next}
        /\ str[s].env = Error
    <3>1. str[s].pc \in {"connect", "open"} /\ str[s].env = Error
      BY <1>1 DEF StreamEnds, Connected, ConnectFails, Broken, TypeInv, SoundStream, Putting
    <3>2. CASE StreamEnds(s) \/ Connected(s)
      BY <1>0, <3>1, <3>2, NoStreamType DEF StreamEnds, Connected, FirstRow, Stream
    <3>3. CASE ConnectFails(s)
      BY <1>0, <3>1, <3>3 DEF ConnectFails, Stream
    <3>4. CASE Broken(s)
      BY <1>0, <3>1, <3>4, NoStreamType DEF Broken, Stream
    <3>5. QED
      BY <1>1, <3>1, <3>2, <3>3, <3>4
  <2>2. QueueInv' /\ \A r \in Int : Has(r) => Has(r)'
    BY <1>0, <2>1, StillGap
  <2>3. Paid(s)'
    BY <2>1, <2>2, EnvelopeTypes DEF Paid
  <2>4. QED
    BY <2>2, <2>3
<1>2. CASE Recv(s)
  <2>1. /\ str[s].pc = "open" /\ str[s].next <= head /\ queue' = queue
        /\ str' = [str EXCEPT ![s].env = Rows(str[s].next, head), ![s].next = head + 1,
                              ![s].pc = "put"]
    BY <1>2 DEF Recv
  <2>2. /\ str'[s].env = Rows(str[s].next, head) /\ str'[s].next = head + 1
        /\ str[s].env = Error /\ str[s].next \in Nat /\ head \in Nat
    BY <1>0, <2>1 DEF TypeInv, TypeOK, SoundStream, Putting, Stream
  <2>3. QueueInv' /\ \A r \in Int : Has(r) => Has(r)'
    BY <1>0, <2>1, StillGap
  <2>4. \A r \in 1 .. str[s].next - 1 : Has(r)
    BY <2>2, EnvelopeTypes DEF Paid, Carries
  <2>5. /\ Rows(str[s].next, head).lo = str[s].next /\ Rows(str[s].next, head).hi = head
    BY DEF Rows
  <2>6. Paid(s)'
    <3>1. \A r \in 1 .. str'[s].env.lo - 1 : Has(r)'
      BY <2>2, <2>3, <2>4, <2>5
    <3>2. ASSUME NEW r \in 1 .. str'[s].next - 1 PROVE Has(r)' \/ Carries(str'[s].env, r)
      <4>1. r \in 1 .. head
        BY <2>2
      <4>2. CASE r < str[s].next
        BY <2>2, <2>3, <2>4, <4>1, <4>2
      <4>3. CASE ~(r < str[s].next)
        BY <2>2, <2>5, <4>1, <4>3 DEF Carries
      <4>4. QED
        BY <4>2, <4>3
    <3>3. QED
      BY <3>1, <3>2 DEF Paid
  <2>7. QED
    BY <2>3, <2>6
<1>3. ASSUME Len(queue) < QMax, queue' = Append(queue, str[s].env), str' = Return(s)
      PROVE  QueueInv' /\ Paid(s)' /\ \A r \in Int : Has(r) => Has(r)'
  BY <1>0, <1>3, AppendGap, ReturnPays
<1>4. ASSUME UNCHANGED queue, str' = Return(s), str[s].env.kind # "rows"
      PROVE  QueueInv' /\ Paid(s)' /\ \A r \in Int : Has(r) => Has(r)'
  BY <1>0, <1>4, StillGap, OnlyRowsCarry, ReturnPays
<1>5. ASSUME NEW at \in {"evict", "reput"}, str' = [str EXCEPT ![s].pc = at],
             QueueInv', \A r \in Int : Has(r) => Has(r)'
      PROVE  QueueInv' /\ Paid(s)' /\ \A r \in Int : Has(r) => Has(r)'
  <2>1. str'[s].env = str[s].env /\ str'[s].next = str[s].next
    BY <1>0, <1>5 DEF Stream
  <2>2. QED
    BY <1>5, <2>1, PaidStays
<1>6. CASE OnData(s)
  <2>1. CASE Len(queue) < QMax
    BY <1>3, <1>6, <2>1 DEF OnData
  <2>2. CASE ~(Len(queue) < QMax)
    BY <1>0, <1>5, <1>6, <2>2, StillGap DEF OnData
  <2>3. QED
    BY <2>1, <2>2
<1>7. CASE Evict(s)
  <2>1. CASE queue = <<>>
    BY <1>4, <1>7, <2>1 DEF Evict
  <2>2. CASE queue # <<>>
    <3>1. /\ str' = [str EXCEPT ![s].pc = "reput"] /\ queue' = Tail(queue)
          /\ Head(queue).kind # "rows"
      BY <1>7, <2>2 DEF Evict
    <3>2. QueueInv' /\ \A r \in Int : Has(r) => Has(r)'
      BY <1>0, <2>2, <3>1, TailGap
    <3>3. QED
      BY <1>5, <3>1, <3>2
  <2>3. QED
    BY <2>1, <2>2
<1>8. CASE Reput(s)
  <2>1. CASE Len(queue) < QMax
    BY <1>3, <1>8, <2>1 DEF Reput
  <2>2. CASE ~(Len(queue) < QMax)
    <3>1. Len(queue) \in Nat /\ QMax \in Nat
      BY DEF TypeInv, TypeOK
    <3>2. UNCHANGED queue /\ str' = Return(s) /\ str[s].env.kind # "rows"
      <4>1. ~(Len(queue) < QMax) <=> Len(queue) >= QMax
        BY <3>1
      <4>2. /\ dropped' = (dropped \/ (Len(queue) >= QMax /\ str[s].env.kind = "rows"))
            /\ str' = Return(s)
            /\ queue' = IF Len(queue) < QMax THEN Append(queue, str[s].env) ELSE queue
        BY <1>8, Zenon DEF Reput
      <4>3. str[s].env.kind # "rows"
        BY <2>2, <4>1, <4>2, Zenon
      <4>4. QED
        BY <2>2, <4>2, <4>3
    <3>3. QED
      BY <1>4, <3>2
  <2>3. QED
    BY <2>1, <2>2
<1>9. QED
  BY <1>1, <1>2, <1>6, <1>7, <1>8 DEF StreamStep

LEMMA GapStep == TypeInv /\ GapInv /\ [Next]_vars => GapInv'
<1> SUFFICES ASSUME TypeInv, GapInv, [Next]_vars, ~dropped'
             PROVE  QueueInv' /\ \A s \in Slots : Paid(s)'
  BY DEF GapInv
<1>1. ~dropped
  <2>1. CASE UNCHANGED vars
    BY <2>1 DEF vars
  <2>2. CASE User \/ Worker \/ RowAdded \/ OtherSubscribes \/ OtherUnsubscribes
    BY <2>2, Zenon DEF User, BotStart, BotStop, StopWakesUp, Pause, Resume, Worker, LoopHead,
       Subscribe, SubscribeStart, SubscribeFails, Get, Gate, Wait, Leave, RowAdded,
       OtherSubscribes, OtherUnsubscribes
  <2>3. ASSUME NEW s \in Slots, StreamStep(s) \/ Broken(s) PROVE ~dropped
    BY <2>3, Zenon DEF StreamStep, StreamEnds, Connected, ConnectFails, Recv, Broken, OnData,
       Evict, Reput
  <2>4. QED
    BY <2>1, <2>2, <2>3 DEF Next
<1>2. QueueInv /\ \A s \in Slots : Paid(s)
  BY <1>1 DEF GapInv
<1>3. CASE UNCHANGED vars
  BY <1>2, <1>3 DEF vars, botVars, clientVars, QueueInv, Paid, Has, HasBefore
<1>4. CASE User \/ Worker \/ RowAdded \/ OtherSubscribes \/ OtherUnsubscribes
  BY <1>2, <1>4, BotGap
<1>5. ASSUME NEW s \in Slots, StreamStep(s) \/ Broken(s)
      PROVE  QueueInv' /\ \A x \in Slots : Paid(x)'
  <2>1. QueueInv' /\ Paid(s)' /\ \A r \in Int : Has(r) => Has(r)'
    BY <1>2, <1>5, StreamGap
  <2>2. \A x \in Slots \ {s} : str'[x] = str[x]
    <3>1. str \in [Slots -> Stream]
      BY DEF TypeInv, TypeOK
    <3>2. \E new : str' = [str EXCEPT ![s] = new]
      BY <1>5, <3>1 DEF StreamStep, StreamEnds, Connected, ConnectFails, Recv, Broken, OnData,
         Evict, Reput, Return
    <3>3. QED
      BY <3>1, <3>2
  <2>3. \A x \in Slots \ {s} : Paid(x)'
    BY <1>2, <2>1, <2>2, PaidStays
  <2>4. QED
    BY <2>1, <2>3
<1>6. QED
  BY <1>3, <1>4, <1>5 DEF Next

\* As long as no envelope with rows was dropped at the full queue, the strategy has every
\* row up to the newest it knows, for any queue size and any number of streams, rows and
\* failures: a new connection starts with a snapshot, and all streams of the bot put
\* their envelopes into the one queue.
THEOREM NoSilentGap == Spec => []StrategyGapless
<1>1. Init => GapInv
  <2> SUFFICES ASSUME Init PROVE QueueInv /\ \A s \in Slots : Paid(s)
    BY DEF GapInv
  <2>1. env = Error /\ known = {} /\ queue = <<>> /\ \A s \in Slots : str[s] = NoStream
    BY DEF Init
  <2>2. QED
    BY <2>1, NoStreamType, EnvelopeTypes DEF QueueInv, Paid
<1>2. GapInv => StrategyGapless
  BY DEF GapInv, QueueInv, StrategyGapless
<1>3. QED
  BY <1>1, <1>2, InitType, TypeStep, GapStep, PTL DEF Spec

=============================================================================
