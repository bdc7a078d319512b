----------------------------- MODULE OrderedBus -----------------------------
(***************************************************************************)
(* What the ingestion pipeline promises: one ordered log of batches and    *)
(* consumers that each go through it at their own pace.  A consumer is     *)
(* handed a batch only after every earlier one, except those it gave up on *)
(* because its own write raised.  Restarting a consumer that keeps nothing *)
(* (the DH tables) leaves it with nothing, and the promise then concerns   *)
(* the batches issued from there on.                                       *)
(***************************************************************************)
EXTENDS Integers

CONSTANTS Consumers, Volatile   \* Volatile: the consumers a restart empties

VARIABLES
  issued,   \* batches 1 .. issued have been published
  got,      \* per consumer: the batches it holds
  gaveUp,   \* per consumer: the batches whose write raised
  floor     \* per consumer: batches up to here are outside the promise

abstractVars == <<issued, got, gaveUp, floor>>

Init ==
  /\ issued = 0
  /\ got = [c \in Consumers |-> {}]
  /\ gaveUp = [c \in Consumers |-> {}]
  /\ floor = [c \in Consumers |-> 0]

Publish ==
  /\ issued' = issued + 1
  /\ UNCHANGED <<got, gaveUp, floor>>

\* Consumer c has dealt with every batch before b that it was promised.
ReadyFor(c, b) ==
  \A x \in floor[c] + 1 .. b - 1 : x \in got[c] \union gaveUp[c]

Deliver(c) ==
  /\ \E b \in 1 .. issued :
       /\ ReadyFor(c, b)
       /\ got' = [got EXCEPT ![c] = @ \union {b}]
  /\ UNCHANGED <<issued, gaveUp, floor>>

GiveUp(c) ==
  /\ \E b \in 1 .. issued :
       /\ ReadyFor(c, b)
       /\ gaveUp' = [gaveUp EXCEPT ![c] = @ \union {b}]
  /\ UNCHANGED <<issued, got, floor>>

Restart ==
  /\ got' = [c \in Consumers |-> IF c \in Volatile THEN {} ELSE got[c]]
  /\ gaveUp' = [c \in Consumers |-> IF c \in Volatile THEN {} ELSE gaveUp[c]]
  /\ floor' = [c \in Consumers |-> IF c \in Volatile THEN issued ELSE floor[c]]
  /\ UNCHANGED issued

Next ==
  \/ Publish
  \/ \E c \in Consumers : Deliver(c) \/ GiveUp(c)
  \/ Restart

Spec == Init /\ [][Next]_abstractVars

=============================================================================
