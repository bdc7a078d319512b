------------------------------ MODULE EventBus ------------------------------
(***************************************************************************)
(* The in-memory bus between producers and the two consumers               *)
(* (core/event_bus.py), over the durable EventStore.                       *)
(*                                                                         *)
(* The deque _buf is a set of entries [at, id]: at is the arrival number   *)
(* of the envelope, so the deque's order is the order of `at`.  A drained  *)
(* list is a set of such entries too and is processed in the order of      *)
(* `at`; entries read from the store are stamped with their own id,        *)
(* because next_from orders by batch_id.                                   *)
(*                                                                         *)
(* Steps that hold the bus lock are one step.  publish() is two: the store *)
(* append happens before the lock is taken.                                *)
(***************************************************************************)
EXTENDS EventStore

CONSTANT BufMax    \* max_envelopes of the ring

ASSUME BufMaxAssumption == BufMax \in Nat

VARIABLES
  buf,        \* entries of _buf
  arrivals,   \* how many envelopes have been put into _buf since the start
  dhCursor,   \* _dh_cursor
  jrCursor    \* _jr_cursor

busVars == <<buf, arrivals, dhCursor, jrCursor>>

Entry == [at : Nat, id : Nat]

BusTypeOK ==
  /\ buf \subseteq Entry
  /\ arrivals \in Nat
  /\ dhCursor \in Nat
  /\ jrCursor \in Nat

\* __init__: both cursors start at the committed tail of the store.
BusInit ==
  /\ buf = {}
  /\ arrivals = 0
  /\ dhCursor = committed
  /\ jrCursor = committed

-----------------------------------------------------------------------------

\* A mutant of FirstN: the n newest entries.
NewestN(entries, n) ==
  {e \in entries : Cardinality({x \in entries : x.at > e.at}) < n}

\* The n oldest entries of a list.
FirstN(entries, n) ==
  {e \in entries : Cardinality({x \in entries : x.at < e.at}) < n}

\* A stored page as a list.
AsEntries(ids) == {[at |-> b, id |-> b] : b \in ids}

\* A mutant of AckedByBoth: eviction that waits for one consumer only.
AckedByJournal(e) == jrCursor >= e.id

AckedByBoth(e) == dhCursor >= e.id /\ jrCursor >= e.id

\* The head is dropped while the ring is over its limit and both consumers have
\* passed it; the first head that is not passed stops the eviction.
Evicted(entries) ==
  {e \in entries :
     /\ \A x \in entries : x.at <= e.at => AckedByBoth(x)
     /\ Cardinality({x \in entries : x.at >= e.at}) > BufMax}

\* The locked half of publish(): append to the ring, evict, notify.
Enqueue(b) ==
  LET grown == buf \union {[at |-> arrivals + 1, id |-> b]}
  IN  /\ buf' = grown \ Evicted(grown)
      /\ arrivals' = arrivals + 1
      /\ UNCHANGED <<dhCursor, jrCursor>>

\* One pass of _drain: what the ring holds after the cursor, else the store.
Drained(cursor, n) ==
  LET live == {e \in buf : e.id > cursor}
  IN  IF live # {} THEN FirstN(live, n)
                   ELSE AsEntries(NextFrom(cursor + 1, n))

\* A mutant of Advanced: the cursor is left on the next id to read.
AdvancedToNext(cursor, b) == IF b >= cursor THEN b + 1 ELSE cursor

\* max() of a cursor and an acknowledged id.
Advanced(cursor, b) == IF b > cursor THEN b ELSE cursor

AckDh(b) ==
  /\ dhCursor' = Advanced(dhCursor, b)
  /\ UNCHANGED <<buf, arrivals, jrCursor>>

AckJournal(b) ==
  /\ jrCursor' = Advanced(jrCursor, b)
  /\ UNCHANGED <<buf, arrivals, dhCursor>>

=============================================================================
