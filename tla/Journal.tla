------------------------------ MODULE Journal ------------------------------
(***************************************************************************)
(* The journal, DuckDbJournal (storage/journal_duckdb.py): the append-only *)
(* table journal_hot, and journal_canonical with one row per natural key.  *)
(* append_envelope writes both in one transaction; stream_ticks_since      *)
(* reads either of them page by page and releases the lock between pages.  *)
(*                                                                         *)
(* The rows are those of one (provider, stream, symbol).  Their payloads   *)
(* are told apart by val.  The journal consumer hands the batches of the   *)
(* log over in order, skips one whose append raised, and after a restart   *)
(* begins again at an earlier one (module IngestPipeline).                 *)
(***************************************************************************)
EXTENDS Integers, Sequences, FiniteSets, Functions

CONSTANTS
  Rows,        \* the ticks that may arrive: [seq, ts, final, val]
  MaxRows,     \* bound on the rows of a batch
  PageRows,    \* page_rows
  Since,       \* since_ts_ns of a scan
  NBatches,    \* bound on the batches of the log
  MaxReplays,  \* bound on the restarts of the consumer
  MaxFaults    \* bound on the appends that raise

NoSeq == -1   \* how a missing seq is stored

\* natural_key: seq if present, otherwise the timestamp.
NatKey(r) == IF r.seq # NoSeq THEN r.seq ELSE r.ts

\* A key names one sequence id or one timestamp, and a timestamp in nanoseconds
\* is larger than any BOOLEAN read as an integer.
ASSUME RowsAssumption ==
  /\ Rows # {}
  /\ \A r \in Rows :
       /\ r.seq \in Nat \union {NoSeq}
       /\ r.ts \in Nat /\ r.ts > 1
       /\ r.final \in BOOLEAN
  /\ \A r, s \in Rows : NatKey(r) = NatKey(s) => r.seq = s.seq

ASSUME BoundsAssumption ==
  /\ MaxRows \in Nat \ {0}
  /\ PageRows \in Nat \ {0}
  /\ Since \in Nat \ {0, 1}
  /\ NBatches \in Nat /\ MaxReplays \in Nat /\ MaxFaults \in Nat

VARIABLES
  log,        \* the batches handed over so far, each a list of rows
  pos,        \* the batch the consumer hands over next
  hot,        \* journal_hot; the rowid of a row is its index
  canonical,  \* journal_canonical: natural key -> row
  failed,     \* history: the batches whose append ever raised
  replays,    \* restarts of the consumer so far
  faults,     \* appends that raised so far
  scan        \* a stream_ticks_since generator: its table, cursor and what it yielded

tables == <<hot, canonical>>
feed == <<log, pos, failed, replays, faults>>
vars == <<log, pos, hot, canonical, failed, replays, faults, scan>>

Keys == {NatKey(r) : r \in Rows}
Envelopes == UNION {[1 .. n -> Rows] : n \in 1 .. MaxRows}

TypeOK ==
  /\ log \in Seq(Envelopes) /\ Len(log) <= NBatches
  /\ pos \in 1 .. Len(log) + 1
  /\ hot \in Seq(Rows)
  /\ DOMAIN canonical \subseteq Keys
  /\ \A k \in DOMAIN canonical : canonical[k] \in Rows
  /\ failed \subseteq 1 .. NBatches
  /\ replays \in 0 .. MaxReplays
  /\ faults \in 0 .. MaxFaults
  /\ scan \in [table : {"none", "hot", "canonical"}, open : BOOLEAN, t : Nat, tie : Int,
               got : SUBSET Nat, again : BOOLEAN, upTo : Nat]

-----------------------------------------------------------------------------
(* _merge_into_canonical_no_txn *)

\* ORDER BY is_final DESC, seq DESC, ts_ns DESC
Beats(r, s) ==
  \/ r.final /\ ~s.final
  \/ r.final = s.final /\ r.seq > s.seq
  \/ r.final = s.final /\ r.seq = s.seq /\ r.ts > s.ts

\* The rows that may come first in that order; among ties the choice is open.
Best(rows) == {r \in rows : \A s \in rows : ~Beats(s, r)}

OfKey(rows, k) == {r \in rows : NatKey(r) = k}

\* Mutants of Overwrites: a newer provisional row replaces a final one; a row
\* with the same seq does not count as newer.
OverwritesFinal(b, c) ==
  \/ b.final
  \/ b.seq >= c.seq
OverwritesOlder(b, c) ==
  \/ b.final /\ ~c.final
  \/ ~c.final /\ b.seq > c.seq
  \/ ~c.final /\ b.seq < 0 /\ c.seq < 0 /\ b.ts > c.ts

\* The WHERE of the UPDATE: row b of the batch replaces row c of the table.
Overwrites(b, c) ==
  \/ b.final
  \/ ~c.final /\ b.seq >= c.seq
  \/ ~c.final /\ b.seq < 0 /\ c.seq < 0 /\ b.ts >= c.ts

\* UPDATE the rows the batch beats, INSERT the keys the table lacks.
Upserted(table, best) ==
  [k \in DOMAIN table \union DOMAIN best |->
     IF \/ k \notin DOMAIN best
        \/ k \in DOMAIN table /\ ~Overwrites(best[k], table[k])
     THEN table[k] ELSE best[k]]

Merge(rows) ==
  \E best \in [{NatKey(r) : r \in rows} -> rows] :
    /\ \A k \in DOMAIN best : best[k] \in Best(OfKey(rows, k))
    /\ canonical' = Upserted(canonical, best)

-----------------------------------------------------------------------------
(* append_envelope, called by the journal consumer *)

\* The batch the consumer holds: the next one of the log, or a new one.
Handed(rows) ==
  \/ pos <= Len(log) /\ rows = log[pos] /\ log' = log
  \/ pos > Len(log) /\ Len(log) < NBatches /\ log' = Append(log, rows)

\* The consumers run only once a warm replay has returned (app.py).
Running == ~(scan.open /\ scan.table = "canonical")

AppendEnvelope(rows) ==
  /\ Running
  /\ Handed(rows)
  /\ hot' = hot \o rows
  /\ Merge(Range(rows))
  /\ pos' = pos + 1
  /\ UNCHANGED <<failed, replays, faults, scan>>

\* A mutant of AppendFails: the insert into journal_hot is not rolled back.
AppendFailsHalfway(rows) ==
  /\ Running
  /\ faults < MaxFaults
  /\ Handed(rows)
  /\ pos' = pos + 1
  /\ faults' = faults + 1
  /\ failed' = failed \union {pos}
  /\ hot' = hot \o rows
  /\ UNCHANGED <<canonical, replays, scan>>

\* A statement of the transaction raised: ROLLBACK, and the consumer goes on
\* with the next envelope.
AppendFails(rows) ==
  /\ Running
  /\ faults < MaxFaults
  /\ Handed(rows)
  /\ pos' = pos + 1
  /\ faults' = faults + 1
  /\ failed' = failed \union {pos}
  /\ UNCHANGED <<hot, canonical, replays, scan>>

\* A mutant of Replay: the consumer starts at the committed batch itself, not
\* after it.
ReplayFromCommitted ==
  /\ Running
  /\ replays < MaxReplays
  /\ \E b \in 1 .. pos : pos' = b - 1
  /\ replays' = replays + 1
  /\ UNCHANGED <<log, hot, canonical, failed, faults, scan>>

\* The consumer starts again at an earlier batch.
Replay ==
  /\ Running
  /\ replays < MaxReplays
  /\ \E b \in 1 .. pos : pos' = b
  /\ replays' = replays + 1
  /\ UNCHANGED <<log, hot, canonical, failed, faults, scan>>

-----------------------------------------------------------------------------
(* stream_ticks_since *)

NoScan == [table |-> "none", open |-> FALSE, t |-> 0, tie |-> 0,
           got |-> {}, again |-> FALSE, upTo |-> 0]

Open(table) ==
  /\ scan = NoScan
  /\ scan' = [NoScan EXCEPT !.table = table, !.open = TRUE, !.t = Since,
                            !.tie = -1, !.upTo = Len(hot)]
  /\ UNCHANGED <<tables, feed>>

\* A mutant of HotAfter: rows with the cursor's time count as read.
HotAfterTimeOnly(i) == hot[i].ts > scan.t

\* (ts_ns > ?) OR (ts_ns = ? AND rowid > ?)
HotAfter(i) == hot[i].ts > scan.t \/ (hot[i].ts = scan.t /\ i > scan.tie)

\* ORDER BY time, then rowid or natural key.
Earlier(x, y, time) == time[x] < time[y] \/ (time[x] = time[y] /\ x < y)

\* LIMIT PageRows: the first rows of those not read yet.
Page(unread, time) ==
  {x \in unread : Cardinality({y \in unread : Earlier(y, x, time)}) < PageRows}

LastOf(page, time) == CHOOSE x \in page : \A y \in page : ~Earlier(x, y, time)

Close == scan' = [scan EXCEPT !.open = FALSE]

\* One page is read and its elements are yielded; the cursor moves to (t, tie).
Yield(page, t, tie) ==
  scan' = [scan EXCEPT !.t = t, !.tie = tie, !.got = @ \union page,
                       !.again = @ \/ page \intersect scan.got # {}]

\* canonical=False: ordered by (ts_ns, rowid).
HotPage ==
  LET ts == [i \in DOMAIN hot |-> hot[i].ts]
      page == Page({i \in DOMAIN hot : HotAfter(i)}, ts)
      last == LastOf(page, ts)
  IN  /\ scan.open /\ scan.table = "hot"
      /\ IF page = {} THEN Close ELSE Yield(page, ts[last], last)
      /\ UNCHANGED <<tables, feed>>

\* canonical=True: ordered by (ts_ns, nat_key).  The statement selects provider,
\* stream, symbol, nat_key, ts_ns, seq, is_final, payload, so that rs[-1][-2],
\* the next cursor time, is is_final of the last row.
CanonicalPage ==
  LET ts == [k \in DOMAIN canonical |-> canonical[k].ts]
      After(k) == ts[k] > scan.t \/ (ts[k] = scan.t /\ k > scan.tie)
      page == Page({k \in DOMAIN canonical : After(k)}, ts)
      last == LastOf(page, ts)
  IN  /\ scan.open /\ scan.table = "canonical"
      /\ IF page = {} THEN Close
                      ELSE Yield(page, IF canonical[last].final THEN 1 ELSE 0, last)
      /\ UNCHANGED <<tables, feed>>

-----------------------------------------------------------------------------

Init ==
  /\ log = <<>> /\ pos = 1
  /\ hot = <<>> /\ canonical = <<>>
  /\ failed = {} /\ replays = 0 /\ faults = 0
  /\ scan = NoScan

Next ==
  \/ \E rows \in Envelopes : AppendEnvelope(rows) \/ AppendFails(rows)
  \/ Replay
  \/ \E table \in {"hot", "canonical"} : Open(table)
  \/ HotPage
  \/ CanonicalPage

Spec == Init /\ [][Next]_vars

-----------------------------------------------------------------------------
(* Correctness *)

\* The two tables agree on the keys they know and every canonical row is a row
\* that was journaled: an append that raises leaves no trace in either table.
TablesAgree ==
  /\ DOMAIN canonical = {NatKey(hot[i]) : i \in DOMAIN hot}
  /\ \A k \in DOMAIN canonical : canonical[k] \in Range(hot)

\* An authoritative row is never replaced by a provisional one, whichever order
\* live rows, backfilled rows and replayed batches come in.
FinalStays ==
  [][\A k \in DOMAIN canonical :
       canonical[k].final => k \in DOMAIN canonical' /\ canonical'[k].final]_canonical

\* The rows that should stand for key k once the whole log is journaled: those
\* of the newest batch with a final row for k, else of the newest batch with any.
Winners(k) ==
  LET with == {b \in DOMAIN log : OfKey(Range(log[b]), k) # {}}
      final == {b \in with : \E r \in OfKey(Range(log[b]), k) : r.final}
      newest(bs) == CHOOSE b \in bs : \A c \in bs : c <= b
  IN  Best(OfKey(Range(log[newest(IF final = {} THEN with ELSE final)]), k))

\* When the consumer has caught up, replayed batches have left the canonical
\* table as if each batch had been applied once, in order, for every key that
\* no failed append touched (consumers.py:107 calls the append idempotent).
ReplayConverges ==
  pos = Len(log) + 1 =>
    \A k \in DOMAIN canonical :
      (\A b \in failed : OfKey(Range(log[b]), k) = {}) => canonical[k] \in Winners(k)

\* A scan of journal_hot yields no row twice while rows are appended and replayed
\* between its pages, and when it ends it has yielded every row of its window that
\* was there when it began, ties of the timestamp at a page boundary included.
HotScanExact ==
  scan.table = "hot" =>
    /\ ~scan.again
    /\ ~scan.open => \A i \in 1 .. scan.upTo : hot[i].ts >= Since => i \in scan.got

\* journal_duckdb.py:349, `advance cursor using last row from this page`: a page of
\* the canonical table never yields again what an earlier page yielded.
CanonicalScanOnce == scan.table = "canonical" => ~scan.again

=============================================================================
