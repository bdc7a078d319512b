------------------------------ MODULE BarFeed ------------------------------
(***************************************************************************)
(* One-minute bars of a symbol on their way to a client that subscribes    *)
(* with only_completed: the tables (providers/*/schema.py), the API poller *)
(* of TradingView (providers/tradingview/producer_api.py) and the listener *)
(* that decides when a bar is complete (fanout/listener.py, on_update).    *)
(*                                                                         *)
(* Two kinds of table.  "stitched" (tv_ohlcv_1m): the bars the API gave,   *)
(* then, after the newest of those, the bars made from quotes.  "filled"   *)
(* (binance_ohlcv_1m_filled): the bars made from trades, with a row for    *)
(* every other minute that has begun, a placeholder (IsEmpty).             *)
(*                                                                         *)
(* A bar's content is how many trades of its minute are in it, 0 for a     *)
(* placeholder.  A published batch is in the table at once: IngestPipeline *)
(* has the way there.  The Deephaven engine, which turns a change of the   *)
(* tables into an update with added and modified rows, is external.        *)
(***************************************************************************)
EXTENDS Integers, Sequences, FiniteSets, FiniteSetsExt

CONSTANTS
  Tables,     \* the kinds of table to choose from
  Overlap,    \* overlap_bars
  BatchSize,  \* batch_size
  MaxMinute,  \* bound on the minutes that pass
  MaxTrades   \* bound on the trades

ASSUME BarAssumption ==
  /\ Tables # {} /\ Tables \subseteq {"stitched", "filled"}
  /\ Overlap \in Nat \ {0}
  /\ BatchSize \in Nat /\ BatchSize >= Overlap
  /\ MaxMinute \in Nat /\ MaxTrades \in Nat

VARIABLES
  kind,       \* the kind of table
  now,        \* the minute
  trades,     \* the trades made in each minute, at the exchange
  quoted,     \* those that the stream of trades or quotes has brought
  final,      \* those in the bar the API gave, -1 when it gave none
  wm,         \* _wm of the symbol, -1 for None
  lsn,        \* the listener is on
  seen,       \* the content of the rows it has been told of, -1 for no row
  order,      \* the pairs of those rows in the order of their row keys
  curr,       \* curr
  completed,  \* the completed bars it has emitted
  first,      \* history: the first minute the poller gave, -1 before
  outage,     \* history: a poll came too late for the overlap
  opened,     \* history: the minutes the listener held as curr
  late,       \* history: the listener was told of a minute after a newer one
  changed     \* history: minutes whose row changed when they were not curr any more

pollVars == <<final, wm, first, outage>>
lsnVars == <<lsn, seen, order, curr, completed, opened, late, changed>>
vars == <<kind, now, trades, quoted, pollVars, lsnVars>>

Minutes == 0 .. MaxMinute
NoBar == [ts |-> -1, val |-> 0]
Bar == [ts : Minutes, val : Nat]

TypeOK ==
  /\ kind \in Tables
  /\ now \in Minutes
  /\ trades \in [Minutes -> 0 .. MaxTrades]
  /\ quoted \in [Minutes -> 0 .. MaxTrades]
  /\ final \in [Minutes -> -1 .. MaxTrades]
  /\ wm \in -1 .. now /\ first \in -1 .. wm
  /\ lsn \in BOOLEAN /\ outage \in BOOLEAN /\ late \in BOOLEAN
  /\ seen \in [Minutes -> -1 .. MaxTrades]
  /\ order \subseteq Minutes \X Minutes
  /\ curr \in Bar \union {NoBar}
  /\ completed \in Seq(Bar)
  /\ opened \subseteq Minutes /\ changed \subseteq Minutes

Init ==
  /\ kind \in Tables
  /\ now = 0
  /\ trades = [m \in Minutes |-> 0] /\ quoted = trades
  /\ final = [m \in Minutes |-> -1]
  /\ wm = -1 /\ first = -1 /\ outage = FALSE
  /\ lsn = FALSE /\ seen = final /\ order = {}
  /\ curr = NoBar /\ completed = <<>>
  /\ opened = {} /\ late = FALSE /\ changed = {}

-----------------------------------------------------------------------------
(* The tables *)

\* The minutes that have a bar made from trades or quotes (binance_ohlcv_1m,
\* tv_bars_from_quotes).
Sparse == {m \in Minutes : quoted[m] > 0}

\* bins_recent: every minute begun since the table was made.
Bins == 0 .. now

\* tv_ohlcv_1m: API bars, and the bars from quotes after the last of them.
Stitched ==
  LET lastBarTs == Max({-1} \union {m \in Minutes : final[m] # -1})
  IN  [m \in Minutes |-> IF final[m] # -1 THEN final[m]
                         ELSE IF m \in Sparse /\ m > lastBarTs THEN quoted[m] ELSE -1]

\* binance_ohlcv_1m_filled: once the symbol has traded, a row per minute begun.
Filled == [m \in Minutes |-> IF m \in Bins /\ Sparse # {} THEN quoted[m] ELSE -1]

Table == IF kind = "stitched" THEN Stitched ELSE Filled

-----------------------------------------------------------------------------
(* The market, the clock and the stream of trades or quotes *)

Tick ==
  /\ now < MaxMinute
  /\ now' = now + 1
  /\ UNCHANGED <<kind, trades, quoted, pollVars, lsnVars>>

\* The trades by minute and number.
TradesMade == {p \in Minutes \X (1 .. MaxTrades) : p[2] <= trades[p[1]]}

Trade ==
  /\ Cardinality(TradesMade) < MaxTrades
  /\ trades' = [trades EXCEPT ![now] = @ + 1]
  /\ UNCHANGED <<kind, now, quoted, pollVars, lsnVars>>

\* The stream brings what was traded in a minute, at once, late or never.
Stream(m) ==
  /\ quoted[m] < trades[m]
  /\ quoted' = [quoted EXCEPT ![m] = trades[m]]
  /\ UNCHANGED <<kind, now, trades, pollVars, lsnVars>>

-----------------------------------------------------------------------------
(* The poller: _run_once_batch.  A poll that raises or brings nothing changes *)
(* nothing: it is the minutes that pass without a Poll.                       *)

Newest(bars, n) == {m \in bars : Cardinality({x \in bars : x > m}) < n}

\* A mutant of WindowStart: the window begins at the watermark.
WindowStartNoOverlap == wm

\* _calc_window
WindowStart == wm - Overlap

\* The bars asked for, of those the API has.
Fetched(bars) ==
  IF wm = -1 THEN Newest(bars, BatchSize)
  ELSE {m \in Newest(bars, Min({BatchSize, Max({1, now - WindowStart})})) : m >= WindowStart}

\* The first run gives all of them, a later one the last overlap_bars.
Emitted(bars) == IF wm = -1 THEN Fetched(bars) ELSE Newest(Fetched(bars), Overlap)

\* The API has the bars of the minutes that traded, the current one perhaps not yet.
Poll(upTo) ==
  LET bars == {m \in 0 .. upTo : trades[m] > 0}
      out == Emitted(bars)
  IN  /\ kind = "stitched"
      /\ out # {}
      /\ final' = [m \in Minutes |-> IF m \in out THEN trades[m] ELSE final[m]]
      /\ wm' = Max(out \union {wm})
      /\ first' = IF first = -1 THEN Min(out) ELSE first
      /\ outage' = (outage \/ (wm # -1 /\ Cardinality({m \in bars : m >= wm}) > Overlap))
      /\ UNCHANGED <<kind, now, trades, quoted, lsnVars>>

-----------------------------------------------------------------------------
(* The listener *)

\* The minutes that have a row in a table.
RowsOf(table) == {m \in Minutes : table[m] # -1}

\* The row keys of rows that appear together follow the order of time.
InTimeOrder(rows) == {p \in rows \X rows : p[1] < p[2]}

\* listen(): the rows there are already are not notified.
Listen ==
  /\ ~lsn
  /\ lsn' = TRUE
  /\ seen' = Table
  /\ order' = InTimeOrder(RowsOf(Table))
  /\ UNCHANGED <<kind, now, trades, quoted, pollVars, curr, completed, opened, late, changed>>

\* A mutant of AddBar: the first bar seen completes None.
AddBarFirst(s, m) ==
  [curr |-> [ts |-> m, val |-> Table[m]],
   completed |-> IF m > s.curr.ts THEN Append(s.completed, s.curr) ELSE s.completed]

\* An added row completes the current bar, if it is newer, and takes its place.
AddBar(s, m) ==
  [curr |-> [ts |-> m, val |-> Table[m]],
   completed |-> IF s.curr # NoBar /\ m > s.curr.ts THEN Append(s.completed, s.curr)
                 ELSE s.completed]

\* Mutants of ModifyBar: any modified row becomes the current bar; the current bar's
\* own row is not newer than it.
ModifyBarAny(bar, m) == [ts |-> m, val |-> Table[m]]
ModifyBarNewer(bar, m) ==
  IF bar = NoBar \/ m > bar.ts THEN [ts |-> m, val |-> Table[m]] ELSE bar

\* The last modified row replaces the current bar, unless it is of an older minute.
ModifyBar(bar, m) ==
  IF bar = NoBar \/ m >= bar.ts THEN [ts |-> m, val |-> Table[m]] ELSE bar

\* What an update is about: rows that are new, and rows that have changed.
Added == RowsOf(Table) \ RowsOf(seen)
Modified == {m \in RowsOf(Table) \intersect RowsOf(seen) : Table[m] # seen[m]}
LastModified == CHOOSE m \in Modified : \A x \in Modified : <<m, x>> \notin order

\* The loop over the added rows, in the order of time: the listener's bars after
\* those of the minutes up to m.
AddLoop ==
  LET bars[m \in -1 .. MaxMinute] ==
        IF m = -1 THEN [curr |-> curr, completed |-> completed]
        ELSE IF m \in Added THEN AddBar(bars[m - 1], m) ELSE bars[m - 1]
  IN  bars

\* on_update: the added rows first, then the modified ones.
OnUpdate ==
  LET rows == RowsOf(Table)
      afterAdds == AddLoop[MaxMinute]
      newest == Max({-1} \union RowsOf(seen))
  IN  /\ lsn
      /\ Table # seen
      /\ seen' = Table
      /\ order' = ((order \union ((rows \ Added) \X Added)) \intersect (rows \X rows))
                    \union InTimeOrder(Added)
      /\ completed' = afterAdds.completed
      /\ curr' = IF Modified = {} THEN afterAdds.curr ELSE ModifyBar(afterAdds.curr, LastModified)
      /\ opened' = opened \union Added \union ({curr'.ts} \ {-1})
      /\ late' = (late \/ (\E m \in Added : m < newest)
                       \/ (curr = NoBar /\ Modified # {} /\ Added = {} /\ LastModified < newest))
      /\ changed' = changed \union {m \in Modified : m < curr'.ts}
      /\ UNCHANGED <<kind, now, trades, quoted, pollVars, lsn>>

-----------------------------------------------------------------------------

Next ==
  \/ Tick \/ Trade
  \/ \E m \in Minutes : Stream(m)
  \/ \E upTo \in {now - 1, now} : Poll(upTo)
  \/ Listen \/ OnUpdate

Spec == Init /\ [][Next]_vars

-----------------------------------------------------------------------------
(* Correctness *)

\* The poller leaves no bar out, and none at the content it had when its minute was
\* not over, as long as each poll that succeeds finds no more than overlap_bars
\* bars from the watermark on; the bar at the watermark itself may still change.
BarsSettle ==
  ~outage => \A m \in Minutes :
    first <= m /\ m < wm /\ trades[m] > 0 /\ first # -1 => final[m] = trades[m]

\* As long as no minute is told after a newer one, the completed bars come in the
\* order of time, each once, and every bar the listener has met that is older than the
\* current one is among them (README.md:108) ...
CompletedOnce ==
  ~late =>
    /\ \A i, j \in DOMAIN completed : i < j => completed[i].ts < completed[j].ts
    /\ \A m \in opened : m < curr.ts => \E i \in DOMAIN completed : completed[i].ts = m

\* ... and a completed bar differs from the table only when its row changed in the
\* update that completed it, whose modifications are looked at after its additions,
\* or later: such a bar is not completed again.
CompletedContent ==
  ~late => \A i \in DOMAIN completed :
    LET b == completed[i] IN b.ts \in changed \/ seen[b.ts] \in {-1, b.val}

=============================================================================
