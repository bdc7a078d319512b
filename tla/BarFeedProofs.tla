---------------------------- MODULE BarFeedProofs ----------------------------
(***************************************************************************)
(* What holds of the bars for any overlap, any batch size and any number   *)
(* of minutes and trades: types, the bars of the API settle, and the       *)
(* completed bars come once, in order and with their content.  The loop of *)
(* the listener over the added rows is a recursion over the minutes; what  *)
(* it computes is proved by induction over an interval (FiniteOrders).     *)
(***************************************************************************)
EXTENDS BarFeed, FiniteOrders

USE BarAssumption

-----------------------------------------------------------------------------
(* The operators *)

\* The largest and the smallest of a set of minutes.
LEMMA Extremes ==
  ASSUME NEW S, S # {}, S \subseteq -1 .. MaxMinute
  PROVE  /\ Max(S) \in S /\ \A y \in S : y <= Max(S)
         /\ Min(S) \in S /\ \A y \in S : Min(S) <= y
<1> DEFINE R == {p \in S \X S : p[1] < p[2]}
<1>1. IsFiniteSet(S)
  <2>1. PICK whole : IsFiniteSet(whole) /\ S \in SUBSET whole
    BY FS_Interval
  <2>2. QED
    BY <2>1, FS_Subset
<1>2. \A x, y \in S : <<x, y>> \in R <=> x < y
  OBVIOUS
<1>3. \A x \in S : x \in Int
  OBVIOUS
<1> HIDE DEF R
<1>4. StrictOrder(R, S)
  BY <1>2, <1>3 DEF StrictOrder
<1>5. /\ \E x \in S : \A y \in S : <<y, x>> \notin R
      /\ \E x \in S : \A y \in S : <<x, y>> \notin R
  BY <1>1, <1>4, FirstAndLast, Zenon
<1>6. \E x \in S : \A y \in S : x >= y
  <2>1. PICK x \in S : \A y \in S : <<x, y>> \notin R
    BY <1>5
  <2>2. ASSUME NEW y \in S PROVE x >= y
    <3>1. x \in Int /\ y \in Int
      BY <1>3
    <3>2. ~(x < y)
      BY <1>2, <2>1, Zenon
    <3>3. QED
      BY <3>1, <3>2
  <2>3. QED
    BY <2>2
<1>7. \E x \in S : \A y \in S : x <= y
  <2>1. PICK x \in S : \A y \in S : <<y, x>> \notin R
    BY <1>5
  <2>2. ASSUME NEW y \in S PROVE x <= y
    <3>1. x \in Int /\ y \in Int
      BY <1>3
    <3>2. ~(y < x)
      BY <1>2, <2>1, Zenon
    <3>3. QED
      BY <3>1, <3>2
  <2>3. QED
    BY <2>2
<1>8. Max(S) \in S /\ \A y \in S : Max(S) >= y
  BY <1>6 DEF Max
<1>9. Min(S) \in S /\ \A y \in S : Min(S) <= y
  BY <1>7 DEF Min
<1>10. QED
  BY <1>3, <1>8, <1>9

LEMMA LastBar ==
  ASSUME NEW given, given \subseteq Minutes
  PROVE  /\ Max({-1} \union given) \in {-1} \union given
         /\ Max({-1} \union given) \in -1 .. MaxMinute
         /\ \A m \in given : m <= Max({-1} \union given)
<1>1. {-1} \union given \subseteq -1 .. MaxMinute /\ {-1} \union given # {}
  BY DEF Minutes
<1>2. QED
  BY <1>1, Extremes

LEMMA TableType ==
  ASSUME TypeOK
  PROVE  Table \in [Minutes -> -1 .. MaxTrades]
BY DEF TypeOK, Table, Stitched, Filled

\* A row that goes is followed by one that stays: the newest minute of a table never
\* falls.
LEMMA TableGrows ==
  ASSUME TypeOK, kind' = kind, now <= now',
         \A m \in Minutes : quoted[m] > 0 => quoted'[m] > 0,
         \A m \in Minutes : final[m] # -1 => final'[m] # -1,
         now' \in Minutes, quoted' \in [Minutes -> 0 .. MaxTrades],
         NEW m \in Minutes, Table[m] # -1
  PROVE  \E x \in Minutes : m <= x /\ Table'[x] # -1
<1>1. CASE kind = "stitched"
  <2> DEFINE given == {x \in Minutes : final[x] # -1}
             givenNext == {x \in Minutes : final'[x] # -1}
             lastBarTs == Max({-1} \union given)
             lastNext == Max({-1} \union givenNext)
  <2>1. /\ lastNext \in {-1} \union givenNext /\ lastNext \in -1 .. MaxMinute
        /\ \A x \in givenNext : x <= lastNext
    BY LastBar
  <2>2. Table = [x \in Minutes |-> IF final[x] # -1 THEN final[x]
                                   ELSE IF x \in Sparse /\ x > lastBarTs THEN quoted[x] ELSE -1]
    BY <1>1 DEF Table, Stitched
  <2>3. Table' = [x \in Minutes |-> IF final'[x] # -1 THEN final'[x]
                                    ELSE IF x \in Sparse' /\ x > lastNext THEN quoted'[x] ELSE -1]
    BY <1>1 DEF Table, Stitched
  <2> HIDE DEF lastBarTs, lastNext
  <2>4. CASE final[m] # -1
    BY <2>3, <2>4 DEF Minutes
  <2>5. CASE final[m] = -1
    <3>1. m \in Sparse /\ m \in Sparse' /\ quoted'[m] # -1
      BY <2>2, <2>5 DEF Sparse
    <3>2. CASE m > lastNext
      BY <2>3, <3>1, <3>2 DEF Minutes
    <3>3. CASE ~(m > lastNext)
      <4>1. m <= lastNext /\ lastNext \in givenNext
        BY <2>1, <3>3 DEF Minutes
      <4>2. Table'[lastNext] # -1
        BY <2>3, <4>1
      <4>3. QED
        BY <4>1, <4>2
    <3>4. QED
      BY <3>2, <3>3
  <2>6. QED
    BY <2>4, <2>5
<1>2. CASE kind = "filled"
  <2>1. Table[m] = IF m \in Bins /\ Sparse # {} THEN quoted[m] ELSE -1
    BY <1>2 DEF Table, Filled
  <2>2. Table'[m] = IF m \in Bins' /\ Sparse' # {} THEN quoted'[m] ELSE -1
    BY <1>2 DEF Table, Filled
  <2>3. m \in Bins /\ Sparse # {}
    BY <2>1
  <2>4. m \in Bins'
    BY <2>3 DEF Bins, TypeOK, Minutes
  <2>5. Sparse' # {}
    BY <2>3 DEF Sparse
  <2>6. quoted'[m] \in 0 .. MaxTrades
    OBVIOUS
  <2>7. Table'[m] # -1 /\ m <= m
    BY <2>2, <2>4, <2>5, <2>6 DEF Minutes
  <2>8. QED
    BY <2>7
<1>3. QED
  BY <1>1, <1>2 DEF TypeOK

-----------------------------------------------------------------------------
(* The loop over the added rows *)

\* The equation of AddLoop, up to minute n.
IsLoop(bars, n) ==
  bars = [m \in -1 .. n |->
            IF m = -1 THEN [curr |-> curr, completed |-> completed]
            ELSE IF m \in Added THEN AddBar(bars[m - 1], m) ELSE bars[m - 1]]

\* The recursion is well-founded: the equation has a solution.
LEMMA LoopExists == \E bars : IsLoop(bars, MaxMinute)
<1> DEFINE S == {n \in -1 .. MaxMinute : \E bars : IsLoop(bars, n)}
<1>1. -1 \in S
  <2> DEFINE bars == [m \in -1 .. -1 |-> [curr |-> curr, completed |-> completed]]
  <2>1. IsLoop(bars, -1)
    BY DEF IsLoop
  <2>2. QED
    BY <2>1
<1>2. ASSUME NEW n \in -1 .. MaxMinute - 1, n \in S
      PROVE  n + 1 \in S
  <2>1. PICK bars : IsLoop(bars, n)
    BY <1>2
  <2> DEFINE last == IF n + 1 \in Added THEN AddBar(bars[n], n + 1) ELSE bars[n]
             more == [m \in -1 .. n + 1 |-> IF m <= n THEN bars[m] ELSE last]
  <2>2. n \in Int /\ -1 <= n
    OBVIOUS
  <2>3. \A m \in -1 .. n : more[m] = bars[m]
    BY <2>2
  <2>4. more[n + 1] = last
    BY <2>2
  <2>5. \A m \in -1 .. n :
          bars[m] = IF m = -1 THEN [curr |-> curr, completed |-> completed]
                    ELSE IF m \in Added THEN AddBar(bars[m - 1], m) ELSE bars[m - 1]
    BY <2>1 DEF IsLoop
  <2>6. ASSUME NEW m \in -1 .. n + 1
        PROVE  more[m] = IF m = -1 THEN [curr |-> curr, completed |-> completed]
                         ELSE IF m \in Added THEN AddBar(more[m - 1], m) ELSE more[m - 1]
    <3> HIDE DEF more
    <3>1. CASE m = -1
      BY <2>2, <2>3, <2>5, <3>1
    <3>2. CASE m # -1 /\ m <= n
      <4>1. m \in -1 .. n /\ m - 1 \in -1 .. n
        BY <2>2, <3>2
      <4>2. QED
        BY <2>3, <2>5, <3>2, <4>1
    <3>3. CASE m = n + 1
      <4>1. m # -1 /\ m - 1 = n /\ n \in -1 .. n
        BY <2>2, <3>3
      <4>2. more[m - 1] = bars[n]
        BY <2>3, <4>1
      <4>3. QED
        BY <2>4, <3>3, <4>1, <4>2
    <3>4. QED
      BY <2>2, <3>1, <3>2, <3>3
  <2>7. more = [m \in -1 .. n + 1 |->
                  IF m = -1 THEN [curr |-> curr, completed |-> completed]
                  ELSE IF m \in Added THEN AddBar(more[m - 1], m) ELSE more[m - 1]]
    <3>1. more = [m \in -1 .. n + 1 |-> more[m]]
      OBVIOUS
    <3> HIDE DEF more
    <3>2. QED
      BY <2>6, <3>1
  <2>8. IsLoop(more, n + 1)
    <3> HIDE DEF more
    <3>1. QED
      BY <2>7 DEF IsLoop
  <2>9. QED
    BY <2>2, <2>8
<1> HIDE DEF S
<1>3. -1 .. MaxMinute \subseteq S
  BY <1>1, <1>2, IntervalInduction
<1>4. MaxMinute \in S
  BY <1>3
<1>5. QED
  BY <1>4 DEF S

LEMMA LoopSteps ==
  /\ AddLoop[-1] = [curr |-> curr, completed |-> completed]
  /\ \A m \in Minutes :
       AddLoop[m] = IF m \in Added THEN AddBar(AddLoop[m - 1], m) ELSE AddLoop[m - 1]
<1>1. AddLoop = CHOOSE bars : IsLoop(bars, MaxMinute)
  BY DEF AddLoop, IsLoop
<1>2. IsLoop(AddLoop, MaxMinute)
  BY <1>1, LoopExists
<1>3. ASSUME NEW bars, IsLoop(bars, MaxMinute)
      PROVE  /\ bars[-1] = [curr |-> curr, completed |-> completed]
             /\ \A m \in Minutes : bars[m] = IF m \in Added THEN AddBar(bars[m - 1], m)
                                             ELSE bars[m - 1]
  <2>1. \A m \in -1 .. MaxMinute :
          bars[m] = IF m = -1 THEN [curr |-> curr, completed |-> completed]
                    ELSE IF m \in Added THEN AddBar(bars[m - 1], m) ELSE bars[m - 1]
    BY <1>3 DEF IsLoop
  <2>2. QED
    BY <2>1 DEF Minutes
<1>4. QED
  BY <1>2, <1>3

\* What the loop leaves is what there was before, when no row is added.
Result == [curr : Bar \union {NoBar}, completed : Seq(Bar)]

LEMMA LoopType ==
  ASSUME TypeOK
  PROVE  \A m \in -1 .. MaxMinute : AddLoop[m] \in Result
<1> DEFINE S == {m \in -1 .. MaxMinute : AddLoop[m] \in Result}
<1>1. -1 \in S
  BY LoopSteps DEF Result, TypeOK
<1>2. ASSUME NEW m \in -1 .. MaxMinute - 1, m \in S
      PROVE  m + 1 \in S
  <2>1. /\ m + 1 \in Minutes /\ m + 1 \in -1 .. MaxMinute
        /\ AddLoop[m + 1] = IF m + 1 \in Added THEN AddBar(AddLoop[m], m + 1) ELSE AddLoop[m]
    <3>1. m + 1 \in Minutes /\ m + 1 \in -1 .. MaxMinute /\ (m + 1) - 1 = m
      BY DEF Minutes
    <3>2. QED
      BY <3>1, LoopSteps
  <2>2. AddLoop[m] \in Result
    BY <1>2
  <2>3. ASSUME NEW s \in Result, NEW x \in Added
        PROVE  AddBar(s, x) \in Result
    <3>1. x \in Minutes /\ Table[x] \in Nat
      BY TableType DEF Added, RowsOf
    <3>2. [ts |-> x, val |-> Table[x]] \in Bar
      BY <3>1 DEF Bar
    <3>3. s.curr # NoBar => Append(s.completed, s.curr) \in Seq(Bar)
      BY <2>3 DEF Result
    <3>4. s.completed \in Seq(Bar)
      BY DEF Result
    <3>5. QED
      BY <3>2, <3>3, <3>4 DEF AddBar, Result
  <2>4. QED
    BY <2>1, <2>2, <2>3
<1> HIDE DEF S
<1>3. -1 .. MaxMinute \subseteq S
  BY <1>1, <1>2, IntervalInduction
<1>4. QED
  BY <1>3 DEF S

-----------------------------------------------------------------------------
(* Types *)

\* The row keys of the rows the listener was told of are in a strict order.
OrderInv ==
  /\ order \subseteq RowsOf(seen) \X RowsOf(seen)
  /\ StrictOrder(order, RowsOf(seen))

\* There is a last modified row, and it is one of the modified rows.
LEMMA LastOfModified ==
  ASSUME OrderInv, Modified # {}
  PROVE  /\ LastModified \in Modified /\ LastModified \in Minutes
         /\ \A x \in Modified : <<LastModified, x>> \notin order
<1>1. Modified \subseteq RowsOf(seen) /\ Modified \subseteq Minutes
  BY DEF Modified, RowsOf
<1>2. IsFiniteSet(Modified)
  <2>1. PICK whole : IsFiniteSet(whole) /\ Modified \in SUBSET whole
    BY <1>1, FS_Interval DEF Minutes
  <2>2. QED
    BY <2>1, FS_Subset
<1>3. StrictOrder(order, Modified)
  BY <1>1 DEF OrderInv, StrictOrder
<1>4. \E m \in Modified : \A x \in Modified : <<m, x>> \notin order
  BY <1>2, <1>3, FirstAndLast, Zenon
<1>5. QED
  BY <1>1, <1>4 DEF LastModified

LEMMA OrderStep ==
  ASSUME TypeOK, OrderInv, [Next]_vars
  PROVE  OrderInv'
<1>1. CASE UNCHANGED <<seen, order>>
  BY <1>1 DEF OrderInv, StrictOrder, RowsOf
<1>2. CASE Listen
  <2>1. seen' = Table /\ order' = InTimeOrder(RowsOf(Table))
    BY <1>2 DEF Listen
  <2>2. RowsOf(seen)' = RowsOf(Table)
    BY <2>1 DEF RowsOf
  <2>3. RowsOf(Table) \subseteq Int
    BY DEF RowsOf, Minutes
  <2> DEFINE rows == RowsOf(Table)
  <2>4. \A x, y \in rows : <<x, y>> \in order' <=> x < y
    BY <2>1 DEF InTimeOrder
  <2>5. order' \subseteq rows \X rows
    BY <2>1 DEF InTimeOrder
  <2> HIDE DEF rows
  <2>6. StrictOrder(order', rows)
    BY <2>3, <2>4 DEF StrictOrder, rows
  <2>7. QED
    BY <2>2, <2>5, <2>6 DEF OrderInv, rows
<1>3. CASE OnUpdate
  <2> DEFINE rows == RowsOf(Table)
  <2>1. /\ seen' = Table
        /\ order' = ((order \union ((rows \ Added) \X Added)) \intersect (rows \X rows))
                      \union InTimeOrder(Added)
    BY <1>3 DEF OnUpdate
  <2>2. RowsOf(seen)' = rows
    BY <2>1 DEF RowsOf
  <2>3. Added \subseteq rows /\ rows \subseteq Int /\ rows \ Added \subseteq RowsOf(seen)
    BY DEF Added, RowsOf, Minutes
  <2>4. Added \intersect RowsOf(seen) = {}
    BY DEF Added
  <2> HIDE DEF rows
  <2>5. \A x, y \in rows : <<x, y>> \in order' <=>
          \/ <<x, y>> \in order
          \/ x \notin Added /\ y \in Added
          \/ x \in Added /\ y \in Added /\ x < y
    BY <2>1 DEF InTimeOrder
  <2>6. \A x, y \in rows : <<x, y>> \in order => x \notin Added /\ y \notin Added
    BY <2>4 DEF OrderInv
  <2>7. order' \subseteq rows \X rows
    BY <2>1, <2>3 DEF InTimeOrder
  <2>8. StrictOrder(order', rows)
    <3>1. ASSUME NEW x \in rows PROVE <<x, x>> \notin order'
      <4>1. x \in Int /\ ~(x < x)
        BY <2>3
      <4>2. <<x, x>> \notin order
        BY DEF OrderInv, StrictOrder
      <4>3. QED
        BY <2>5, <4>1, <4>2
    <3>2. ASSUME NEW x \in rows, NEW y \in rows
          PROVE  x = y \/ <<x, y>> \in order' \/ <<y, x>> \in order'
      <4>1. x \in Int /\ y \in Int
        BY <2>3
      <4>2. x \notin Added /\ y \notin Added => x = y \/ <<x, y>> \in order \/ <<y, x>> \in order
        BY <2>3 DEF OrderInv, StrictOrder
      <4>3. QED
        BY <2>5, <4>1, <4>2
    <3>3. ASSUME NEW x \in rows, NEW y \in rows, NEW z \in rows,
                 <<x, y>> \in order', <<y, z>> \in order'
          PROVE  <<x, z>> \in order'
      <4>1. x \in Int /\ y \in Int /\ z \in Int
        BY <2>3
      <4>2. <<x, y>> \in order /\ <<y, z>> \in order => <<x, z>> \in order
        <5>1. <<x, y>> \in order /\ <<y, z>> \in order =>
                x \in RowsOf(seen) /\ y \in RowsOf(seen) /\ z \in RowsOf(seen)
          BY DEF OrderInv
        <5>2. QED
          BY <5>1 DEF OrderInv, StrictOrder
      <4>3. QED
        BY <2>5, <2>6, <3>3, <4>1, <4>2
    <3>4. QED
      BY <3>1, <3>2, <3>3 DEF StrictOrder
  <2>9. QED
    BY <2>2, <2>7, <2>8 DEF OrderInv
<1>4. QED
  BY <1>1, <1>2, <1>3, Zenon
     DEF Next, vars, lsnVars, Tick, Trade, Stream, Poll

\* The bars the API gives are bars of minutes that traded, up to the one it has.
LEMMA EmittedBars ==
  ASSUME NEW bars
  PROVE  Emitted(bars) \subseteq bars
BY DEF Emitted, Fetched, Newest

LEMMA PollType ==
  ASSUME TypeOK, NEW upTo \in {now - 1, now}, Poll(upTo)
  PROVE  TypeOK'
<1> DEFINE bars == {m \in 0 .. upTo : trades[m] > 0}
           out == Emitted(bars)
<1>1. /\ out # {}
      /\ final' = [m \in Minutes |-> IF m \in out THEN trades[m] ELSE final[m]]
      /\ wm' = Max(out \union {wm})
      /\ first' = IF first = -1 THEN Min(out) ELSE first
      /\ outage' = (outage \/ (wm # -1 /\ Cardinality({m \in bars : m >= wm}) > Overlap))
      /\ UNCHANGED <<kind, now, trades, quoted, lsnVars>>
  BY DEF Poll
<1>2. now \in Minutes /\ upTo <= now /\ upTo \in Int /\ wm \in -1 .. now /\ first \in -1 .. wm
  BY DEF TypeOK, Minutes
<1>3. out \subseteq bars /\ bars \subseteq 0 .. now /\ 0 .. now \subseteq Minutes
  BY <1>2, EmittedBars DEF Minutes
<1> HIDE DEF out, bars
<1>4. /\ Max(out \union {wm}) \in out \union {wm}
      /\ \A y \in out \union {wm} : y <= Max(out \union {wm})
  <2>1. out \union {wm} \subseteq -1 .. MaxMinute /\ out \union {wm} # {}
    BY <1>2, <1>3 DEF Minutes
  <2>2. QED
    BY <2>1, Extremes
<1>5. Min(out) \in out /\ \A y \in out : Min(out) <= y
  <2>1. out \subseteq -1 .. MaxMinute
    BY <1>3 DEF Minutes
  <2>2. QED
    BY <1>1, <2>1, Extremes
<1>6. wm' \in -1 .. now /\ wm <= wm'
  <2>1. wm' \in out \union {wm} /\ wm <= wm'
    BY <1>1, <1>4
  <2>2. out \subseteq -1 .. now
    BY <1>2, <1>3
  <2>3. QED
    BY <1>2, <2>1, <2>2
<1>7. first' \in -1 .. wm'
  <2>1. Min(out) \in 0 .. now /\ Min(out) <= wm'
    BY <1>1, <1>3, <1>4, <1>5
  <2>2. QED
    BY <1>1, <1>2, <1>6, <2>1
<1>8. final' \in [Minutes -> -1 .. MaxTrades]
  BY <1>1, <1>3 DEF TypeOK
<1>9. outage' \in BOOLEAN
  BY <1>1
<1>10. QED
  BY <1>1, <1>6, <1>7, <1>8, <1>9 DEF TypeOK, lsnVars

\* The bound on the trades bounds those of a minute.
LEMMA TradeType ==
  ASSUME TypeOK, Trade
  PROVE  TypeOK'
<1>1. /\ trades' = [trades EXCEPT ![now] = @ + 1] /\ Cardinality(TradesMade) < MaxTrades
      /\ UNCHANGED <<kind, now, quoted, pollVars, lsnVars>>
  BY DEF Trade
<1>2. now \in Minutes /\ trades[now] \in 0 .. MaxTrades
  BY DEF TypeOK
<1>3. trades[now] < MaxTrades
  <2> DEFINE ofNow == {p \in TradesMade : p[1] = now}
             number == [p \in ofNow |-> p[2]]
             n == trades[now]
  <2>1. IsFiniteSet(TradesMade)
    <3>1. IsFiniteSet(Minutes) /\ IsFiniteSet(1 .. MaxTrades)
      BY FS_Interval DEF Minutes
    <3>2. IsFiniteSet(Minutes \X (1 .. MaxTrades))
      BY <3>1, FS_Product
    <3>3. TradesMade \in SUBSET (Minutes \X (1 .. MaxTrades))
      BY DEF TradesMade
    <3>4. QED
      BY <3>2, <3>3, FS_Subset
  <2>2. number \in Surjection(ofNow, 1 .. n)
    <3>1. \A p \in ofNow : p[2] \in 1 .. n
      BY <1>2 DEF TradesMade
    <3>2. ASSUME NEW i \in 1 .. n PROVE \E p \in ofNow : number[p] = i
      <4>1. <<now, i>> \in ofNow
        BY <1>2 DEF TradesMade
      <4>2. number[<<now, i>>] = i
        BY <4>1
      <4>3. QED
        BY <4>1, <4>2
    <3>3. QED
      BY <3>1, <3>2 DEF Surjection
  <2> HIDE DEF number
  <2>3. /\ IsFiniteSet(ofNow) /\ Cardinality(ofNow) <= Cardinality(TradesMade)
        /\ Cardinality(ofNow) \in Nat /\ Cardinality(TradesMade) \in Nat
    <3>1. ofNow \in SUBSET TradesMade
      OBVIOUS
    <3> HIDE DEF ofNow
    <3>2. QED
      BY <2>1, <3>1, FS_Subset, FS_CardinalityType
  <2> HIDE DEF ofNow
  <2>4. Cardinality(1 .. n) <= Cardinality(ofNow)
    BY <2>2, <2>3, FS_Surjection
  <2>5. Cardinality(1 .. n) = n
    BY <1>2, FS_Interval
  <2>6. QED
    BY <1>1, <1>2, <2>3, <2>4, <2>5
<1>4. trades' \in [Minutes -> 0 .. MaxTrades]
  BY <1>1, <1>2, <1>3 DEF TypeOK
<1>5. QED
  BY <1>1, <1>4 DEF TypeOK, pollVars, lsnVars

LEMMA UpdateType ==
  ASSUME TypeOK, OrderInv, OnUpdate
  PROVE  TypeOK'
<1>1. AddLoop[MaxMinute] \in Result
  BY LoopType
<1>2. completed' \in Seq(Bar) /\ AddLoop[MaxMinute].curr \in Bar \union {NoBar}
  BY <1>1 DEF OnUpdate, Result
<1>3. curr' \in Bar \union {NoBar}
  <2>1. CASE Modified = {}
    BY <1>2, <2>1 DEF OnUpdate
  <2>2. CASE Modified # {}
    <3>1. LastModified \in Modified /\ LastModified \in Minutes
      BY <2>2, LastOfModified
    <3>2. Table[LastModified] \in Nat
      BY <3>1, TableType DEF Modified, RowsOf
    <3>3. [ts |-> LastModified, val |-> Table[LastModified]] \in Bar
      BY <3>1, <3>2 DEF Bar
    <3>4. curr' = ModifyBar(AddLoop[MaxMinute].curr, LastModified)
      BY <2>2 DEF OnUpdate
    <3>5. QED
      BY <1>2, <3>3, <3>4 DEF ModifyBar
  <2>3. QED
    BY <2>1, <2>2
<1>4. Added \subseteq Minutes /\ Modified \subseteq Minutes
  BY DEF Added, Modified, RowsOf
<1>5. opened' \subseteq Minutes
  <2>1. {curr'.ts} \ {-1} \subseteq Minutes
    BY <1>3 DEF Bar, NoBar
  <2>2. opened' = opened \union Added \union ({curr'.ts} \ {-1})
    BY DEF OnUpdate
  <2>3. QED
    BY <1>4, <2>1, <2>2 DEF TypeOK
<1>6. changed' \subseteq Minutes
  BY <1>4 DEF OnUpdate, TypeOK
<1>7. seen' \in [Minutes -> -1 .. MaxTrades]
  BY TableType DEF OnUpdate
<1>8. order' \subseteq Minutes \X Minutes
  BY <1>4 DEF OnUpdate, InTimeOrder, RowsOf
<1>9. late' \in BOOLEAN
  BY DEF OnUpdate, TypeOK
<1>10. UNCHANGED <<kind, now, trades, quoted, pollVars, lsn>>
  BY DEF OnUpdate
<1>11. QED
  BY <1>2, <1>3, <1>5, <1>6, <1>7, <1>8, <1>9, <1>10 DEF TypeOK, pollVars

LEMMA TypeStep ==
  ASSUME TypeOK, OrderInv, [Next]_vars
  PROVE  TypeOK'
<1>1. CASE Tick
  <2>1. now' = now + 1 /\ now < MaxMinute /\ now \in Minutes
    BY <1>1 DEF Tick, TypeOK
  <2>2. now' \in Minutes /\ -1 .. now \subseteq -1 .. now'
    BY <2>1 DEF Minutes
  <2>3. wm \in -1 .. now'
    BY <2>2 DEF TypeOK
  <2>4. QED
    BY <1>1, <2>2, <2>3 DEF Tick, TypeOK, pollVars, lsnVars
<1>2. CASE Trade
  BY <1>2, TradeType
<1>3. CASE \E m \in Minutes : Stream(m)
  BY <1>3 DEF Stream, TypeOK, pollVars, lsnVars
<1>4. CASE \E upTo \in {now - 1, now} : Poll(upTo)
  BY <1>4, PollType
<1>5. CASE Listen
  <2>1. order' \subseteq Minutes \X Minutes
    BY <1>5 DEF Listen, InTimeOrder, RowsOf
  <2>2. seen' \in [Minutes -> -1 .. MaxTrades]
    BY <1>5, TableType DEF Listen
  <2>3. QED
    BY <1>5, <2>1, <2>2 DEF Listen, TypeOK, pollVars
<1>6. CASE OnUpdate
  BY <1>6, UpdateType
<1>7. CASE UNCHANGED vars
  BY <1>7 DEF vars, TypeOK, pollVars, lsnVars
<1>8. QED
  BY <1>1, <1>2, <1>3, <1>4, <1>5, <1>6, <1>7 DEF Next

LEMMA InitType == Init => TypeOK /\ OrderInv
<1> SUFFICES ASSUME Init PROVE TypeOK /\ OrderInv
  OBVIOUS
<1>1. TypeOK
  BY DEF Init, TypeOK, Minutes
<1>2. RowsOf(seen) = {}
  BY DEF Init, RowsOf
<1>3. QED
  BY <1>1, <1>2 DEF Init, OrderInv, StrictOrder

\* Every variable of the tables, the poller and the listener keeps its type; in
\* particular the bars the listener holds are bars of minutes.
THEOREM TypeCorrect == Spec => []TypeOK
<1>1. TypeOK /\ OrderInv /\ [Next]_vars => (TypeOK /\ OrderInv)'
  BY TypeStep, OrderStep
<1>2. QED
  BY <1>1, InitType, PTL DEF Spec


-----------------------------------------------------------------------------
(* The bars of the API settle *)

\* Once the poller has a watermark it has a first bar.
SettleInv ==
  /\ BarsSettle
  /\ wm # -1 => first # -1

\* Sets of minutes are finite, and a subset has no more of them.
LEMMA FewerMinutes ==
  ASSUME NEW S \in SUBSET Minutes, NEW R \in SUBSET S
  PROVE  /\ Cardinality(R) \in Nat /\ Cardinality(S) \in Nat
         /\ Cardinality(R) <= Cardinality(S)
         /\ R # S => Cardinality(R) < Cardinality(S)
<1>1. IsFiniteSet(S)
  <2>1. PICK whole : IsFiniteSet(whole) /\ S \in SUBSET whole
    BY FS_Interval DEF Minutes
  <2>2. QED
    BY <2>1, FS_Subset
<1>2. /\ IsFiniteSet(R) /\ Cardinality(R) <= Cardinality(S)
      /\ Cardinality(R) = Cardinality(S) => R = S
  BY <1>1, FS_Subset
<1>3. Cardinality(R) \in Nat /\ Cardinality(S) \in Nat
  BY <1>1, <1>2, FS_CardinalityType
<1>4. QED
  BY <1>2, <1>3

LEMMA PairExtremes ==
  ASSUME NEW a \in Int, NEW b \in Int
  PROVE  /\ Max({a, b}) \in {a, b} /\ Max({a, b}) >= a /\ Max({a, b}) >= b
         /\ Min({a, b}) \in {a, b} /\ Min({a, b}) <= a /\ Min({a, b}) <= b
<1>1. \E x \in {a, b} : \A y \in {a, b} : x >= y
  BY a >= b \/ b >= a
<1>2. \E x \in {a, b} : \A y \in {a, b} : x <= y
  BY a >= b \/ b >= a
<1>3. Max({a, b}) \in {a, b} /\ \A y \in {a, b} : Max({a, b}) >= y
  BY <1>1 DEF Max
<1>4. Min({a, b}) \in {a, b} /\ \A y \in {a, b} : Min({a, b}) <= y
  BY <1>2 DEF Min
<1>5. QED
  BY <1>3, <1>4

\* The first poll gives every bar from the oldest it gives.
LEMMA FirstPollGivesAll ==
  ASSUME NEW bars \in SUBSET Minutes, wm = -1, NEW low \in Emitted(bars),
         NEW m \in bars, low <= m
  PROVE  m \in Emitted(bars)
<1>1. Emitted(bars) = Newest(bars, BatchSize)
  BY DEF Emitted, Fetched
<1>2. low \in bars /\ Cardinality({x \in bars : x > low}) < BatchSize
  BY <1>1 DEF Newest
<1>3. {x \in bars : x > m} \subseteq {x \in bars : x > low}
  <2>1. bars \subseteq Int
    BY DEF Minutes
  <2>2. \A x \in bars : x > m => x > low
    BY <1>2, <2>1
  <2>3. QED
    BY <2>2
<1>4. /\ Cardinality({x \in bars : x > m}) \in Nat /\ Cardinality({x \in bars : x > low}) \in Nat
      /\ Cardinality({x \in bars : x > m}) <= Cardinality({x \in bars : x > low})
  <2> DEFINE S == {x \in bars : x > low}
             R == {x \in bars : x > m}
  <2>1. S \in SUBSET Minutes /\ R \in SUBSET S
    BY <1>3
  <2> HIDE DEF S, R
  <2>2. Cardinality(R) \in Nat /\ Cardinality(S) \in Nat /\ Cardinality(R) <= Cardinality(S)
    BY <2>1, FewerMinutes
  <2>3. QED
    BY <2>2 DEF S, R
<1>5. Cardinality({x \in bars : x > m}) < BatchSize
  BY <1>2, <1>4
<1>6. QED
  BY <1>1, <1>5 DEF Newest

\* A later poll gives every bar from the watermark on, if the overlap is enough.
LEMMA OverlapGivesAll ==
  ASSUME NEW bars \in SUBSET Minutes, wm \in Nat, now \in Nat, wm <= now,
         Cardinality({x \in bars : x >= wm}) <= Overlap,
         NEW m \in bars, m >= wm
  PROVE  m \in Emitted(bars)
<1> DEFINE from == {x \in bars : x >= wm}
           after == {x \in bars : x > m}
           k == Min({BatchSize, Max({1, now - WindowStart})})
<1>1. /\ bars \subseteq Int /\ m \in Int /\ wm \in Int /\ now \in Int
      /\ Overlap \in Nat /\ BatchSize \in Nat /\ Overlap >= 1 /\ Overlap <= BatchSize
  BY DEF Minutes
<1>2. k \in Int /\ k >= Overlap
  <2>1. now - WindowStart \in Int /\ now - WindowStart >= Overlap
    BY <1>1 DEF WindowStart
  <2> DEFINE w == now - WindowStart
             n == Max({1, w})
  <2>2. n \in Int /\ n >= Overlap
    <3>1. w \in Int /\ w >= Overlap
      BY <2>1
    <3> HIDE DEF w
    <3>2. n \in {1, w} /\ n >= w
      BY <3>1, PairExtremes
    <3>3. QED
      BY <1>1, <3>1, <3>2
  <2>3. k = Min({BatchSize, n})
    OBVIOUS
  <2> HIDE DEF n, w, k
  <2>4. k \in {BatchSize, n}
    BY <1>1, <2>2, <2>3, PairExtremes
  <2>5. QED
    BY <1>1, <2>2, <2>4
<1> HIDE DEF k
<1>3. after \in SUBSET from /\ from \in SUBSET Minutes /\ m \in from /\ m \notin after
  <2>1. \A x \in bars : x > m => x >= wm
    BY <1>1
  <2>2. ~(m > m)
    BY <1>1
  <2>3. QED
    BY <2>1, <2>2
<1>4. Cardinality(after) \in Nat /\ Cardinality(after) < Overlap
  <2>1. Cardinality(from) <= Overlap
    OBVIOUS
  <2> HIDE DEF from, after
  <2>2. /\ Cardinality(after) \in Nat /\ Cardinality(from) \in Nat
        /\ Cardinality(after) < Cardinality(from)
    BY <1>3, FewerMinutes
  <2>3. QED
    BY <1>1, <2>1, <2>2
<1>5. m \in Newest(bars, k)
  <2>1. Cardinality(after) < k
    BY <1>1, <1>2, <1>4
  <2>2. QED
    BY <2>1 DEF Newest
<1>6. Fetched(bars) = {x \in Newest(bars, k) : x >= WindowStart}
  BY <1>1 DEF Fetched, k
<1>7. m \in Fetched(bars)
  BY <1>1, <1>5, <1>6 DEF WindowStart
<1>8. Cardinality({x \in Fetched(bars) : x > m}) < Overlap
  <2> DEFINE given == {x \in Fetched(bars) : x > m}
  <2>1. given \in SUBSET after /\ after \in SUBSET Minutes
    BY <1>3, <1>6 DEF Newest
  <2> HIDE DEF given, after
  <2>2. Cardinality(given) \in Nat /\ Cardinality(given) <= Cardinality(after)
    BY <2>1, FewerMinutes
  <2>3. Cardinality(given) < Overlap
    BY <1>1, <1>4, <2>2
  <2>4. QED
    BY <2>3 DEF given
<1>9. QED
  BY <1>1, <1>7, <1>8 DEF Emitted, Newest

LEMMA PollSettles ==
  ASSUME TypeOK, SettleInv, NEW upTo \in {now - 1, now}, Poll(upTo)
  PROVE  SettleInv'
<1> DEFINE bars == {m \in 0 .. upTo : trades[m] > 0}
           out == Emitted(bars)
<1>1. /\ out # {}
      /\ final' = [m \in Minutes |-> IF m \in out THEN trades[m] ELSE final[m]]
      /\ wm' = Max(out \union {wm})
      /\ first' = IF first = -1 THEN Min(out) ELSE first
      /\ outage' = (outage \/ (wm # -1 /\ Cardinality({m \in bars : m >= wm}) > Overlap))
      /\ trades' = trades
  BY DEF Poll
<1>2. now \in Minutes /\ upTo <= now /\ upTo \in Int /\ wm \in -1 .. now /\ first \in -1 .. wm
  BY DEF TypeOK, Minutes
<1>3. out \subseteq bars /\ bars \subseteq 0 .. now /\ bars \subseteq Minutes
  BY <1>2, EmittedBars DEF Minutes
<1>4. \A m \in Minutes : m \in bars <=> m <= upTo /\ trades[m] > 0
  BY <1>2 DEF Minutes
<1>5. \A m \in bars : m <= upTo
  BY <1>2
<1> HIDE DEF out, bars
<1>6. wm' \in out \union {wm}
  <2>1. out \union {wm} \subseteq -1 .. MaxMinute /\ out \union {wm} # {}
    BY <1>2, <1>3 DEF Minutes
  <2>2. QED
    BY <1>1, <2>1, Extremes
<1>7. Min(out) \in out /\ \A y \in out : Min(out) <= y
  <2>1. out \subseteq -1 .. MaxMinute
    BY <1>3 DEF Minutes
  <2>2. QED
    BY <1>1, <2>1, Extremes
<1>8. Min(out) \in Minutes /\ Min(out) # -1
  <2>1. Min(out) \in Minutes
    BY <1>3, <1>7
  <2>2. QED
    BY <2>1 DEF Minutes
<1>9. wm' # -1 => first' # -1
  BY <1>1, <1>8
<1>10. ASSUME ~outage', NEW m \in Minutes,
              first' <= m, m < wm', trades[m] > 0, first' # -1
       PROVE  final'[m] = trades[m]
  <2>1. final'[m] = IF m \in out THEN trades[m] ELSE final[m]
    BY <1>1
  <2>2. wm' \in out => m \in bars
    BY <1>2, <1>3, <1>4, <1>5, <1>10 DEF Minutes
  <2>3. CASE wm = -1
    <3>1. first' = Min(out) /\ Min(out) <= m
      BY <1>1, <1>2, <1>10, <2>3
    <3>2. wm' \in out
      BY <1>6, <1>10, <2>3 DEF Minutes
    <3>3. m \in out
      BY <1>3, <1>7, <2>2, <2>3, <3>1, <3>2, FirstPollGivesAll DEF out
    <3>4. QED
      BY <2>1, <3>3
  <2>4. CASE wm # -1 /\ m < wm
    <3>1. first' = first /\ ~outage
      BY <1>1, <1>10, <2>4 DEF SettleInv
    <3>2. final[m] = trades[m]
      BY <1>10, <2>4, <3>1 DEF SettleInv, BarsSettle
    <3>3. QED
      BY <2>1, <3>2
  <2>5. CASE wm # -1 /\ ~(m < wm)
    <3>1. wm \in Nat /\ now \in Nat /\ wm <= now /\ m >= wm
      BY <1>2, <2>5 DEF Minutes
    <3>2. m \in bars
      BY <1>6, <1>10, <2>2, <2>5
    <3>3. ~(Cardinality({x \in bars : x >= wm}) > Overlap)
      BY <1>1, <1>10, <2>5
    <3>4. Cardinality({x \in bars : x >= wm}) <= Overlap
      <4> DEFINE from == {x \in bars : x >= wm}
      <4>1. from \in SUBSET Minutes /\ from \in SUBSET from
        BY <1>3
      <4>2. ~(Cardinality(from) > Overlap)
        BY <3>3
      <4> HIDE DEF from
      <4>3. Cardinality(from) \in Nat
        BY <4>1, FewerMinutes
      <4>4. Cardinality(from) <= Overlap
        BY <4>2, <4>3
      <4>5. QED
        BY <4>4 DEF from
    <3>5. m \in out
      BY <1>3, <3>1, <3>2, <3>4, OverlapGivesAll DEF out
    <3>6. QED
      BY <2>1, <3>5
  <2>6. QED
    BY <2>3, <2>4, <2>5
<1>11. QED
  BY <1>1, <1>9, <1>10 DEF SettleInv, BarsSettle

LEMMA SettleStep ==
  ASSUME TypeOK, SettleInv, [Next]_vars
  PROVE  SettleInv'
<1>1. CASE Trade
  <2>1. \A m \in Minutes : m < wm => trades'[m] = trades[m]
    <3>1. trades' = [trades EXCEPT ![now] = @ + 1] /\ now \in Minutes /\ wm \in -1 .. now
      BY <1>1 DEF Trade, TypeOK
    <3>2. \A m \in Minutes : m < wm => m # now
      BY <3>1 DEF Minutes
    <3>3. QED
      BY <3>1, <3>2 DEF TypeOK
  <2>2. UNCHANGED <<final, wm, first, outage>>
    BY <1>1 DEF Trade, pollVars
  <2>3. QED
    BY <2>1, <2>2 DEF SettleInv, BarsSettle
<1>2. CASE \E upTo \in {now - 1, now} : Poll(upTo)
  BY <1>2, PollSettles
<1>3. CASE UNCHANGED <<trades, final, wm, first, outage>>
  BY <1>3 DEF SettleInv, BarsSettle
<1>4. QED
  BY <1>1, <1>2, <1>3, Zenon DEF Next, vars, pollVars, Tick, Stream, Listen, OnUpdate

\* The poller leaves no bar out and none unfinished behind its watermark, for any
\* overlap and any batch size that is not smaller.
THEOREM BarsSettleBehind == Spec => []BarsSettle
<1>1. Init => SettleInv
  BY DEF Init, SettleInv, BarsSettle
<1>2. SettleInv => BarsSettle
  BY DEF SettleInv
<1>3. TypeOK /\ OrderInv /\ SettleInv /\ [Next]_vars => (TypeOK /\ OrderInv /\ SettleInv)'
  BY TypeStep, OrderStep, SettleStep
<1>4. QED
  BY <1>1, <1>2, <1>3, InitType, PTL DEF Spec

-----------------------------------------------------------------------------
(* What the listener holds *)

\* Before it listens the listener holds nothing; then no row it was told of is newer
\* than the newest row of the table.
FedInv ==
  /\ ~lsn => /\ RowsOf(seen) = {} /\ curr = NoBar
             /\ opened = {} /\ completed = <<>>
  /\ lsn => \A m \in RowsOf(seen) : \E x \in RowsOf(Table) : m <= x

\* As long as no minute was told late, curr is the newest row the listener was told of,
\* with its content; all that it met and completed is older.
HeldInv ==
  ~late =>
    /\ order = InTimeOrder(RowsOf(seen))
    /\ curr = NoBar => opened = {} /\ completed = <<>>
    /\ curr # NoBar => /\ curr.ts \in RowsOf(seen) /\ seen[curr.ts] = curr.val
                       /\ \A m \in RowsOf(seen) : m <= curr.ts
    /\ \A m \in opened : m <= curr.ts
    /\ \A i \in DOMAIN completed : completed[i].ts < curr.ts

LEMMA FedStep ==
  ASSUME TypeOK, TypeOK', FedInv, [Next]_vars
  PROVE  FedInv'
<1>1. ASSUME ~lsn' PROVE FedInv'
  <2>1. UNCHANGED <<lsn, seen, curr, opened, completed>>
    BY <1>1, Zenon DEF TypeOK, Next, vars, lsnVars, Tick, Trade, Stream, Poll, Listen, OnUpdate
  <2>2. QED
    BY <1>1, <2>1 DEF FedInv, RowsOf
<1>2. ASSUME lsn', NEW m \in RowsOf(seen)' PROVE \E x \in RowsOf(Table)' : m <= x
  <2>1. PICK y \in Minutes : m <= y /\ Table[y] # -1
    <3>1. CASE seen' = Table
      BY <1>2, <3>1 DEF RowsOf, Minutes
    <3>2. CASE UNCHANGED <<lsn, seen>>
      BY <1>2, <3>2 DEF FedInv, RowsOf
    <3>3. QED
      BY <3>1, <3>2, Zenon
         DEF Next, vars, lsnVars, Tick, Trade, Stream, Poll, Listen, OnUpdate
  <2>2. /\ kind' = kind /\ now <= now'
        /\ \A x \in Minutes : quoted[x] > 0 => quoted'[x] > 0
        /\ \A x \in Minutes : final[x] # -1 => final'[x] # -1
    <3>1. CASE Tick
      BY <3>1 DEF Tick, pollVars, TypeOK, Minutes
    <3>2. CASE \E x \in Minutes : Stream(x)
      <4>1. PICK x \in Minutes : Stream(x)
        BY <3>2
      <4>2. /\ UNCHANGED <<kind, now, final>> /\ quoted[x] < trades[x]
            /\ quoted' = [quoted EXCEPT ![x] = trades[x]]
        BY <4>1 DEF Stream, pollVars
      <4>3. quoted \in [Minutes -> 0 .. MaxTrades] /\ trades[x] \in 0 .. MaxTrades /\ now \in Int
        <5>1. now \in Minutes /\ Minutes \subseteq Int
          BY DEF TypeOK, Minutes
        <5>2. QED
          BY <5>1 DEF TypeOK
      <4>4. trades[x] > 0
        BY <4>2, <4>3
      <4>5. \A z \in Minutes : quoted'[z] = IF z = x THEN trades[x] ELSE quoted[z]
        BY <4>2, <4>3
      <4>6. now <= now'
        BY <4>2, <4>3
      <4>7. QED
        BY <4>2, <4>4, <4>5, <4>6
    <3>3. CASE \E upTo \in {now - 1, now} : Poll(upTo)
      <4>1. UNCHANGED <<kind, now, quoted>>
        BY <3>3 DEF Poll
      <4>2. \A x \in Minutes : final'[x] \in {trades[x], final[x]}
        BY <3>3 DEF Poll
      <4>3. \A x \in Minutes : trades[x] # -1
        BY DEF TypeOK
      <4>4. QED
        BY <4>1, <4>2, <4>3 DEF TypeOK, Minutes
    <3>4. CASE UNCHANGED <<kind, now, quoted, final>>
      BY <3>4 DEF TypeOK, Minutes
    <3>5. QED
      BY <3>1, <3>2, <3>3, <3>4, Zenon DEF Next, vars, pollVars, Trade, Listen, OnUpdate
  <2>3. now' \in Minutes /\ quoted' \in [Minutes -> 0 .. MaxTrades]
    BY DEF TypeOK
  <2>4. PICK z \in Minutes : y <= z /\ Table'[z] # -1
    BY <2>1, <2>2, <2>3, TableGrows
  <2>5. z \in RowsOf(Table)'
    BY <2>4 DEF RowsOf
  <2>6. m \in Int /\ y \in Int /\ z \in Int
    BY <1>2 DEF RowsOf, Minutes
  <2>7. QED
    BY <2>1, <2>4, <2>5, <2>6
<1>3. QED
  BY <1>1, <1>2 DEF FedInv

-----------------------------------------------------------------------------
(* The completed bars *)

CompleteInv == HeldInv /\ CompletedOnce /\ CompletedContent

\* A bar is of a minute, but for NoBar.
LEMMA BarMinute ==
  ASSUME NEW b \in Bar \union {NoBar}
  PROVE  b.ts \in Int /\ (b = NoBar => b.ts = -1) /\ (b # NoBar => b.ts \in Minutes)
<1>1. b = NoBar => b.ts = -1
  BY DEF NoBar
<1>2. b # NoBar => b.ts \in Minutes
  BY DEF Bar
<1>3. b.ts = -1 \/ b.ts \in Minutes
  BY <1>1, <1>2
<1>4. Minutes \subseteq Int
  BY DEF Minutes
<1>5. b.ts \in Int
  <2>1. CASE b.ts = -1
    BY <2>1
  <2>2. CASE b.ts \in Minutes
    BY <1>4, <2>2
  <2>3. QED
    BY <1>3, <2>1, <2>2
<1>6. QED
  BY <1>1, <1>2, <1>5

\* A sequence with one element more.
LEMMA Appended ==
  ASSUME NEW S, NEW seq \in Seq(S), NEW b \in S
  PROVE  /\ Append(seq, b) \in Seq(S)
         /\ Len(seq) \in Nat /\ DOMAIN seq = 1 .. Len(seq)
         /\ DOMAIN Append(seq, b) = 1 .. Len(seq) + 1
         /\ \A i \in DOMAIN seq : i \in DOMAIN Append(seq, b) /\ Append(seq, b)[i] = seq[i]
         /\ Append(seq, b)[Len(seq) + 1] = b
         /\ Len(seq) + 1 \in DOMAIN Append(seq, b)
         /\ \A i \in DOMAIN Append(seq, b) : i \in DOMAIN seq \/ i = Len(seq) + 1
OBVIOUS

\* The completed bars s has are in the order of time, older than its current bar, and
\* with all the bars of minutes met that are; each was completed before, or is the
\* bar the listener held, or a row of this update.
Completes(s) ==
  /\ \A i \in DOMAIN s.completed : s.completed[i].ts < s.curr.ts
  /\ \A i, j \in DOMAIN s.completed : i < j => s.completed[i].ts < s.completed[j].ts
  /\ \A x \in opened \union Added : x < s.curr.ts => \E i \in DOMAIN s.completed : s.completed[i].ts = x
  /\ \A i \in DOMAIN s.completed :
       \/ \E j \in DOMAIN completed : s.completed[i] = completed[j]
       \/ s.completed[i] = curr /\ curr # NoBar
       \/ s.completed[i].ts \in Added /\ s.completed[i].val = Table[s.completed[i].ts]

\* The bars after the added rows up to minute m.
LoopInv(s, m) ==
  /\ s \in Result
  /\ Completes(s)
  /\ \/ s.curr = curr /\ s.completed = completed /\ \A x \in Added : m < x
     \/ /\ s.curr.ts \in Added /\ s.curr.ts <= m /\ s.curr.val = Table[s.curr.ts]
        /\ \A x \in Added : x <= m => x <= s.curr.ts

\* One added row.
LEMMA AddKeeps ==
  ASSUME TypeOK, ~late, CompleteInv, \A x \in Added : curr.ts < x,
         NEW s, NEW m \in -1 .. MaxMinute - 1, LoopInv(s, m), m + 1 \in Added
  PROVE  LoopInv(AddBar(s, m + 1), m + 1)
<1> DEFINE t == AddBar(s, m + 1)
           b == [ts |-> m + 1, val |-> Table[m + 1]]
<1>1. /\ m \in Int /\ m + 1 \in Int /\ m < m + 1 /\ m + 1 \in Minutes
      /\ Added \subseteq Minutes /\ Minutes \subseteq Int /\ opened \subseteq Minutes
      /\ -1 \notin Minutes /\ \A x \in Minutes : ~(x < -1)
  <2>1. Added \subseteq Minutes /\ opened \subseteq Minutes
    BY DEF Added, RowsOf, TypeOK
  <2>2. /\ m \in Int /\ m + 1 \in Int /\ m < m + 1 /\ m + 1 \in Minutes
        /\ Minutes \subseteq Int /\ -1 \notin Minutes /\ \A x \in Minutes : ~(x < -1)
    BY DEF Minutes
  <2>3. QED
    BY <2>1, <2>2
<1>2. /\ s.curr \in Bar \union {NoBar} /\ s.completed \in Seq(Bar)
      /\ curr \in Bar \union {NoBar} /\ s = [curr |-> s.curr, completed |-> s.completed]
  BY DEF LoopInv, Result, TypeOK
<1>3. b \in Bar
  <2>1. Table[m + 1] \in Nat
    BY TableType DEF Added, RowsOf
  <2>2. QED
    BY <1>1, <2>1 DEF Bar
<1>4. /\ s.curr.ts \in Int /\ curr.ts \in Int
      /\ (s.curr = NoBar => s.curr.ts = -1) /\ (s.curr # NoBar => s.curr.ts \in Minutes)
  BY <1>1, <1>2 DEF Bar, NoBar
<1>5. s.curr.ts < m + 1
  <2>1. CASE s.curr = curr
    BY <2>1
  <2>2. CASE s.curr.ts <= m
    BY <1>1, <1>4, <2>2
  <2>3. QED
    BY <2>1, <2>2 DEF LoopInv
<1>6. /\ t.curr = b
      /\ t.completed = IF s.curr # NoBar THEN Append(s.completed, s.curr) ELSE s.completed
  BY <1>1, <1>4, <1>5 DEF AddBar
<1>7. /\ \A x \in Added : x <= m => x <= s.curr.ts
      /\ \A x \in opened : x <= s.curr.ts
  <2>1. \A x \in opened : x <= curr.ts
    BY DEF CompleteInv, HeldInv
  <2>2. CASE s.curr = curr /\ \A x \in Added : m < x
    BY <1>1, <2>1, <2>2
  <2>3. CASE s.curr.ts \in Added /\ \A x \in Added : x <= m => x <= s.curr.ts
    <3>1. curr.ts < s.curr.ts
      BY <2>3
    <3>2. QED
      BY <1>1, <1>4, <2>1, <2>3, <3>1
  <2>4. QED
    BY <2>2, <2>3 DEF LoopInv
<1>8. ASSUME NEW x \in opened \union Added, x < m + 1 PROVE x <= s.curr.ts
  <2>1. x \in Int
    BY <1>1
  <2>2. x <= m
    BY <1>1, <1>8, <2>1
  <2>3. QED
    BY <1>7, <2>2
<1>9. t \in Result
  BY <1>2, <1>3, <1>6, Appended DEF AddBar, Result
<1>10. Completes(s)
  BY DEF LoopInv
<1>11. ASSUME NEW i \in DOMAIN s.completed
       PROVE  s.completed[i].ts < s.curr.ts /\ s.completed[i].ts \in Int
  <2>1. s.completed[i] \in Bar
    BY <1>2
  <2>2. s.completed[i].ts \in Minutes
    BY <2>1 DEF Bar
  <2>3. QED
    BY <1>1, <1>10, <2>2 DEF Completes
<1>12. s.curr # NoBar => \/ s.curr = curr /\ curr # NoBar
                         \/ s.curr.ts \in Added /\ s.curr.val = Table[s.curr.ts]
  BY DEF LoopInv
<1> HIDE DEF t
<1>13. Completes(t)
  <2>1. CASE s.curr = NoBar
    <3>1. t.completed = s.completed /\ t.curr.ts = m + 1 /\ s.curr.ts = -1
      BY <1>4, <1>6, <2>1
    <3>2. \A i \in DOMAIN t.completed : t.completed[i].ts < t.curr.ts
      BY <1>1, <1>4, <1>5, <1>11, <3>1
    <3>3. ASSUME NEW x \in opened \union Added, x < t.curr.ts PROVE FALSE
      <4>1. x <= -1
        BY <1>8, <3>1, <3>3
      <4>2. x \in Minutes /\ ~(x < -1) /\ x # -1 /\ x \in Int
        BY <1>1
      <4>3. QED
        BY <4>1, <4>2
    <3>4. QED
      BY <1>10, <3>1, <3>2, <3>3 DEF Completes
  <2>2. CASE s.curr # NoBar
    <3> DEFINE n == Len(s.completed)
    <3>1. t.completed = Append(s.completed, s.curr) /\ t.curr.ts = m + 1 /\ s.curr \in Bar
      BY <1>2, <1>6, <2>2
    <3>2. /\ n \in Nat /\ DOMAIN s.completed = 1 .. n /\ DOMAIN t.completed = 1 .. n + 1
          /\ \A i \in DOMAIN s.completed : i \in DOMAIN t.completed /\ t.completed[i] = s.completed[i]
          /\ t.completed[n + 1] = s.curr
          /\ n + 1 \in DOMAIN t.completed
          /\ \A i \in DOMAIN t.completed : i \in DOMAIN s.completed \/ i = n + 1
      BY <1>2, <3>1, Appended
    <3> HIDE DEF n
    <3>3. \A i \in DOMAIN s.completed : s.completed[i].ts < s.curr.ts /\ s.completed[i].ts \in Int
      BY <1>11
    <3>4. ASSUME NEW i \in DOMAIN t.completed PROVE t.completed[i].ts < t.curr.ts
      BY <1>1, <1>4, <1>5, <3>1, <3>2, <3>3
    <3>5. ASSUME NEW i \in DOMAIN t.completed, NEW j \in DOMAIN t.completed, i < j
          PROVE  t.completed[i].ts < t.completed[j].ts
      <4>1. i \in DOMAIN s.completed
        BY <3>2, <3>5
      <4>2. CASE j \in DOMAIN s.completed
        BY <1>10, <3>2, <3>5, <4>1, <4>2 DEF Completes
      <4>3. CASE j = n + 1
        BY <3>2, <3>3, <4>1, <4>3
      <4>4. QED
        BY <3>2, <4>2, <4>3
    <3>6. ASSUME NEW x \in opened \union Added, x < t.curr.ts
          PROVE  \E i \in DOMAIN t.completed : t.completed[i].ts = x
      <4>1. x <= s.curr.ts
        BY <1>8, <3>1, <3>6
      <4>2. CASE x = s.curr.ts
        BY <3>2, <4>2
      <4>3. CASE x < s.curr.ts
        <5>1. PICK i \in DOMAIN s.completed : s.completed[i].ts = x
          BY <1>10, <4>3 DEF Completes
        <5>2. QED
          BY <3>2, <5>1
      <4>4. QED
        BY <1>1, <1>4, <4>1, <4>2, <4>3
    <3>7. ASSUME NEW i \in DOMAIN t.completed
          PROVE  \/ \E j \in DOMAIN completed : t.completed[i] = completed[j]
                 \/ t.completed[i] = curr /\ curr # NoBar
                 \/ t.completed[i].ts \in Added /\ t.completed[i].val = Table[t.completed[i].ts]
      <4>1. CASE i \in DOMAIN s.completed
        BY <1>10, <3>2, <4>1 DEF Completes
      <4>2. CASE i = n + 1
        BY <1>12, <2>2, <3>2, <4>2
      <4>3. QED
        BY <3>2, <4>1, <4>2
    <3>8. QED
      BY <3>4, <3>5, <3>6, <3>7 DEF Completes
  <2>3. QED
    BY <2>1, <2>2
<1>14. /\ t.curr.ts \in Added /\ t.curr.ts <= m + 1 /\ t.curr.val = Table[t.curr.ts]
       /\ \A x \in Added : x <= m + 1 => x <= t.curr.ts
  BY <1>1, <1>6
<1>15. LoopInv(t, m + 1)
  BY <1>9, <1>13, <1>14 DEF LoopInv
<1>16. QED
  BY <1>15 DEF t

LEMMA LoopCompletes ==
  ASSUME TypeOK, ~late, CompleteInv, \A x \in Added : curr.ts < x
  PROVE  LoopInv(AddLoop[MaxMinute], MaxMinute)
<1> DEFINE S == {m \in -1 .. MaxMinute : LoopInv(AddLoop[m], m)}
<1>1. Added \subseteq Minutes /\ Minutes \subseteq Int /\ curr.ts \in Int
  <2>1. Added \subseteq Minutes /\ curr \in Bar \union {NoBar}
    BY DEF Added, RowsOf, TypeOK
  <2>2. Minutes \subseteq Int
    BY DEF Minutes
  <2>3. curr.ts \in Int
    BY <2>1, BarMinute
  <2>4. QED
    BY <2>1, <2>2, <2>3
<1>2. -1 \in S
  <2>1. AddLoop[-1] = [curr |-> curr, completed |-> completed]
    BY LoopSteps
  <2>2. AddLoop[-1] \in Result /\ -1 \in -1 .. MaxMinute
    BY LoopType
  <2> DEFINE s == AddLoop[-1]
  <2>3. s.curr = curr /\ s.completed = completed /\ s \in Result
    BY <2>1, <2>2
  <2> HIDE DEF s
  <2>4. \A x \in Added : -1 < x /\ ~(x < curr.ts)
    BY <1>1 DEF Minutes
  <2>5. Completes(s)
    BY <2>3, <2>4 DEF Completes, CompleteInv, HeldInv, CompletedOnce
  <2>6. LoopInv(s, -1)
    BY <2>3, <2>4, <2>5 DEF LoopInv
  <2>7. QED
    BY <2>2, <2>6 DEF s
<1>3. ASSUME NEW m \in -1 .. MaxMinute - 1, m \in S
      PROVE  m + 1 \in S
  <2>1. /\ m + 1 \in Minutes /\ m + 1 \in -1 .. MaxMinute /\ m \in Int
        /\ AddLoop[m + 1] = IF m + 1 \in Added THEN AddBar(AddLoop[m], m + 1) ELSE AddLoop[m]
    <3>1. m + 1 \in Minutes /\ m + 1 \in -1 .. MaxMinute /\ (m + 1) - 1 = m /\ m \in Int
      BY DEF Minutes
    <3>2. QED
      BY <3>1, LoopSteps
  <2>2. LoopInv(AddLoop[m], m)
    BY <1>3
  <2>3. CASE m + 1 \in Added
    <3>1. LoopInv(AddBar(AddLoop[m], m + 1), m + 1)
      BY <2>2, <2>3, AddKeeps
    <3>2. QED
      BY <2>1, <2>3, <3>1
  <2>4. CASE m + 1 \notin Added
    <3> DEFINE s == AddLoop[m]
    <3>1. LoopInv(s, m)
      BY <2>2
    <3> HIDE DEF s
    <3>2. \A x \in Added : (m < x => m + 1 < x) /\ (x <= m + 1 => x <= m)
      BY <1>1, <2>1, <2>4
    <3>3. s.curr.ts \in Added /\ s.curr.ts <= m => s.curr.ts <= m + 1
      <4>1. \A x \in Int : x <= m => x <= m + 1
        BY <2>1
      <4>2. QED
        BY <1>1, <4>1
    <3>4. LoopInv(s, m + 1)
      BY <3>1, <3>2, <3>3 DEF LoopInv
    <3>5. QED
      BY <2>1, <2>4, <3>4 DEF s
  <2>5. QED
    BY <2>3, <2>4
<1> HIDE DEF S
<1>4. -1 .. MaxMinute \subseteq S
  BY <1>2, <1>3, IntervalInduction
<1>5. MaxMinute \in S
  BY <1>4
<1>6. QED
  BY <1>5 DEF S

\* While nothing was told late, the added rows are newer than the rows told of, and the
\* last modified row is the newest of the modified ones.
LEMMA AddedAreNewer ==
  ASSUME TypeOK, OrderInv, HeldInv, OnUpdate, ~late'
  PROVE  /\ \A m \in Added, x \in RowsOf(seen) : x < m
         /\ \A m \in Added : curr.ts < m
         /\ Modified # {} => /\ LastModified \in Modified
                             /\ \A x \in Modified : x <= LastModified
         /\ curr = NoBar /\ Modified # {} /\ Added = {} =>
              \A x \in RowsOf(seen) : x <= LastModified
<1> DEFINE newest == Max({-1} \union RowsOf(seen))
<1>1. /\ ~late
      /\ \A m \in Added : ~(m < newest)
      /\ curr = NoBar /\ Modified # {} /\ Added = {} => ~(LastModified < newest)
  BY DEF OnUpdate
<1>2. /\ RowsOf(seen) \subseteq Minutes /\ Added \subseteq Minutes
      /\ Modified \subseteq RowsOf(seen) /\ Added \intersect RowsOf(seen) = {}
  BY DEF Added, Modified, RowsOf
<1>3. Minutes \subseteq Int /\ \A m \in Minutes : -1 < m
  BY DEF Minutes
<1>4. newest \in Int /\ \A m \in RowsOf(seen) : m <= newest
  BY <1>2, LastBar
<1> HIDE DEF newest
<1>5. ASSUME NEW m \in Added, NEW x \in RowsOf(seen) PROVE x < m
  <2>1. ~(m < newest) /\ x <= newest /\ x # m /\ m \in Int /\ x \in Int
    BY <1>1, <1>2, <1>3, <1>4
  <2>2. QED
    BY <1>4, <2>1
<1>6. \A m \in Added : curr.ts < m
  <2>1. CASE curr = NoBar
    BY <1>2, <1>3, <2>1 DEF NoBar
  <2>2. CASE curr # NoBar
    BY <1>1, <1>5, <2>2 DEF HeldInv
  <2>3. QED
    BY <2>1, <2>2
<1>7. ASSUME Modified # {}
      PROVE  LastModified \in Modified /\ \A x \in Modified : x <= LastModified
  <2>1. /\ LastModified \in Modified
        /\ \A x \in Modified : <<LastModified, x>> \notin order
    BY <1>7, LastOfModified
  <2>2. ASSUME NEW x \in Modified PROVE x <= LastModified
    <3>1. LastModified \in RowsOf(seen) /\ x \in RowsOf(seen) /\ LastModified \in Int /\ x \in Int
      BY <1>2, <1>3, <2>1
    <3>2. ~(LastModified < x)
      BY <1>1, <2>1, <3>1 DEF HeldInv, InTimeOrder
    <3>3. QED
      BY <3>1, <3>2
  <2>3. QED
    BY <2>1, <2>2
<1>8. ASSUME curr = NoBar, Modified # {}, Added = {}, NEW x \in RowsOf(seen)
      PROVE  x <= LastModified
  <2>1. /\ ~(LastModified < newest) /\ LastModified \in Int
        /\ x \in Int /\ x <= newest
    BY <1>1, <1>2, <1>3, <1>4, <1>7, <1>8
  <2>2. QED
    BY <1>4, <2>1
<1>9. QED
  BY <1>5, <1>6, <1>7, <1>8

LEMMA UpdateOrder ==
  ASSUME TypeOK, OrderInv, HeldInv, OnUpdate, ~late'
  PROVE  RowsOf(seen)' = RowsOf(Table) /\ order' = InTimeOrder(RowsOf(Table))
<1> DEFINE rows == RowsOf(Table)
<1>1. /\ order' = ((order \union ((rows \ Added) \X Added)) \intersect (rows \X rows))
                    \union InTimeOrder(Added)
      /\ seen' = Table /\ ~late
  BY DEF OnUpdate
<1>2. /\ rows \subseteq Int /\ Added \subseteq rows
      /\ \A x \in rows : x \in Added <=> x \notin RowsOf(seen)
  BY DEF Added, RowsOf, Minutes
<1>3. order = InTimeOrder(RowsOf(seen))
  BY <1>1 DEF HeldInv
<1>4. \A m \in Added, x \in RowsOf(seen) : x < m
  BY AddedAreNewer
<1>5. RowsOf(seen)' = rows
  BY <1>1 DEF RowsOf
<1> HIDE DEF rows
<1>6. ASSUME NEW x \in rows, NEW y \in rows PROVE <<x, y>> \in order' <=> x < y
  <2>1. x \in Int /\ y \in Int
    BY <1>2
  <2>2. <<x, y>> \in order' <=> \/ <<x, y>> \in order
                                \/ x \notin Added /\ y \in Added
                                \/ x \in Added /\ y \in Added /\ x < y
    BY <1>1 DEF InTimeOrder
  <2>3. <<x, y>> \in order <=> x \in RowsOf(seen) /\ y \in RowsOf(seen) /\ x < y
    BY <1>3 DEF InTimeOrder
  <2>4. /\ x \in RowsOf(seen) /\ y \in Added => x < y
        /\ x \in Added /\ y \in RowsOf(seen) => ~(x < y)
    BY <1>4, <2>1
  <2>5. QED
    BY <1>2, <2>2, <2>3, <2>4
<1>7. order' \subseteq rows \X rows
  BY <1>1, <1>2 DEF InTimeOrder
<1>8. order' = InTimeOrder(rows)
  BY <1>6, <1>7 DEF InTimeOrder
<1>9. QED
  BY <1>5, <1>8 DEF rows

\* The bar the listener holds after an update, and the one the loop left.
LEMMA UpdateCurrent ==
  ASSUME TypeOK, OrderInv, FedInv, CompleteInv, OnUpdate, ~late'
  PROVE  LET s == AddLoop[MaxMinute]
         IN  /\ curr' \in Bar \union {NoBar}
             /\ curr' = NoBar => Added = {} /\ opened = {} /\ s.completed = <<>>
             /\ curr' # NoBar => /\ curr'.ts \in RowsOf(Table) /\ Table[curr'.ts] = curr'.val
                                 /\ \A m \in RowsOf(Table) : m <= curr'.ts
             /\ \/ s.curr.ts = curr'.ts /\ curr.ts <= curr'.ts
                \/ opened \union Added = {} /\ s.completed = <<>>
<1> DEFINE s == AddLoop[MaxMinute]
<1>1. /\ lsn /\ ~late
      /\ curr' = IF Modified = {} THEN s.curr ELSE ModifyBar(s.curr, LastModified)
  BY DEF OnUpdate
<1>2. /\ RowsOf(seen) \subseteq Minutes /\ RowsOf(Table) \subseteq Minutes
      /\ Added \subseteq RowsOf(Table) /\ Modified \subseteq RowsOf(Table)
      /\ Modified \subseteq RowsOf(seen) /\ RowsOf(Table) \ Added \subseteq RowsOf(seen)
      /\ \A m \in RowsOf(Table) : m \in RowsOf(seen) /\ m \notin Modified => Table[m] = seen[m]
  BY DEF Added, Modified, RowsOf
<1>3. Minutes \subseteq Int /\ -1 \notin Minutes
  BY DEF Minutes
<1>4. /\ \A m \in Added, x \in RowsOf(seen) : x < m
      /\ \A m \in Added : curr.ts < m
      /\ Modified # {} => LastModified \in Modified /\ \A x \in Modified : x <= LastModified
      /\ curr = NoBar /\ Modified # {} /\ Added = {} => \A x \in RowsOf(seen) : x <= LastModified
  BY AddedAreNewer DEF CompleteInv
<1>5. LoopInv(s, MaxMinute)
  BY <1>1, <1>4, LoopCompletes
<1>6. \A x \in Added : x <= MaxMinute /\ ~(MaxMinute < x)
  BY <1>2 DEF Minutes
<1> HIDE DEF s
<1>7. \/ s.curr = curr /\ s.completed = completed /\ Added = {}
      \/ /\ s.curr.ts \in Added /\ s.curr.val = Table[s.curr.ts]
         /\ \A x \in Added : x <= s.curr.ts
  BY <1>5, <1>6 DEF LoopInv
<1>8. /\ curr \in Bar \union {NoBar} /\ curr.ts \in Int
      /\ curr' \in Bar \union {NoBar} /\ s.curr \in Bar \union {NoBar}
  <2>1. TypeOK'
    BY UpdateType
  <2>2. curr.ts \in Int
    BY BarMinute DEF TypeOK
  <2>3. QED
    BY <1>5, <2>1, <2>2 DEF TypeOK, LoopInv, Result
<1>9. /\ curr = NoBar => opened = {} /\ completed = <<>>
      /\ curr # NoBar => /\ curr.ts \in RowsOf(seen) /\ seen[curr.ts] = curr.val
                         /\ \A m \in RowsOf(seen) : m <= curr.ts
  BY <1>1 DEF CompleteInv, HeldInv
<1>10. CASE Added # {}
  <2>1. /\ s.curr.ts \in Added /\ s.curr.val = Table[s.curr.ts]
        /\ \A x \in Added : x <= s.curr.ts
    BY <1>7, <1>10
  <2>2. s.curr # NoBar /\ s.curr.ts \in Int
    <3>1. s.curr.ts \in Minutes
      BY <1>2, <2>1
    <3>2. QED
      BY <1>3, <3>1, BarMinute
  <2>3. curr' = s.curr
    <3>1. CASE Modified # {}
      <4>1. LastModified < s.curr.ts /\ LastModified \in Int
        BY <1>2, <1>3, <1>4, <2>1, <3>1
      <4>2. ~(LastModified >= s.curr.ts)
        BY <2>2, <4>1
      <4>3. QED
        BY <1>1, <2>2, <3>1, <4>2 DEF ModifyBar
    <3>2. QED
      BY <1>1, <3>1
  <2>4. ASSUME NEW m \in RowsOf(Table) PROVE m <= s.curr.ts
    <3>1. CASE m \in Added
      BY <2>1, <3>1
    <3>2. CASE m \notin Added
      <4>1. m < s.curr.ts /\ m \in Int
        BY <1>2, <1>3, <1>4, <2>1, <3>2
      <4>2. QED
        BY <2>2, <4>1
    <3>3. QED
      BY <3>1, <3>2
  <2>5. curr.ts <= s.curr.ts
    <3>1. curr.ts < s.curr.ts
      BY <1>4, <2>1
    <3>2. QED
      BY <1>8, <2>2, <3>1
  <2>6. QED
    BY <1>2, <1>8, <2>1, <2>2, <2>3, <2>4, <2>5 DEF s
<1>11. CASE Added = {} /\ curr # NoBar
  <2>1. s.curr = curr /\ RowsOf(Table) \subseteq RowsOf(seen)
    BY <1>2, <1>7, <1>11
  <2>2. curr.ts \in RowsOf(Table)
    <3>1. PICK x \in RowsOf(Table) : curr.ts <= x
      BY <1>1, <1>9, <1>11 DEF FedInv
    <3>2. x <= curr.ts /\ x \in Int
      BY <1>2, <1>3, <1>9, <1>11, <2>1
    <3>3. x = curr.ts
      BY <1>8, <3>1, <3>2
    <3>4. QED
      BY <3>1, <3>3
  <2>3. curr'.ts = curr.ts /\ curr'.val = Table[curr.ts]
    <3>1. CASE curr.ts \notin Modified
      <4>1. curr.val = Table[curr.ts]
        BY <1>2, <1>9, <1>11, <2>2, <3>1
      <4>2. CASE Modified = {}
        BY <1>1, <2>1, <4>1, <4>2
      <4>3. CASE Modified # {}
        <5>1. LastModified <= curr.ts /\ LastModified # curr.ts /\ LastModified \in Int
          BY <1>2, <1>3, <1>4, <1>9, <1>11, <3>1, <4>3
        <5>2. ~(LastModified >= curr.ts)
          BY <1>8, <5>1
        <5>3. QED
          BY <1>1, <1>11, <2>1, <4>1, <4>3, <5>2 DEF ModifyBar
      <4>4. QED
        BY <4>2, <4>3
    <3>2. CASE curr.ts \in Modified
      <4>1. LastModified <= curr.ts /\ curr.ts <= LastModified /\ LastModified \in Int
        BY <1>2, <1>3, <1>4, <1>9, <1>11, <3>2
      <4>2. LastModified = curr.ts /\ LastModified >= curr.ts
        BY <1>8, <4>1
      <4>3. QED
        BY <1>1, <2>1, <3>2, <4>2 DEF ModifyBar
    <3>3. QED
      BY <3>1, <3>2
  <2>4. curr' # NoBar
    BY <1>2, <1>3, <2>2, <2>3 DEF NoBar
  <2>5. curr.ts <= curr.ts
    BY <1>8
  <2>6. QED
    BY <1>8, <1>9, <1>11, <2>1, <2>2, <2>3, <2>4, <2>5 DEF s
<1>12. CASE Added = {} /\ curr = NoBar
  <2>1. s.curr = NoBar /\ s.completed = <<>> /\ opened = {} /\ RowsOf(Table) \subseteq RowsOf(seen)
    BY <1>2, <1>7, <1>9, <1>12, <1>3 DEF NoBar
  <2>2. CASE Modified = {}
    BY <1>1, <1>8, <1>12, <2>1, <2>2 DEF s
  <2>3. CASE Modified # {}
    <3>1. curr' = [ts |-> LastModified, val |-> Table[LastModified]]
      BY <1>1, <2>1, <2>3 DEF ModifyBar
    <3>2. /\ LastModified \in RowsOf(Table)
          /\ \A m \in RowsOf(Table) : m <= LastModified
      BY <1>2, <1>4, <1>12, <2>1, <2>3
    <3>3. curr' # NoBar
      BY <1>2, <1>3, <3>1, <3>2 DEF NoBar
    <3>4. QED
      BY <1>8, <1>12, <2>1, <3>1, <3>2, <3>3 DEF s
  <2>4. QED
    BY <2>2, <2>3
<1>13. QED
  BY <1>10, <1>11, <1>12

\* An update keeps what the listener holds and completes.
LEMMA UpdateCompletes ==
  ASSUME TypeOK, OrderInv, FedInv, CompleteInv, OnUpdate, ~late'
  PROVE  CompleteInv'
<1> DEFINE s == AddLoop[MaxMinute]
<1>1. /\ seen' = Table /\ ~late /\ completed' = s.completed
      /\ opened' = opened \union Added \union ({curr'.ts} \ {-1})
      /\ changed' = changed \union {m \in Modified : m < curr'.ts}
  BY DEF OnUpdate
<1>2. /\ curr' \in Bar \union {NoBar}
      /\ curr' = NoBar => Added = {} /\ opened = {} /\ s.completed = <<>>
      /\ curr' # NoBar => /\ curr'.ts \in RowsOf(Table) /\ Table[curr'.ts] = curr'.val
                          /\ \A m \in RowsOf(Table) : m <= curr'.ts
      /\ \/ s.curr.ts = curr'.ts /\ curr.ts <= curr'.ts
         \/ opened \union Added = {} /\ s.completed = <<>>
  BY UpdateCurrent
<1>3. /\ Minutes \subseteq Int /\ opened \subseteq Minutes /\ Added \subseteq RowsOf(Table)
      /\ curr.ts \in Int /\ curr'.ts \in Int
  <2>1. Minutes \subseteq Int /\ -1 \in Int
    BY DEF Minutes
  <2>2. opened \subseteq Minutes /\ Added \subseteq RowsOf(Table) /\ curr \in Bar \union {NoBar}
    BY DEF TypeOK, Added
  <2>3. curr.ts \in Int /\ curr'.ts \in Int
    BY <1>2, <2>2, BarMinute
  <2>4. QED
    BY <2>1, <2>2, <2>3
<1>4. Completes(s) /\ s.completed \in Seq(Bar)
  <2>1. \A m \in Added : curr.ts < m
    BY AddedAreNewer DEF CompleteInv
  <2>2. LoopInv(s, MaxMinute)
    BY <1>1, <2>1, LoopCompletes
  <2> HIDE DEF s
  <2>3. QED
    BY <2>2 DEF LoopInv, Result
<1>5. /\ curr # NoBar => curr.ts \in RowsOf(seen) /\ seen[curr.ts] = curr.val
      /\ \A m \in opened : m <= curr.ts
      /\ \A i \in DOMAIN completed : completed[i].ts < curr.ts
      /\ \A i \in DOMAIN completed :
           completed[i].ts \in changed \/ seen[completed[i].ts] \in {-1, completed[i].val}
  BY <1>1 DEF CompleteInv, HeldInv, CompletedContent
<1> HIDE DEF s
<1>6. HeldInv'
  <2>1. order' = InTimeOrder(RowsOf(seen)') /\ RowsOf(seen)' = RowsOf(Table)
    BY UpdateOrder DEF CompleteInv
  <2>2. curr' = NoBar => opened' = {} /\ completed' = <<>>
    BY <1>1, <1>2 DEF NoBar
  <2>3. curr' # NoBar => /\ curr'.ts \in RowsOf(seen)' /\ seen'[curr'.ts] = curr'.val
                         /\ \A m \in RowsOf(seen)' : m <= curr'.ts
    BY <1>1, <1>2, <2>1
  <2>4. ASSUME NEW m \in opened' PROVE m <= curr'.ts
    <3>1. CASE m \in opened
      <4>1. m <= curr.ts /\ curr.ts <= curr'.ts /\ m \in Int
        BY <1>2, <1>3, <1>5, <3>1
      <4>2. QED
        BY <1>3, <4>1
    <3>2. CASE m \in Added
      BY <1>2, <1>3, <3>2
    <3>3. CASE m = curr'.ts
      BY <1>3, <3>3
    <3>4. QED
      BY <1>1, <3>1, <3>2, <3>3
  <2>5. \A i \in DOMAIN completed' : completed'[i].ts < curr'.ts
    BY <1>1, <1>2, <1>4 DEF Completes
  <2>6. QED
    BY <2>1, <2>2, <2>3, <2>4, <2>5 DEF HeldInv
<1>7. CompletedOnce'
  <2>1. \A i, j \in DOMAIN completed' : i < j => completed'[i].ts < completed'[j].ts
    BY <1>1, <1>4 DEF Completes
  <2>2. ASSUME NEW m \in opened', m < curr'.ts
        PROVE  \E i \in DOMAIN completed' : completed'[i].ts = m
    <3>1. m # curr'.ts
      BY <1>3, <2>2
    <3>2. m \in opened \union Added
      BY <1>1, <3>1
    <3>3. m < s.curr.ts
      BY <1>2, <2>2, <3>2
    <3>4. QED
      BY <1>1, <1>4, <3>2, <3>3 DEF Completes
  <2>3. QED
    BY <2>1, <2>2 DEF CompletedOnce
<1>8. CompletedContent'
  <2>1. ASSUME NEW i \in DOMAIN completed'
        PROVE  \/ completed'[i].ts \in changed'
               \/ seen'[completed'[i].ts] \in {-1, completed'[i].val}
    <3> DEFINE b == s.completed[i]
    <3>1. completed'[i] = b /\ i \in DOMAIN s.completed
      BY <1>1
    <3>2. b.ts < curr'.ts /\ b.ts \in Minutes /\ s.completed # <<>>
      <4>1. b \in Bar /\ s.completed # <<>>
        BY <1>4, <3>1
      <4>2. b.ts < s.curr.ts
        BY <1>4, <3>1 DEF Completes
      <4>3. QED
        BY <1>2, <4>1, <4>2 DEF Bar
    <3>3. \/ b.ts \in changed
          \/ b.ts \notin Added /\ seen[b.ts] \in {-1, b.val}
          \/ b.ts \in Added /\ b.val = Table[b.ts]
      <4>1. \/ \E j \in DOMAIN completed : b = completed[j]
            \/ b = curr /\ curr # NoBar
            \/ b.ts \in Added /\ b.val = Table[b.ts]
        BY <1>4, <3>1 DEF Completes
      <4>2. \A m \in Added : curr.ts < m /\ m \in Int
        BY <1>3, AddedAreNewer DEF CompleteInv, Added, RowsOf
      <4>3. ASSUME NEW j \in DOMAIN completed, b = completed[j]
            PROVE  \/ b.ts \in changed
                   \/ b.ts \notin Added /\ seen[b.ts] \in {-1, b.val}
        <5>1. b.ts < curr.ts /\ b.ts \in Int
          BY <1>3, <1>5, <3>2, <4>3
        <5>2. b.ts \notin Added
          BY <1>3, <4>2, <5>1
        <5>3. b.ts \in changed \/ seen[b.ts] \in {-1, b.val}
          <6>1. \/ completed[j].ts \in changed
                \/ seen[completed[j].ts] \in {-1, completed[j].val}
            BY <1>5
          <6> HIDE DEF b
          <6>2. QED
            BY <4>3, <6>1
        <5>4. QED
          BY <5>2, <5>3
      <4>4. ASSUME b = curr, curr # NoBar
            PROVE  b.ts \notin Added /\ seen[b.ts] \in {-1, b.val}
        BY <1>5, <4>4 DEF Added
      <4>5. QED
        BY <4>1, <4>3, <4>4
    <3>4. /\ b.ts \notin Added => Table[b.ts] = -1 \/ b.ts \in RowsOf(seen)
          /\ b.ts \in RowsOf(seen) /\ Table[b.ts] # -1 =>
               b.ts \in Modified \/ Table[b.ts] = seen[b.ts]
          /\ b.ts \in RowsOf(seen) => seen[b.ts] # -1
      BY <3>2 DEF Added, Modified, RowsOf
    <3> HIDE DEF b
    <3>5. b.ts \in Modified => b.ts \in changed'
      BY <1>1, <3>2
    <3>6. b.ts \in changed' \/ Table[b.ts] \in {-1, b.val}
      BY <1>1, <3>3, <3>4, <3>5
    <3>7. QED
      BY <1>1, <3>1, <3>6
  <2>2. QED
    BY <2>1 DEF CompletedContent
<1>9. QED
  BY <1>6, <1>7, <1>8 DEF CompleteInv

LEMMA CompleteStep ==
  ASSUME TypeOK, OrderInv, FedInv, CompleteInv, [Next]_vars
  PROVE  CompleteInv'
<1>1. CASE UNCHANGED lsnVars
  BY <1>1 DEF lsnVars, CompleteInv, HeldInv, CompletedOnce, CompletedContent, RowsOf
<1>2. CASE Listen
  <2>1. /\ ~lsn /\ seen' = Table /\ order' = InTimeOrder(RowsOf(Table))
        /\ UNCHANGED <<curr, completed, opened, late, changed>>
    BY <1>2 DEF Listen
  <2>2. curr = NoBar /\ opened = {} /\ completed = <<>>
    BY <2>1 DEF FedInv
  <2>3. RowsOf(seen)' = RowsOf(Table)
    BY <2>1 DEF RowsOf
  <2>4. QED
    BY <2>1, <2>2, <2>3 DEF CompleteInv, HeldInv, CompletedOnce, CompletedContent
<1>3. CASE OnUpdate
  <2>1. CASE late'
    BY <2>1 DEF CompleteInv, HeldInv, CompletedOnce, CompletedContent
  <2>2. CASE ~late'
    BY <1>3, <2>2, UpdateCompletes
  <2>3. QED
    BY <2>1, <2>2
<1>4. QED
  BY <1>1, <1>2, <1>3, Zenon DEF Next, vars, Tick, Trade, Stream, Poll

LEMMA ListenerHolds == Spec => [](TypeOK /\ CompleteInv)
<1>1. Init => FedInv /\ CompleteInv
  <2> SUFFICES ASSUME Init PROVE FedInv /\ CompleteInv
    OBVIOUS
  <2>1. RowsOf(seen) = {}
    BY DEF Init, RowsOf
  <2>2. lsn = FALSE /\ curr = NoBar /\ opened = {} /\ completed = <<>> /\ order = {}
    BY DEF Init
  <2>3. QED
    BY <2>1, <2>2
       DEF FedInv, CompleteInv, HeldInv, CompletedOnce, CompletedContent, InTimeOrder
<1>2. TypeOK /\ OrderInv /\ FedInv /\ CompleteInv /\ [Next]_vars
        => (TypeOK /\ OrderInv /\ FedInv /\ CompleteInv)'
  BY TypeStep, OrderStep, FedStep, CompleteStep
<1>3. QED
  BY <1>1, <1>2, InitType, PTL DEF Spec

\* As long as no minute is told late, the completed bars are in the order of time, each
\* once, and none that the listener has met and passed is missing.
THEOREM BarsCompleteOnce == Spec => []CompletedOnce
BY ListenerHolds, PTL DEF CompleteInv

\* ... and a completed bar that does not agree with the table had its row changed when it
\* was not the current bar any more.
THEOREM BarsCompleteWithContent == Spec => []CompletedContent
BY ListenerHolds, PTL DEF CompleteInv

=============================================================================
