---------------------------- MODULE JournalProofs ----------------------------
(***************************************************************************)
(* What holds of the journal for any rows, batches, replays and failures:  *)
(* its two tables agree, a final row is never replaced by a provisional    *)
(* one, replays converge, and a scan of journal_hot reads its window       *)
(* exactly once.                                                           *)
(***************************************************************************)
EXTENDS Journal, FiniteOrders, SequenceTheorems, FiniteSetTheorems, TLAPS

\* What the proofs need of the types: journal_hot is a list of rows.
HotType == hot \in Seq(Rows)

\* The elements of two lists in a row.
LEMMA RangeOfConcat ==
  ASSUME NEW s \in Seq(Rows), NEW t \in Seq(Rows)
  PROVE  Range(s \o t) = Range(s) \union Range(t)
<1>1. /\ s \o t \in Seq(Rows) /\ Len(s \o t) = Len(s) + Len(t)
      /\ \A i \in 1 .. Len(s) + Len(t) :
           (s \o t)[i] = IF i <= Len(s) THEN s[i] ELSE t[i - Len(s)]
  BY ConcatProperties
<1>2. /\ DOMAIN s = 1 .. Len(s) /\ DOMAIN t = 1 .. Len(t)
      /\ DOMAIN (s \o t) = 1 .. Len(s) + Len(t)
      /\ Len(s) \in Nat /\ Len(t) \in Nat
  BY <1>1
<1>3. Range(s \o t) \subseteq Range(s) \union Range(t)
  BY <1>1, <1>2 DEF Range
<1>4. Range(s) \subseteq Range(s \o t)
  <2>1. \A i \in 1 .. Len(s) : i \in 1 .. Len(s) + Len(t) /\ (s \o t)[i] = s[i]
    BY <1>1, <1>2
  <2>2. QED
    BY <1>2, <2>1 DEF Range
<1>5. Range(t) \subseteq Range(s \o t)
  <2>1. \A i \in 1 .. Len(t) :
          Len(s) + i \in 1 .. Len(s) + Len(t) /\ (s \o t)[Len(s) + i] = t[i]
    BY <1>1, <1>2
  <2>2. QED
    BY <1>2, <2>1 DEF Range
<1>6. QED
  BY <1>3, <1>4, <1>5

\* A batch is a list of rows.
LEMMA EnvelopesAreLists == Envelopes \subseteq Seq(Rows)
<1>1. \A n \in 1 .. MaxRows : [1 .. n -> Rows] \subseteq Seq(Rows)
  BY BoundsAssumption
<1>2. QED
  BY <1>1 DEF Envelopes

\* The keys and the rows of journal_canonical after a merge.
LEMMA MergeResult ==
  ASSUME NEW rows, Merge(rows)
  PROVE  /\ DOMAIN canonical' = DOMAIN canonical \union {NatKey(r) : r \in rows}
         /\ \A k \in DOMAIN canonical' :
              \/ k \in DOMAIN canonical /\ canonical'[k] = canonical[k]
              \/ /\ canonical'[k] \in rows
                 /\ k \in DOMAIN canonical => Overwrites(canonical'[k], canonical[k])
<1>1. PICK best \in [{NatKey(r) : r \in rows} -> rows] : canonical' = Upserted(canonical, best)
  BY DEF Merge
<1>2. DOMAIN canonical' = DOMAIN canonical \union DOMAIN best
  BY <1>1 DEF Upserted
<1>3. \A k \in DOMAIN canonical' :
        canonical'[k] = IF \/ k \notin DOMAIN best
                           \/ k \in DOMAIN canonical /\ ~Overwrites(best[k], canonical[k])
                        THEN canonical[k] ELSE best[k]
  BY <1>1, <1>2 DEF Upserted
<1>4. QED
  BY <1>1, <1>2, <1>3

\* The steps of the journal: an append, or one that leaves both tables alone.
LEMMA StepKinds ==
  ASSUME [Next]_vars
  PROVE  \/ \E rows \in Envelopes : AppendEnvelope(rows)
         \/ UNCHANGED tables
BY Zenon
   DEF Next, vars, tables, feed, AppendFails, Replay, Open, HotPage, CanonicalPage

-----------------------------------------------------------------------------

LEMMA TablesStep ==
  ASSUME HotType, TablesAgree, [Next]_vars
  PROVE  HotType' /\ TablesAgree'
<1>1. ASSUME NEW rows \in Envelopes, AppendEnvelope(rows)
      PROVE  HotType' /\ TablesAgree'
  <2>1. hot' = hot \o rows /\ Merge(Range(rows))
    BY <1>1, Zenon DEF AppendEnvelope
  <2>2. rows \in Seq(Rows)
    BY EnvelopesAreLists
  <2>3. HotType'
    BY <2>1, <2>2, ConcatProperties DEF HotType
  <2>4. Range(hot') = Range(hot) \union Range(rows)
    BY <2>1, <2>2, RangeOfConcat DEF HotType
  <2>5. /\ {NatKey(hot[i]) : i \in DOMAIN hot} = {NatKey(r) : r \in Range(hot)}
        /\ {NatKey(hot'[i]) : i \in DOMAIN hot'} = {NatKey(r) : r \in Range(hot')}
    BY DEF Range
  <2>6. /\ DOMAIN canonical' = DOMAIN canonical \union {NatKey(r) : r \in Range(rows)}
        /\ \A k \in DOMAIN canonical' :
             \/ k \in DOMAIN canonical /\ canonical'[k] = canonical[k]
             \/ canonical'[k] \in Range(rows)
    BY <2>1, MergeResult
  <2>7. DOMAIN canonical' = {NatKey(hot'[i]) : i \in DOMAIN hot'}
    BY <2>4, <2>5, <2>6 DEF TablesAgree
  <2>8. \A k \in DOMAIN canonical' : canonical'[k] \in Range(hot')
    BY <2>4, <2>6 DEF TablesAgree
  <2>9. QED
    BY <2>3, <2>7, <2>8 DEF TablesAgree
<1>2. CASE UNCHANGED tables
  BY <1>2 DEF tables, HotType, TablesAgree, Range
<1>3. QED
  BY <1>1, <1>2, StepKinds

\* The two tables agree after any appends, failed appends and replays.
THEOREM TablesAlwaysAgree == Spec => []TablesAgree
<1>1. Init => HotType /\ TablesAgree
  BY DEF Init, HotType, TablesAgree, Range
<1>2. HotType /\ TablesAgree /\ [Next]_vars => (HotType /\ TablesAgree)'
  BY TablesStep
<1>3. QED
  BY <1>1, <1>2, PTL DEF Spec

\* No order of live, backfilled and replayed rows replaces a final row by a
\* provisional one.
THEOREM FinalRowsStay == Spec => FinalStays
<1>1. [Next]_vars => [\A k \in DOMAIN canonical :
                        canonical[k].final =>
                          k \in DOMAIN canonical' /\ canonical'[k].final]_canonical
  <2> SUFFICES ASSUME [Next]_vars, NEW k \in DOMAIN canonical, canonical[k].final,
                      canonical' # canonical
               PROVE  k \in DOMAIN canonical' /\ canonical'[k].final
    OBVIOUS
  <2>1. PICK rows \in Envelopes : AppendEnvelope(rows)
    BY StepKinds DEF tables
  <2>2. Merge(Range(rows))
    BY <2>1, Zenon DEF AppendEnvelope
  <2>3. /\ k \in DOMAIN canonical'
        /\ canonical'[k] = canonical[k] \/ Overwrites(canonical'[k], canonical[k])
    BY <2>2, MergeResult
  <2>4. QED
    BY <2>3 DEF Overwrites
<1>2. QED
  BY <1>1, PTL DEF Spec, FinalStays

-----------------------------------------------------------------------------
(* A page of a scan *)

\* The order of a scan is transitive.
LEMMA EarlierTransitive ==
  ASSUME NEW S, S \subseteq Int, NEW time, \A v \in S : time[v] \in Int,
         NEW w \in S, NEW x \in S, NEW y \in S,
         Earlier(w, x, time), Earlier(x, y, time)
  PROVE  Earlier(w, y, time)
<1>1. /\ time[w] \in Int /\ time[x] \in Int /\ time[y] \in Int
      /\ w \in Int /\ x \in Int /\ y \in Int
  OBVIOUS
<1>2. QED
  BY <1>1 DEF Earlier

\* In the order of a scan, a finite set that is not empty has a first and a last element.
LEMMA Extremes ==
  ASSUME NEW S, IsFiniteSet(S), S \subseteq Int, S # {},
         NEW time, \A x \in S : time[x] \in Int
  PROVE  /\ \E x \in S : \A y \in S : ~Earlier(y, x, time)
         /\ \E x \in S : \A y \in S : ~Earlier(x, y, time)
<1> DEFINE R == {p \in S \X S : Earlier(p[1], p[2], time)}
<1>1. \A x, y \in S : <<x, y>> \in R <=> Earlier(x, y, time)
  OBVIOUS
<1> HIDE DEF R
<1>2. \A x \in S : ~Earlier(x, x, time)
  BY DEF Earlier
<1>3. \A x, y \in S : x = y \/ Earlier(x, y, time) \/ Earlier(y, x, time)
  BY DEF Earlier
<1>4. StrictOrder(R, S)
  BY <1>1, <1>2, <1>3, EarlierTransitive DEF StrictOrder
<1>5. /\ \E x \in S : \A y \in S : <<y, x>> \notin R
      /\ \E x \in S : \A y \in S : <<x, y>> \notin R
  BY <1>4, FirstAndLast, Zenon
<1>6. QED
  BY <1>1, <1>5

\* A page of unread elements: it is empty only when there are none, its last element is one
\* of it that none of it follows, and with an element it has every unread earlier one.
LEMMA PageCuts ==
  ASSUME NEW unread, IsFiniteSet(unread), unread \subseteq Int,
         NEW time, \A x \in unread : time[x] \in Int
  PROVE  /\ Page(unread, time) \subseteq unread
         /\ Page(unread, time) = {} => unread = {}
         /\ Page(unread, time) # {} =>
              /\ LastOf(Page(unread, time), time) \in Page(unread, time)
              /\ \A y \in Page(unread, time) : ~Earlier(LastOf(Page(unread, time), time), y, time)
              /\ \A y \in unread : Earlier(y, LastOf(Page(unread, time), time), time)
                                     => y \in Page(unread, time)
<1> DEFINE Before(x) == {y \in unread : Earlier(y, x, time)}
           page == Page(unread, time)
           last == LastOf(page, time)
<1>1. page = {x \in unread : Cardinality(Before(x)) < PageRows} /\ page \subseteq unread
  BY DEF Page
<1>2. unread # {} => page # {}
  <2> SUFFICES ASSUME unread # {} PROVE page # {}
    OBVIOUS
  <2>1. PICK x \in unread : \A y \in unread : ~Earlier(y, x, time)
    BY Extremes
  <2>2. Before(x) = {}
    BY <2>1
  <2>3. Cardinality(Before(x)) = 0 /\ 0 < PageRows
    BY <2>2, FS_EmptySet, BoundsAssumption
  <2> HIDE DEF Before, page
  <2>4. QED
    BY <1>1, <2>1, <2>3
<1>3. page # {} => last \in page /\ \A y \in page : ~Earlier(last, y, time)
  <2> SUFFICES ASSUME page # {} PROVE last \in page /\ \A y \in page : ~Earlier(last, y, time)
    OBVIOUS
  <2>1. IsFiniteSet(page)
    BY <1>1, FS_Subset
  <2> HIDE DEF page
  <2>2. \E x \in page : \A y \in page : ~Earlier(x, y, time)
    BY <1>1, <2>1, Extremes
  <2>3. last = CHOOSE x \in page : \A y \in page : ~Earlier(x, y, time)
    BY DEF LastOf
  <2> HIDE DEF last
  <2>4. QED
    BY <2>2, <2>3
<1> HIDE DEF page, last
<1>4. ASSUME page # {}, NEW y \in unread, Earlier(y, last, time)
      PROVE  y \in page
  <2>1. last \in unread
    BY <1>1, <1>3, <1>4
  <2>2. Before(y) \in SUBSET Before(last)
    BY <1>4, <2>1, EarlierTransitive
  <2>3. IsFiniteSet(Before(last)) /\ Before(last) \in SUBSET unread
    BY FS_Subset
  <2> HIDE DEF Before
  <2>4. Cardinality(Before(y)) <= Cardinality(Before(last)) /\ IsFiniteSet(Before(y))
    BY <2>2, <2>3, FS_Subset
  <2>5. Cardinality(Before(y)) \in Nat /\ Cardinality(Before(last)) \in Nat
    BY <2>3, <2>4, FS_CardinalityType
  <2>6. Cardinality(Before(last)) < PageRows
    BY <1>1, <1>3, <1>4
  <2>7. QED
    BY <1>1, <2>4, <2>5, <2>6, BoundsAssumption
<1>5. QED
  BY <1>1, <1>2, <1>3, <1>4 DEF page, last

-----------------------------------------------------------------------------
(* Types *)

FeedTypes ==
  /\ log \in Seq(Envelopes) /\ Len(log) <= NBatches
  /\ pos \in 1 .. Len(log) + 1
  /\ failed \subseteq 1 .. NBatches
  /\ replays \in 0 .. MaxReplays
  /\ faults \in 0 .. MaxFaults

ScanTypes ==
  scan \in [table : {"none", "hot", "canonical"}, open : BOOLEAN, t : Nat, tie : Int,
            got : SUBSET Nat, again : BOOLEAN, upTo : Nat]

\* What the rows and the keys of the tables are.
LEMMA TableTypes ==
  ASSUME HotType, TablesAgree
  PROVE  /\ DOMAIN hot = 1 .. Len(hot) /\ Len(hot) \in Nat /\ IsFiniteSet(DOMAIN hot)
         /\ \A i \in DOMAIN hot : hot[i] \in Rows /\ hot[i].ts \in Nat
         /\ DOMAIN canonical \subseteq Keys /\ DOMAIN canonical \subseteq Nat
         /\ IsFiniteSet(DOMAIN canonical)
         /\ \A k \in DOMAIN canonical : canonical[k] \in Rows /\ canonical[k].ts \in Nat
<1>1. DOMAIN hot = 1 .. Len(hot) /\ Len(hot) \in Nat
  BY DEF HotType
<1>2. IsFiniteSet(DOMAIN hot)
  BY <1>1, FS_Interval
<1>3. \A i \in DOMAIN hot : hot[i] \in Rows
  BY <1>1 DEF HotType
<1>4. \A r \in Rows : NatKey(r) \in Keys /\ NatKey(r) \in Nat /\ r.ts \in Nat
  BY RowsAssumption DEF Keys, NatKey
<1>5. \A k \in DOMAIN canonical : canonical[k] \in Rows
  BY <1>3 DEF TablesAgree, Range
<1>6. DOMAIN canonical \subseteq Keys /\ DOMAIN canonical \subseteq Nat
  BY <1>3, <1>4 DEF TablesAgree
<1>7. IsFiniteSet(DOMAIN canonical)
  <2> DEFINE key == [i \in DOMAIN hot |-> NatKey(hot[i])]
  <2>1. key \in Surjection(DOMAIN hot, DOMAIN canonical)
    BY DEF TablesAgree, Surjection
  <2> HIDE DEF key
  <2>2. QED
    BY <1>2, <2>1, FS_Surjection
<1>8. QED
  BY <1>1, <1>2, <1>3, <1>4, <1>5, <1>6, <1>7

\* A batch handed over extends the log within its bound, if it is new.
LEMMA HandedTypes ==
  ASSUME FeedTypes, NEW rows \in Envelopes, Handed(rows)
  PROVE  /\ log' \in Seq(Envelopes) /\ Len(log') <= NBatches
         /\ pos \in 1 .. Len(log')
<1>1. Len(log) \in Nat /\ NBatches \in Nat
  BY BoundsAssumption DEF FeedTypes
<1>2. CASE pos <= Len(log) /\ log' = log
  BY <1>1, <1>2 DEF FeedTypes
<1>3. CASE pos > Len(log) /\ Len(log) < NBatches /\ log' = Append(log, rows)
  <2>1. log' \in Seq(Envelopes) /\ Len(log') = Len(log) + 1
    BY <1>3, AppendProperties DEF FeedTypes
  <2>2. QED
    BY <1>1, <1>3, <2>1 DEF FeedTypes
<1>4. QED
  BY <1>2, <1>3 DEF Handed

LEMMA FeedStep ==
  ASSUME FeedTypes, [Next]_vars
  PROVE  FeedTypes'
<1>1. /\ Len(log) \in Nat /\ NBatches \in Nat /\ MaxReplays \in Nat /\ MaxFaults \in Nat
      /\ pos \in Nat /\ replays \in Nat /\ faults \in Nat
  BY BoundsAssumption DEF FeedTypes
<1>2. ASSUME NEW rows \in Envelopes, AppendEnvelope(rows)
      PROVE  FeedTypes'
  <2>1. /\ Handed(rows) /\ pos' = pos + 1
        /\ failed' = failed /\ replays' = replays /\ faults' = faults
    BY <1>2, Zenon DEF AppendEnvelope
  <2>2. log' \in Seq(Envelopes) /\ Len(log') <= NBatches /\ pos \in 1 .. Len(log')
    BY <2>1, HandedTypes
  <2>3. Len(log') \in Nat
    BY <2>2
  <2>4. QED
    BY <1>1, <2>1, <2>2, <2>3 DEF FeedTypes
<1>3. ASSUME NEW rows \in Envelopes, AppendFails(rows)
      PROVE  FeedTypes'
  <2>1. /\ Handed(rows) /\ pos' = pos + 1 /\ faults < MaxFaults
        /\ failed' = failed \union {pos} /\ replays' = replays /\ faults' = faults + 1
    BY <1>3, Zenon DEF AppendFails
  <2>2. log' \in Seq(Envelopes) /\ Len(log') <= NBatches /\ pos \in 1 .. Len(log')
    BY <2>1, HandedTypes
  <2>3. Len(log') \in Nat /\ pos \in 1 .. NBatches
    BY <1>1, <2>2
  <2>4. QED
    BY <1>1, <2>1, <2>2, <2>3 DEF FeedTypes
<1>4. CASE Replay
  BY <1>1, <1>4 DEF Replay, FeedTypes
<1>5. CASE UNCHANGED feed
  BY <1>5 DEF feed, FeedTypes
<1>6. QED
  BY <1>2, <1>3, <1>4, <1>5, Zenon
     DEF Next, vars, Open, HotPage, CanonicalPage, feed

-----------------------------------------------------------------------------
(* A scan of journal_hot *)

\* What a scan of journal_hot has read is not after its cursor, what it has not
\* read of its window is, and it ends with nothing after its cursor.
ScanReads ==
  scan.table = "hot" =>
    /\ ~scan.again
    /\ scan.upTo <= Len(hot)
    /\ \A i \in scan.got : i \in DOMAIN hot /\ ~HotAfter(i)
    /\ \A i \in 1 .. scan.upTo : hot[i].ts >= Since /\ ~HotAfter(i) => i \in scan.got
    /\ ~scan.open => \A i \in 1 .. scan.upTo : ~HotAfter(i)

\* The cursor of a scan is about rows that are not changed by an append.
LEMMA AppendKeepsScan ==
  ASSUME HotType, TablesAgree, ScanTypes, ScanReads,
         NEW rows \in Envelopes, AppendEnvelope(rows)
  PROVE  ScanTypes' /\ ScanReads'
<1>1. hot' = hot \o rows /\ scan' = scan
  BY Zenon DEF AppendEnvelope
<1>2. rows \in Seq(Rows)
  BY EnvelopesAreLists
<1>3. /\ DOMAIN hot = 1 .. Len(hot) /\ Len(hot) \in Nat
      /\ DOMAIN hot' = 1 .. Len(hot') /\ Len(hot') \in Nat /\ Len(hot) <= Len(hot')
      /\ \A i \in DOMAIN hot : hot'[i] = hot[i]
  <2>1. /\ hot' \in Seq(Rows) /\ Len(hot') = Len(hot) + Len(rows)
        /\ \A i \in 1 .. Len(hot) + Len(rows) :
             hot'[i] = IF i <= Len(hot) THEN hot[i] ELSE rows[i - Len(hot)]
    BY <1>1, <1>2, ConcatProperties DEF HotType
  <2>2. /\ DOMAIN hot = 1 .. Len(hot) /\ DOMAIN hot' = 1 .. Len(hot')
        /\ Len(hot) \in Nat /\ Len(rows) \in Nat
    BY <1>2, <2>1 DEF HotType
  <2>3. QED
    BY <2>1, <2>2
<1>4. \A i \in DOMAIN hot : HotAfter(i)' <=> HotAfter(i)
  BY <1>1, <1>3 DEF HotAfter
<1>5. ScanTypes'
  BY <1>1 DEF ScanTypes
<1>6. ASSUME scan.table = "hot"
      PROVE  /\ scan.upTo <= Len(hot')
             /\ \A i \in 1 .. scan.upTo : i \in DOMAIN hot
  <2>1. scan.upTo \in Nat /\ scan.upTo <= Len(hot)
    BY <1>6 DEF ScanTypes, ScanReads
  <2>2. QED
    BY <1>3, <2>1
<1>7. ASSUME scan.table = "hot", ScanReads
      PROVE  /\ \A i \in scan.got : i \in DOMAIN hot' /\ ~HotAfter(i)'
             /\ \A i \in 1 .. scan.upTo :
                  hot'[i].ts >= Since /\ ~HotAfter(i)' => i \in scan.got
             /\ ~scan.open => \A i \in 1 .. scan.upTo : ~HotAfter(i)'
  <2>1. \A i \in scan.got : i \in DOMAIN hot' /\ ~HotAfter(i)'
    BY <1>3, <1>4, <1>7 DEF ScanReads
  <2>2. QED
    BY <1>3, <1>4, <1>6, <1>7, <2>1 DEF ScanReads
<1>8. ScanReads'
  <2> SUFFICES ASSUME scan.table = "hot" PROVE ScanReads'
    BY <1>1 DEF ScanReads
  <2>1. ~scan.again
    BY DEF ScanReads
  <2>2. QED
    BY <1>1, <1>6, <1>7, <2>1 DEF ScanReads
<1>9. QED
  BY <1>5, <1>8

LEMMA OpenStartsScan ==
  ASSUME HotType, TablesAgree, NEW table \in {"hot", "canonical"}, Open(table)
  PROVE  ScanTypes' /\ ScanReads'
<1>1. /\ hot' = hot
      /\ scan' = [table |-> table, open |-> TRUE, t |-> Since, tie |-> -1,
                  got |-> {}, again |-> FALSE, upTo |-> Len(hot)]
  BY DEF Open, NoScan, tables
<1>2. /\ Since \in Nat /\ Len(hot) \in Nat /\ DOMAIN hot = 1 .. Len(hot)
      /\ \A i \in DOMAIN hot : hot[i].ts \in Nat
  BY BoundsAssumption, TableTypes
<1>3. ScanTypes'
  BY <1>1, <1>2 DEF ScanTypes
<1>4. \A i \in DOMAIN hot : hot[i].ts >= Since => HotAfter(i)'
  BY <1>1, <1>2 DEF HotAfter
<1>5. QED
  BY <1>1, <1>2, <1>3, <1>4 DEF ScanReads

\* A page of journal_hot: it holds the unread rows up to its last one, and the
\* cursor moves to that row.
LEMMA HotPageReads ==
  ASSUME HotType, TablesAgree, ScanTypes, ScanReads, HotPage
  PROVE  ScanTypes' /\ ScanReads'
<1> DEFINE ts == [i \in DOMAIN hot |-> hot[i].ts]
           unread == {i \in DOMAIN hot : HotAfter(i)}
           page == Page(unread, ts)
           last == LastOf(page, ts)
<1>1. /\ scan.open /\ scan.table = "hot" /\ hot' = hot
      /\ IF page = {} THEN Close ELSE Yield(page, ts[last], last)
  BY DEF HotPage, tables
<1>2. /\ DOMAIN hot = 1 .. Len(hot) /\ Len(hot) \in Nat
      /\ \A i \in DOMAIN hot : hot[i].ts \in Nat /\ ts[i] = hot[i].ts
      /\ scan.t \in Nat /\ scan.tie \in Int /\ scan.upTo \in Nat /\ scan.got \in SUBSET Nat
      /\ scan.again \in BOOLEAN
  BY TableTypes DEF ScanTypes
<1>3. IsFiniteSet(unread) /\ unread \subseteq DOMAIN hot
  BY TableTypes, FS_Subset
<1>4. /\ page \subseteq unread
      /\ page = {} => unread = {}
      /\ page # {} => /\ last \in page
                      /\ \A y \in page : ~Earlier(last, y, ts)
                      /\ \A y \in unread : Earlier(y, last, ts) => y \in page
  <2>1. unread \subseteq Int /\ \A x \in unread : ts[x] \in Int
    BY <1>2, <1>3
  <2> HIDE DEF unread, ts
  <2>2. QED
    BY <1>3, <2>1, PageCuts
<1>5. \A i \in DOMAIN hot : i \in unread <=> HotAfter(i)
  OBVIOUS
<1> HIDE DEF ts, unread, page, last
<1>6. CASE page = {}
  <2>1. scan' = [scan EXCEPT !.open = FALSE]
    BY <1>1, <1>6 DEF Close
  <2>2. /\ ScanTypes'
        /\ scan'.open = FALSE /\ scan'.t = scan.t /\ scan'.tie = scan.tie
        /\ scan'.got = scan.got /\ scan'.again = scan.again /\ scan'.upTo = scan.upTo
    BY <2>1 DEF ScanTypes
  <2>3. \A i \in DOMAIN hot : ~HotAfter(i) /\ ~HotAfter(i)'
    BY <1>1, <1>4, <1>5, <1>6, <2>2 DEF HotAfter
  <2>4. QED
    BY <1>1, <1>2, <2>2, <2>3 DEF ScanReads
<1>7. CASE page # {}
  <2>1. last \in DOMAIN hot /\ HotAfter(last) /\ ts[last] = hot[last].ts
    BY <1>2, <1>3, <1>4, <1>5, <1>7
  <2>2. scan' = [scan EXCEPT !.t = hot[last].ts, !.tie = last, !.got = scan.got \union page,
                             !.again = scan.again \/ page \intersect scan.got # {}]
    BY <1>1, <1>7, <2>1 DEF Yield
  <2>3. page \subseteq DOMAIN hot /\ page \subseteq Nat /\ last \in Nat
    BY <1>2, <1>3, <1>4, <2>1
  <2>4. /\ ScanTypes'
        /\ scan'.table = scan.table /\ scan'.open = scan.open
        /\ scan'.t = hot[last].ts /\ scan'.tie = last /\ scan'.upTo = scan.upTo
        /\ scan'.got = scan.got \union page
        /\ scan'.again = (scan.again \/ page \intersect scan.got # {})
    <3>1. scan.got \union page \in SUBSET Nat /\ hot[last].ts \in Nat /\ last \in Int
      BY <1>2, <2>1, <2>3
    <3>2. (scan.again \/ page \intersect scan.got # {}) \in BOOLEAN
      OBVIOUS
    <3>3. QED
      BY <2>2, <3>1, <3>2 DEF ScanTypes
  <2>5. \A i \in DOMAIN hot : HotAfter(i)' <=> Earlier(last, i, ts)
    BY <1>1, <1>2, <2>1, <2>4 DEF HotAfter, Earlier
  <2>6. \A i \in DOMAIN hot : ~HotAfter(i) => ~HotAfter(i)'
    BY <1>1, <1>2, <2>1, <2>3, <2>4 DEF HotAfter
  <2>7. \A i \in DOMAIN hot : HotAfter(i) /\ ~HotAfter(i)' => i \in page
    <3> SUFFICES ASSUME NEW i \in DOMAIN hot, HotAfter(i), ~HotAfter(i)'
                 PROVE  i \in page
      OBVIOUS
    <3>1. i = last \/ Earlier(i, last, ts)
      BY <1>2, <2>1, <2>3, <2>5 DEF Earlier
    <3>2. QED
      BY <1>4, <1>5, <1>7, <3>1
  <2>8. ~scan'.again
    BY <1>1, <1>3, <1>4, <1>5, <2>3, <2>4 DEF ScanReads
  <2>9. \A i \in scan'.got : i \in DOMAIN hot' /\ ~HotAfter(i)'
    BY <1>1, <1>4, <1>7, <2>3, <2>4, <2>5, <2>6 DEF ScanReads
  <2>10. \A i \in 1 .. scan'.upTo : hot'[i].ts >= Since /\ ~HotAfter(i)' => i \in scan'.got
    <3> SUFFICES ASSUME NEW i \in 1 .. scan'.upTo, hot'[i].ts >= Since, ~HotAfter(i)'
                 PROVE  i \in scan'.got
      OBVIOUS
    <3>1. i \in 1 .. scan.upTo /\ i \in DOMAIN hot /\ hot'[i] = hot[i]
      BY <1>1, <1>2, <2>4 DEF ScanReads
    <3>2. CASE HotAfter(i)
      BY <2>4, <2>7, <3>1, <3>2
    <3>3. CASE ~HotAfter(i)
      BY <1>1, <2>4, <3>1, <3>3 DEF ScanReads
    <3>4. QED
      BY <3>2, <3>3
  <2>11. QED
    BY <1>1, <2>4, <2>8, <2>9, <2>10 DEF ScanReads
<1>8. QED
  BY <1>6, <1>7

LEMMA CanonicalPageReads ==
  ASSUME HotType, TablesAgree, ScanTypes, CanonicalPage
  PROVE  ScanTypes' /\ ScanReads'
<1> DEFINE ts == [k \in DOMAIN canonical |-> canonical[k].ts]
           After(k) == ts[k] > scan.t \/ (ts[k] = scan.t /\ k > scan.tie)
           unread == {k \in DOMAIN canonical : After(k)}
           page == Page(unread, ts)
           last == LastOf(page, ts)
<1>1. /\ scan.table = "canonical"
      /\ IF page = {} THEN Close
                      ELSE Yield(page, IF canonical[last].final THEN 1 ELSE 0, last)
  BY DEF CanonicalPage
<1>2. /\ IsFiniteSet(unread) /\ unread \subseteq DOMAIN canonical /\ unread \subseteq Nat
      /\ \A x \in unread : ts[x] \in Int
  <2>1. unread \in SUBSET (DOMAIN canonical)
    OBVIOUS
  <2>2. IsFiniteSet(unread)
    <3> HIDE DEF unread
    <3>1. QED
      BY <2>1, TableTypes, FS_Subset
  <2>3. QED
    BY <2>1, <2>2, TableTypes
<1>3. page \subseteq unread /\ (page # {} => last \in page)
  <2>1. unread \subseteq Int
    BY <1>2
  <2> HIDE DEF unread, ts
  <2>2. QED
    BY <1>2, <2>1, PageCuts
<1> HIDE DEF ts, unread, page, last
<1>4. CASE page = {}
  BY <1>1, <1>4 DEF Close, ScanTypes, ScanReads
<1>5. CASE page # {}
  <2>1. page \subseteq Nat /\ last \in Int
    BY <1>2, <1>3, <1>5
  <2>2. PICK t \in Nat : Yield(page, t, last)
    BY <1>1, <1>5
  <2>3. scan' = [scan EXCEPT !.t = t, !.tie = last, !.got = scan.got \union page,
                             !.again = scan.again \/ page \intersect scan.got # {}]
    BY <2>2 DEF Yield
  <2>4. ScanTypes' /\ scan'.table = scan.table
    BY <2>1, <2>3 DEF ScanTypes
  <2>5. QED
    BY <1>1, <2>4 DEF ScanReads
<1>6. QED
  BY <1>4, <1>5

LEMMA ScanStep ==
  ASSUME HotType, TablesAgree, ScanTypes, ScanReads, [Next]_vars
  PROVE  ScanTypes' /\ ScanReads'
<1>1. CASE UNCHANGED <<hot, scan>>
  BY <1>1 DEF ScanTypes, ScanReads, HotAfter
<1>2. CASE \E rows \in Envelopes : AppendEnvelope(rows)
  BY <1>2, AppendKeepsScan
<1>3. CASE \E table \in {"hot", "canonical"} : Open(table)
  BY <1>3, OpenStartsScan
<1>4. CASE HotPage
  BY <1>4, HotPageReads
<1>5. CASE CanonicalPage
  BY <1>5, CanonicalPageReads
<1>6. QED
  BY <1>1, <1>2, <1>3, <1>4, <1>5, Zenon DEF Next, vars, AppendFails, Replay

-----------------------------------------------------------------------------
(* Replays *)

RowsFor(b, k) == OfKey(Range(log[b]), k)
WithFinal(k) == {b \in DOMAIN log : \E r \in RowsFor(b, k) : r.final}
With(k) == {b \in DOMAIN log : RowsFor(b, k) # {}}

\* The batches of which the newest decides on the row of a key.
Deciding(k) == IF WithFinal(k) = {} THEN With(k) ELSE WithFinal(k)

Spared(k) == \A b \in failed : RowsFor(b, k) = {}

\* The row of a key comes from a deciding batch, and the deciding batches after that one
\* are still to be handed over again.
ConvergeInv ==
  /\ failed \subseteq DOMAIN log
  /\ \A k \in Keys : Spared(k) =>
       /\ With(k) # {} => k \in DOMAIN canonical
       /\ k \in DOMAIN canonical =>
            \E c \in Deciding(k) : /\ canonical[k] \in Best(RowsFor(c, k))
                                   /\ \A a \in Deciding(k) : a > c => a >= pos

\* What merging a batch does to the row of a key.
LEMMA MergeOfKey ==
  ASSUME NEW rows, Merge(rows), NEW k
  PROVE  /\ OfKey(rows, k) = {} =>
              /\ k \in DOMAIN canonical' <=> k \in DOMAIN canonical
              /\ k \in DOMAIN canonical => canonical'[k] = canonical[k]
         /\ OfKey(rows, k) # {} =>
              /\ k \in DOMAIN canonical'
              /\ \E b \in Best(OfKey(rows, k)) :
                   canonical'[k] = IF k \in DOMAIN canonical /\ ~Overwrites(b, canonical[k])
                                   THEN canonical[k] ELSE b
<1>1. PICK best \in [{NatKey(r) : r \in rows} -> rows] :
        /\ \A x \in DOMAIN best : best[x] \in Best(OfKey(rows, x))
        /\ canonical' = Upserted(canonical, best)
  BY DEF Merge
<1>2. /\ DOMAIN best = {NatKey(r) : r \in rows}
      /\ DOMAIN canonical' = DOMAIN canonical \union DOMAIN best
  BY <1>1 DEF Upserted
<1>3. \A x \in DOMAIN canonical' :
        canonical'[x] = IF \/ x \notin DOMAIN best
                           \/ x \in DOMAIN canonical /\ ~Overwrites(best[x], canonical[x])
                        THEN canonical[x] ELSE best[x]
  BY <1>1, <1>2 DEF Upserted
<1>4. k \in DOMAIN best <=> OfKey(rows, k) # {}
  BY <1>2 DEF OfKey
<1>5. CASE OfKey(rows, k) = {}
  BY <1>2, <1>3, <1>4, <1>5
<1>6. CASE OfKey(rows, k) # {}
  BY <1>1, <1>2, <1>3, <1>4, <1>6
<1>7. QED
  BY <1>5, <1>6

\* The best row of a key is final if the batch has a final row for it, and rows of
\* one key have the same sequence id.
LEMMA BestOfKey ==
  ASSUME NEW rows, NEW k, NEW b \in Best(OfKey(rows, k))
  PROVE  /\ b \in rows /\ NatKey(b) = k
         /\ (\E r \in OfKey(rows, k) : r.final) => b.final
BY DEF Best, OfKey, Beats

\* The log after a batch was handed over.
LEMMA HandedLog ==
  ASSUME FeedTypes, NEW rows \in Envelopes, Handed(rows)
  PROVE  /\ DOMAIN log' = DOMAIN log \union {pos}
         /\ log'[pos] = rows
         /\ \A b \in DOMAIN log : log'[b] = log[b] /\ (b = pos => log[b] = rows)
         /\ \A b \in DOMAIN log' : b \in Nat
         /\ pos \in Nat
<1>1. /\ log \in Seq(Envelopes) /\ DOMAIN log = 1 .. Len(log) /\ Len(log) \in Nat
      /\ pos \in 1 .. Len(log) + 1
  BY DEF FeedTypes
<1>2. CASE pos <= Len(log) /\ rows = log[pos] /\ log' = log
  BY <1>1, <1>2
<1>3. CASE pos > Len(log) /\ log' = Append(log, rows)
  <2>1. pos = Len(log) + 1
    BY <1>1, <1>3
  <2>2. /\ DOMAIN log' = 1 .. Len(log) + 1
        /\ log'[Len(log) + 1] = rows
        /\ \A b \in 1 .. Len(log) : log'[b] = log[b]
    <3>1. log' \in Seq(Envelopes) /\ Len(log') = Len(log) + 1
      BY <1>1, <1>3, AppendProperties
    <3>2. QED
      BY <1>1, <1>3, <3>1, AppendProperties
  <2>3. QED
    BY <1>1, <2>1, <2>2
<1>4. QED
  BY <1>2, <1>3 DEF Handed

\* The batches that have rows, and final rows, for a key after a batch was handed over.
LEMMA HandedDeciding ==
  ASSUME FeedTypes, NEW rows \in Envelopes, Handed(rows), NEW k
  PROVE  /\ \A b \in DOMAIN log : RowsFor(b, k)' = RowsFor(b, k)
         /\ \A p : p = pos => RowsFor(p, k)' = OfKey(Range(rows), k)
         /\ With(k)' = With(k) \union (IF OfKey(Range(rows), k) # {} THEN {pos} ELSE {})
         /\ WithFinal(k)' = WithFinal(k) \union
              (IF \E r \in OfKey(Range(rows), k) : r.final THEN {pos} ELSE {})
         /\ pos \in With(k) => OfKey(Range(rows), k) # {}
         /\ pos \in WithFinal(k) => \E r \in OfKey(Range(rows), k) : r.final
<1>1. /\ DOMAIN log' = DOMAIN log \union {pos}
      /\ log'[pos] = rows
      /\ \A b \in DOMAIN log : log'[b] = log[b] /\ (b = pos => log[b] = rows)
  BY HandedLog
<1>2. /\ \A b \in DOMAIN log : RowsFor(b, k)' = RowsFor(b, k)
      /\ \A p : p = pos => RowsFor(p, k)' = OfKey(Range(rows), k)
      /\ \A b \in DOMAIN log : b = pos => RowsFor(b, k) = OfKey(Range(rows), k)
  <2>1. \A b \in DOMAIN log : RowsFor(b, k)' = RowsFor(b, k)
    BY <1>1 DEF RowsFor
  <2>2. \A p : p = pos => RowsFor(p, k)' = OfKey(Range(rows), k)
    BY <1>1 DEF RowsFor
  <2>3. \A b \in DOMAIN log : b = pos => RowsFor(b, k) = OfKey(Range(rows), k)
    BY <1>1 DEF RowsFor
  <2>4. QED
    BY <2>1, <2>2, <2>3
<1>3. \A b \in DOMAIN log' : OfKey(Range(log'[b]), k) =
        IF b = pos THEN OfKey(Range(rows), k) ELSE RowsFor(b, k)
  BY <1>1 DEF RowsFor
<1>4. With(k)' = {b \in DOMAIN log' : OfKey(Range(log'[b]), k) # {}}
  BY DEF With, RowsFor
<1>5. WithFinal(k)' = {b \in DOMAIN log' : \E r \in OfKey(Range(log'[b]), k) : r.final}
  BY DEF WithFinal, RowsFor
<1>6. With(k)' = With(k) \union (IF OfKey(Range(rows), k) # {} THEN {pos} ELSE {})
  BY <1>1, <1>2, <1>3, <1>4 DEF With
<1>7. WithFinal(k)' = WithFinal(k) \union
        (IF \E r \in OfKey(Range(rows), k) : r.final THEN {pos} ELSE {})
  BY <1>1, <1>2, <1>3, <1>5 DEF WithFinal
<1>8. QED
  BY <1>2, <1>6, <1>7 DEF With, WithFinal

\* A batch without the key changes nothing of what is known about it.
LEMMA OtherKeyStays ==
  ASSUME FeedTypes, ConvergeInv, NEW rows \in Envelopes, Handed(rows), pos' = pos + 1,
         NEW k \in Keys, Spared(k), OfKey(Range(rows), k) = {},
         k \in DOMAIN canonical' <=> k \in DOMAIN canonical,
         k \in DOMAIN canonical => canonical'[k] = canonical[k]
  PROVE  /\ With(k)' # {} => k \in DOMAIN canonical'
         /\ k \in DOMAIN canonical' =>
              \E c \in Deciding(k)' : /\ canonical'[k] \in Best(RowsFor(c, k))'
                                      /\ \A a \in Deciding(k)' : a > c => a >= pos'
<1>1. /\ With(k)' = With(k) /\ WithFinal(k)' = WithFinal(k)
      /\ pos \notin With(k) /\ pos \notin WithFinal(k)
      /\ \A b \in DOMAIN log : RowsFor(b, k)' = RowsFor(b, k)
  BY HandedDeciding
<1>2. Deciding(k)' = Deciding(k) /\ pos \notin Deciding(k)
  BY <1>1 DEF Deciding
<1>3. Deciding(k) \subseteq DOMAIN log /\ \A b \in DOMAIN log : b \in Nat
  BY DEF Deciding, With, WithFinal, FeedTypes
<1>4. pos \in Nat
  BY HandedLog
<1>5. ASSUME k \in DOMAIN canonical
      PROVE  \E c \in Deciding(k)' : /\ canonical'[k] \in Best(RowsFor(c, k))'
                                     /\ \A a \in Deciding(k)' : a > c => a >= pos'
  <2>1. PICK c \in Deciding(k) : /\ canonical[k] \in Best(RowsFor(c, k))
                                 /\ \A a \in Deciding(k) : a > c => a >= pos
    BY <1>5 DEF ConvergeInv
  <2>2. Best(RowsFor(c, k))' = Best(RowsFor(c, k))
    <3>1. RowsFor(c, k)' = RowsFor(c, k)
      BY <1>1, <1>3
    <3>2. QED
      BY <3>1 DEF Best, Beats
  <2>3. \A a \in Deciding(k) : a > c => a >= pos + 1
    <3>1. \A a \in Deciding(k) : a # pos /\ a \in Nat
      BY <1>2, <1>3
    <3>2. QED
      BY <1>4, <2>1, <3>1
  <2>4. QED
    BY <1>2, <1>5, <2>1, <2>2, <2>3
<1>6. QED
  BY <1>1, <1>5 DEF ConvergeInv

\* A merged batch with the key: its best row stands, or a final one that was there.
LEMMA KeyMerged ==
  ASSUME FeedTypes, HotType, TablesAgree, ConvergeInv, NEW rows \in Envelopes, Handed(rows),
         pos' = pos + 1, Merge(Range(rows)),
         NEW k \in Keys, Spared(k), OfKey(Range(rows), k) # {}
  PROVE  /\ k \in DOMAIN canonical'
         /\ \E c \in Deciding(k)' : /\ canonical'[k] \in Best(RowsFor(c, k))'
                                    /\ \A a \in Deciding(k)' : a > c => a >= pos'
<1> DEFINE new == OfKey(Range(rows), k)
<1>0. PICK p : p = pos
  OBVIOUS
<1>1. /\ \A b \in DOMAIN log : RowsFor(b, k)' = RowsFor(b, k)
      /\ RowsFor(p, k)' = new
      /\ With(k)' = With(k) \union {pos}
      /\ WithFinal(k)' = WithFinal(k) \union (IF \E r \in new : r.final THEN {pos} ELSE {})
      /\ pos \in WithFinal(k) => \E r \in new : r.final
  BY <1>0, HandedDeciding
<1>2. /\ pos \in Nat /\ \A b \in DOMAIN log' : b \in Nat
      /\ DOMAIN log' = DOMAIN log \union {pos}
      /\ \A b \in DOMAIN log : b = pos => log[b] = rows
  BY HandedLog
<1>3. /\ k \in DOMAIN canonical'
      /\ \E b \in Best(new) :
           canonical'[k] = IF k \in DOMAIN canonical /\ ~Overwrites(b, canonical[k])
                           THEN canonical[k] ELSE b
  BY MergeOfKey
<1>4. PICK b \in Best(new) :
        canonical'[k] = IF k \in DOMAIN canonical /\ ~Overwrites(b, canonical[k])
                        THEN canonical[k] ELSE b
  BY <1>3
<1>5. /\ b \in Range(rows) /\ NatKey(b) = k /\ b \in new
      /\ (\E r \in new : r.final) <=> b.final
  <2>1. b \in new
    BY DEF Best
  <2>2. QED
    BY <2>1, BestOfKey
<1>6. b \in Rows
  <2>1. rows \in Seq(Rows)
    BY EnvelopesAreLists
  <2>2. QED
    BY <1>5, <2>1 DEF Range
<1>7. Deciding(k)' \subseteq DOMAIN log'
  BY <1>1, <1>2 DEF Deciding, With, WithFinal
<1>8. Best(RowsFor(p, k))' = Best(new)
  BY <1>1 DEF Best, Beats
<1> HIDE DEF new
<1>9. ASSUME canonical'[k] = b, pos \in Deciding(k)'
      PROVE  \E c \in Deciding(k)' : /\ canonical'[k] \in Best(RowsFor(c, k))'
                                     /\ \A a \in Deciding(k)' : a > c => a >= pos'
  <2>1. \A a \in Deciding(k)' : a > pos => a >= pos + 1
    BY <1>2, <1>7
  <2>2. QED
    BY <1>0, <1>4, <1>8, <1>9, <2>1
<1>10. CASE k \notin DOMAIN canonical
  <2>1. canonical'[k] = b
    BY <1>4, <1>10
  <2>2. With(k) = {}
    BY <1>10 DEF ConvergeInv
  <2>3. WithFinal(k) \subseteq With(k)
    BY DEF With, WithFinal
  <2>4. pos \in Deciding(k)'
    BY <1>1, <2>2, <2>3 DEF Deciding
  <2>5. QED
    BY <1>3, <1>9, <2>1, <2>4
<1>11. CASE k \in DOMAIN canonical
  <2>1. PICK c \in Deciding(k) : /\ canonical[k] \in Best(RowsFor(c, k))
                                 /\ \A a \in Deciding(k) : a > c => a >= pos
    BY <1>11 DEF ConvergeInv
  <2>2. c \in DOMAIN log /\ c \in Nat
    BY <1>2 DEF Deciding, With, WithFinal
  <2>3. /\ canonical[k] \in Rows /\ NatKey(canonical[k]) = k
        /\ canonical[k] \in RowsFor(c, k)
        /\ (\E r \in RowsFor(c, k) : r.final) <=> canonical[k].final
    <3>1. canonical[k] \in RowsFor(c, k)
      BY <2>1 DEF Best
    <3>2. canonical[k] \in Best(OfKey(Range(log[c]), k))
      BY <2>1 DEF RowsFor
    <3>3. /\ NatKey(canonical[k]) = k
          /\ (\E r \in OfKey(Range(log[c]), k) : r.final) => canonical[k].final
      BY <3>2, BestOfKey
    <3>4. canonical[k] \in Rows
      BY <1>11, TableTypes
    <3>5. QED
      BY <3>1, <3>3, <3>4 DEF RowsFor
  <2>4. canonical[k].final <=> WithFinal(k) # {}
    BY <2>1, <2>2, <2>3 DEF Deciding, WithFinal
  <2>5. CASE b.final
    <3>1. canonical'[k] = b
      BY <1>4, <2>5 DEF Overwrites
    <3>2. pos \in Deciding(k)'
      BY <1>1, <1>5, <2>5 DEF Deciding
    <3>3. QED
      BY <1>3, <1>9, <3>1, <3>2
  <2>6. CASE ~b.final /\ ~canonical[k].final
    <3>1. b.seq = canonical[k].seq /\ b.seq \in Int
      BY <1>5, <1>6, <2>3, RowsAssumption DEF NoSeq
    <3>2. Overwrites(b, canonical[k])
      BY <2>6, <3>1 DEF Overwrites
    <3>3. canonical'[k] = b
      BY <1>4, <3>2
    <3>4. WithFinal(k)' = {}
      BY <1>1, <1>5, <2>4, <2>6
    <3>5. pos \in Deciding(k)'
      BY <1>1, <3>4 DEF Deciding
    <3>6. QED
      BY <1>3, <1>9, <3>3, <3>5
  <2>7. CASE ~b.final /\ canonical[k].final
    <3>1. canonical'[k] = canonical[k]
      BY <1>4, <1>11, <2>7 DEF Overwrites
    <3>2. /\ WithFinal(k)' = WithFinal(k) /\ WithFinal(k) # {}
          /\ pos \notin WithFinal(k)
      BY <1>1, <1>5, <2>4, <2>7
    <3>3. Deciding(k)' = Deciding(k) /\ pos \notin Deciding(k)
      BY <3>2 DEF Deciding
    <3>4. \A a \in Deciding(k) : a \in Nat /\ a # pos
      BY <1>2, <3>3 DEF Deciding, With, WithFinal
    <3>5. \A a \in Deciding(k) : a > c => a >= pos + 1
      BY <1>2, <2>1, <3>4
    <3>6. Best(RowsFor(c, k))' = Best(RowsFor(c, k))
      <4>1. RowsFor(c, k)' = RowsFor(c, k)
        BY <1>1, <2>2
      <4>2. QED
        BY <4>1 DEF Best, Beats
    <3>7. QED
      BY <1>3, <2>1, <3>1, <3>3, <3>5, <3>6
  <2>8. QED
    BY <2>5, <2>6, <2>7
<1>12. QED
  BY <1>10, <1>11

LEMMA ConvergeStep ==
  ASSUME HotType, TablesAgree, FeedTypes, ConvergeInv, [Next]_vars
  PROVE  ConvergeInv'
<1>1. ASSUME NEW rows \in Envelopes, Handed(rows),
             failed' = failed \/ failed' = failed \union {pos}
      PROVE  /\ failed' \subseteq DOMAIN log'
             /\ \A k \in Keys : Spared(k)' => Spared(k)
             /\ failed' = failed \union {pos} =>
                  \A k \in Keys : Spared(k)' => OfKey(Range(rows), k) = {}
  <2>1. /\ DOMAIN log' = DOMAIN log \union {pos} /\ log'[pos] = rows
        /\ \A b \in DOMAIN log : log'[b] = log[b]
    BY <1>1, HandedLog
  <2>2. failed \subseteq DOMAIN log /\ failed \subseteq failed'
    BY <1>1 DEF ConvergeInv
  <2>3. \A k : Spared(k)' <=> \A b \in failed' : OfKey(Range(log'[b]), k) = {}
    BY DEF Spared, RowsFor
  <2>4. QED
    BY <1>1, <2>1, <2>2, <2>3 DEF Spared, RowsFor
<1>2. ASSUME NEW rows \in Envelopes, AppendEnvelope(rows)
      PROVE  ConvergeInv'
  <2>1. /\ Handed(rows) /\ Merge(Range(rows)) /\ pos' = pos + 1 /\ failed' = failed
    BY <1>2, Zenon DEF AppendEnvelope
  <2>2. ASSUME NEW k \in Keys, Spared(k)
        PROVE  /\ With(k)' # {} => k \in DOMAIN canonical'
               /\ k \in DOMAIN canonical' =>
                    \E c \in Deciding(k)' : /\ canonical'[k] \in Best(RowsFor(c, k))'
                                            /\ \A a \in Deciding(k)' : a > c => a >= pos'
    <3>1. CASE OfKey(Range(rows), k) = {}
      <4>1. /\ k \in DOMAIN canonical' <=> k \in DOMAIN canonical
            /\ k \in DOMAIN canonical => canonical'[k] = canonical[k]
        BY <2>1, <3>1, MergeOfKey
      <4>2. QED
        BY <2>1, <2>2, <3>1, <4>1, OtherKeyStays
    <3>2. CASE OfKey(Range(rows), k) # {}
      BY <2>1, <2>2, <3>2, KeyMerged
    <3>3. QED
      BY <3>1, <3>2
  <2>3. /\ failed' \subseteq DOMAIN log'
        /\ \A k \in Keys : Spared(k)' => Spared(k)
    BY <1>1, <2>1
  <2>4. QED
    BY <2>2, <2>3 DEF ConvergeInv
<1>3. ASSUME NEW rows \in Envelopes, AppendFails(rows)
      PROVE  ConvergeInv'
  <2>1. /\ Handed(rows) /\ pos' = pos + 1 /\ failed' = failed \union {pos}
        /\ canonical' = canonical
    BY <1>3, Zenon DEF AppendFails
  <2>2. /\ failed' \subseteq DOMAIN log'
        /\ \A k \in Keys : Spared(k)' => Spared(k) /\ OfKey(Range(rows), k) = {}
    BY <1>1, <2>1
  <2>3. ASSUME NEW k \in Keys, Spared(k)'
        PROVE  /\ With(k)' # {} => k \in DOMAIN canonical'
               /\ k \in DOMAIN canonical' =>
                    \E c \in Deciding(k)' : /\ canonical'[k] \in Best(RowsFor(c, k))'
                                            /\ \A a \in Deciding(k)' : a > c => a >= pos'
    <3>1. Spared(k) /\ OfKey(Range(rows), k) = {}
      BY <2>2, <2>3
    <3>2. QED
      BY <2>1, <3>1, OtherKeyStays
  <2>4. QED
    BY <2>2, <2>3 DEF ConvergeInv
<1>4. ASSUME UNCHANGED <<log, canonical, failed>>, pos' \in Nat, pos' <= pos
      PROVE  ConvergeInv'
  <2>1. /\ \A k : Spared(k)' <=> Spared(k)
        /\ \A k : With(k)' = With(k) /\ Deciding(k)' = Deciding(k)
        /\ \A b, k : Best(RowsFor(b, k))' = Best(RowsFor(b, k))
    BY <1>4 DEF Spared, With, Deciding, WithFinal, RowsFor, Best, Beats
  <2>2. \A k : \A a \in Deciding(k) : a \in Nat
    BY DEF Deciding, With, WithFinal, FeedTypes
  <2>3. pos \in Nat
    BY DEF FeedTypes
  <2>4. \A a \in Nat : a >= pos => a >= pos'
    BY <1>4, <2>3
  <2>5. QED
    BY <1>4, <2>1, <2>2, <2>4 DEF ConvergeInv
<1>5. CASE Replay
  <2>1. UNCHANGED <<log, canonical, failed>> /\ \E b \in 1 .. pos : pos' = b
    BY <1>5, Zenon DEF Replay
  <2>2. pos' \in Nat /\ pos' <= pos
    BY <2>1 DEF FeedTypes
  <2>3. QED
    BY <1>4, <2>1, <2>2
<1>6. CASE UNCHANGED <<tables, feed>>
  BY <1>4, <1>6 DEF tables, feed, FeedTypes
<1>7. QED
  BY <1>2, <1>3, <1>5, <1>6, Zenon
     DEF Next, vars, Open, HotPage, CanonicalPage, tables, feed

-----------------------------------------------------------------------------
(* The theorems about scans and replays *)

JournalInv == HotType /\ TablesAgree /\ FeedTypes /\ ScanTypes /\ ScanReads

LEMMA Inductive == Spec => []JournalInv
<1>1. Init => JournalInv
  BY BoundsAssumption
     DEF Init, JournalInv, HotType, TablesAgree, Range, FeedTypes, ScanTypes, ScanReads, NoScan
<1>2. JournalInv /\ [Next]_vars => JournalInv'
  BY TablesStep, FeedStep, ScanStep DEF JournalInv
<1>3. QED
  BY <1>1, <1>2, PTL DEF Spec

\* Every variable has its type whatever is appended, fails, is replayed and scanned;
\* the cursor and the elements of a page among them.
THEOREM TypeCorrect == Spec => []TypeOK
<1>1. JournalInv => TypeOK
  BY TableTypes DEF JournalInv, TypeOK, HotType, FeedTypes, ScanTypes
<1>2. QED
  BY <1>1, Inductive, PTL

\* For any page size, rows with equal timestamps and appends between the pages, a scan of
\* journal_hot yields no row twice, and at its end it has yielded its whole window.
THEOREM HotScansExact == Spec => []HotScanExact
<1>1. JournalInv => HotScanExact
  BY DEF JournalInv, ScanReads, HotScanExact
<1>2. QED
  BY <1>1, Inductive, PTL

\* When the consumer has caught up after any replays and failed appends of other keys,
\* the row of a key is the one that applying each batch once, in order, would have left.
THEOREM ReplaysConverge == Spec => []ReplayConverges
<1>1. Init => ConvergeInv
  BY DEF Init, ConvergeInv, With, WithFinal, Deciding
<1>2. JournalInv /\ ConvergeInv /\ [Next]_vars => ConvergeInv'
  BY ConvergeStep DEF JournalInv
<1>3. JournalInv /\ ConvergeInv => ReplayConverges
  <2> SUFFICES ASSUME JournalInv, ConvergeInv, pos = Len(log) + 1,
                      NEW k \in DOMAIN canonical,
                      \A b \in failed : OfKey(Range(log[b]), k) = {}
               PROVE  canonical[k] \in Winners(k)
    BY DEF ReplayConverges
  <2> DEFINE newest(bs) == CHOOSE b \in bs : \A c \in bs : c <= b
  <2>1. k \in Keys /\ Spared(k)
    BY TableTypes DEF JournalInv, Spared, RowsFor
  <2>2. PICK c \in Deciding(k) : /\ canonical[k] \in Best(RowsFor(c, k))
                                 /\ \A a \in Deciding(k) : a > c => a >= pos
    BY <2>1 DEF ConvergeInv
  <2>3. \A a \in Deciding(k) : a \in 1 .. Len(log)
    BY DEF Deciding, With, WithFinal, JournalInv, FeedTypes
  <2>4. Len(log) \in Nat
    BY DEF JournalInv, FeedTypes
  <2>5. \A a \in Deciding(k) : a <= c
    BY <2>2, <2>3, <2>4
  <2>6. newest(Deciding(k)) = c
    <3>1. \A d \in Deciding(k) : (\A a \in Deciding(k) : a <= d) => d = c
      BY <2>3, <2>5
    <3>2. newest(Deciding(k)) \in Deciding(k)
          /\ \A a \in Deciding(k) : a <= newest(Deciding(k))
      BY <2>5
    <3>3. QED
      BY <3>1, <3>2
  <2>7. WithFinal(k) = {b \in With(k) : \E r \in OfKey(Range(log[b]), k) : r.final}
    BY DEF With, WithFinal, RowsFor
  <2>8. Winners(k) = Best(OfKey(Range(log[newest(Deciding(k))]), k))
    BY <2>7 DEF Winners, Deciding, With, RowsFor
  <2>9. QED
    BY <2>2, <2>6, <2>8 DEF RowsFor
<1>4. QED
  BY <1>1, <1>2, <1>3, Inductive, PTL DEF Spec

=============================================================================
