------------------------- MODULE GapBackfillProofs -------------------------
(***************************************************************************)
(* What holds of the recovery of missed trades for any trades, workers,    *)
(* sizes of tasks, pages and lists, and any failures, stops and crashes:   *)
(* no id is dropped between monitor, planner, worker and bus, and no id is *)
(* in two tasks.                                                           *)
(***************************************************************************)
EXTENDS GapBackfill, FiniteOrders, SequenceTheorems, FiniteSetTheorems, TLAPS

-----------------------------------------------------------------------------
(* The greatest of a set of numbers, and the slices of an interval *)

LEMMA GreatestBounds ==
  ASSUME NEW n \in Nat, NEW S \in SUBSET (0 .. n)
  PROVE  /\ Greatest(S) \in S \union {0} /\ Greatest(S) \in 0 .. n
         /\ \A y \in S \union {0} : y <= Greatest(S)
<1> DEFINE T == S \union {0}
           R == {p \in T \X T : p[1] < p[2]}
<1>1. T \in SUBSET (0 .. n) /\ T # {} /\ \A y \in T : y >= 0
  OBVIOUS
<1>2. IsFiniteSet(T)
  <2>1. IsFiniteSet(0 .. n)
    BY FS_Interval
  <2> HIDE DEF T
  <2>2. QED
    BY <1>1, <2>1, FS_Subset
<1>3. \A x, y \in T : <<x, y>> \in R <=> x < y
  OBVIOUS
<1> HIDE DEF R, T
<1>4. StrictOrder(R, T)
  BY <1>1, <1>3 DEF StrictOrder
<1>5. PICK x \in T : \A y \in T : <<x, y>> \notin R
  BY <1>1, <1>2, <1>4, FirstAndLast
<1>6. \A y \in T : y <= x
  <2>1. \A y \in T : ~(x < y) /\ x \in 0 .. n /\ y \in 0 .. n
    BY <1>1, <1>3, <1>5
  <2>2. QED
    BY <2>1
<1>7. Greatest(S) = CHOOSE v \in T : \A y \in S : y <= v
  BY DEF Greatest, T
<1>8. Greatest(S) \in T /\ \A y \in S : y <= Greatest(S)
  BY <1>6, <1>7 DEF T
<1>9. 0 <= Greatest(S) /\ Greatest(S) \in 0 .. n
  BY <1>1, <1>8
<1>10. QED
  BY <1>8, <1>9 DEF T

LEMMA GreatestOfInterval ==
  ASSUME NEW a \in Nat, NEW b \in Nat, a <= b
  PROVE  Greatest(a .. b) = b
<1>1. (a .. b) \in SUBSET (0 .. b) /\ b \in a .. b
  OBVIOUS
<1>2. /\ Greatest(a .. b) \in (a .. b) \union {0}
      /\ \A y \in (a .. b) \union {0} : y <= Greatest(a .. b)
  BY <1>1, GreatestBounds
<1>3. QED
  BY <1>1, <1>2

LEMMA Division ==
  ASSUME NEW m \in Nat \ {0}, NEW a \in Nat
  PROVE  /\ a \div m \in Nat
         /\ (a \div m) * m <= a
         /\ a < (a \div m) * m + m
OBVIOUS

LEMMA Multiples ==
  ASSUME NEW m \in Nat \ {0}, NEW x \in Int, NEW y \in Int
  PROVE  /\ x * m \in Int
         /\ x <= y => x * m <= y * m
         /\ x * m < y * m => x < y
OBVIOUS

\* The tasks of a gap cover it, in order and without an overlap.
LEMMA SlicesCover ==
  ASSUME NEW lo \in Ids, NEW hi \in Ids, lo <= hi
  PROVE  /\ Slices(lo, hi) \in Seq(Task)
         /\ \A k \in DOMAIN Slices(lo, hi) :
              /\ lo <= Slices(lo, hi)[k].lo /\ Slices(lo, hi)[k].hi <= hi
              /\ Slices(lo, hi)[k].lo <= Slices(lo, hi)[k].hi
         /\ \A i \in lo .. hi : \E k \in DOMAIN Slices(lo, hi) :
              i \in Slices(lo, hi)[k].lo .. Slices(lo, hi)[k].hi
         /\ \A j, k \in DOMAIN Slices(lo, hi) :
              j < k => Slices(lo, hi)[j].hi < Slices(lo, hi)[k].lo
<1> DEFINE m == MaxIdsPerTask
           n == (hi - lo + m) \div m
           s == Slices(lo, hi)
<1>1. /\ m \in Nat \ {0} /\ lo \in Nat /\ hi \in Nat /\ 1 <= lo /\ hi <= MaxId
      /\ MaxId \in Nat
  BY GapAssumption DEF Ids
<1>2. n \in Nat /\ n * m <= hi - lo + m /\ hi - lo < n * m
  <2>1. hi - lo + m \in Nat
    BY <1>1
  <2> HIDE DEF m
  <2>2. /\ n \in Nat /\ n * m <= hi - lo + m /\ hi - lo + m < n * m + m
    BY <1>1, <2>1, Division
  <2> HIDE DEF n
  <2>3. n * m \in Int
    BY <1>1, <2>2, Multiples
  <2>4. QED
    BY <1>1, <2>2, <2>3
<1>3. /\ DOMAIN s = 1 .. n
      /\ \A k \in 1 .. n :
           s[k] = [lo |-> lo + (k - 1) * m,
                   hi |-> IF lo + (k - 1) * m + m - 1 < hi THEN lo + (k - 1) * m + m - 1 ELSE hi]
  BY DEF Slices
<1> HIDE DEF m, n, s
<1>4. \A k \in 1 .. n : (k - 1) * m \in Nat /\ (k - 1) * m <= hi - lo
  <2> SUFFICES ASSUME NEW k \in 1 .. n
               PROVE  (k - 1) * m \in Nat /\ (k - 1) * m <= hi - lo
    OBVIOUS
  <2>1. k - 1 <= n - 1 /\ k - 1 \in Nat /\ n - 1 \in Int
    BY <1>2
  <2>2. 0 * m <= (k - 1) * m /\ (k - 1) * m <= (n - 1) * m
    BY <1>1, <2>1, Multiples
  <2>3. (n - 1) * m = n * m - m /\ 0 * m = 0 /\ n * m \in Int /\ (k - 1) * m \in Int
    BY <1>1, <1>2, <2>1
  <2> HIDE DEF Ids
  <2>4. QED
    BY <1>1, <1>2, <2>2, <2>3
<1>5. \A k \in 1 .. n :
        s[k] \in Task /\ lo <= s[k].lo /\ s[k].hi <= hi /\ s[k].lo <= s[k].hi
  <2> SUFFICES ASSUME NEW k \in 1 .. n
               PROVE  s[k] \in Task /\ lo <= s[k].lo /\ s[k].hi <= hi /\ s[k].lo <= s[k].hi
    OBVIOUS
  <2> DEFINE start == lo + (k - 1) * m
             end == IF start + m - 1 < hi THEN start + m - 1 ELSE hi
  <2>1. s[k] = [lo |-> start, hi |-> end]
    BY <1>3
  <2>2. start \in Nat /\ lo <= start /\ start <= hi
    BY <1>1, <1>4
  <2> HIDE DEF start
  <2>3. end \in Nat /\ start <= end /\ end <= hi
    BY <1>1, <2>2
  <2> HIDE DEF end
  <2>4. start \in Ids /\ end \in Ids
    BY <1>1, <2>2, <2>3 DEF Ids
  <2>5. QED
    BY <2>1, <2>2, <2>3, <2>4 DEF Task
<1>6. \A i \in lo .. hi : \E k \in 1 .. n : i \in s[k].lo .. s[k].hi
  <2> SUFFICES ASSUME NEW i \in lo .. hi
               PROVE  \E k \in 1 .. n : i \in s[k].lo .. s[k].hi
    OBVIOUS
  <2> DEFINE q == (i - lo) \div m
  <2>1. i - lo \in Nat /\ i - lo <= hi - lo /\ i \in Int
    BY <1>1
  <2>2. q \in Nat /\ q * m <= i - lo /\ i - lo < q * m + m
    BY <1>1, <2>1, Division
  <2> HIDE DEF q
  <2>3. q * m \in Int /\ n * m \in Int
    BY <1>1, <1>2, <2>2, Multiples
  <2>4. q * m < n * m
    BY <1>1, <1>2, <2>1, <2>2, <2>3
  <2>5. q < n
    BY <1>1, <1>2, <2>2, <2>4, Multiples
  <2>6. q + 1 \in 1 .. n /\ (q + 1) - 1 = q
    BY <1>2, <2>2, <2>5
  <2>7. s[q + 1] = [lo |-> lo + q * m,
                    hi |-> IF lo + q * m + m - 1 < hi THEN lo + q * m + m - 1 ELSE hi]
    BY <1>3, <2>6
  <2>8. i \in s[q + 1].lo .. s[q + 1].hi
    BY <1>1, <2>1, <2>2, <2>3, <2>7
  <2>9. QED
    BY <2>6, <2>8
<1>7. \A j, k \in 1 .. n : j < k => s[j].hi < s[k].lo
  <2> SUFFICES ASSUME NEW j \in 1 .. n, NEW k \in 1 .. n, j < k
               PROVE  s[j].hi < s[k].lo
    OBVIOUS
  <2>1. j <= k - 1 /\ j \in Int /\ k - 1 \in Int
    BY <1>2
  <2>2. j * m <= (k - 1) * m /\ j * m = (j - 1) * m + m
    BY <1>1, <2>1, Multiples
  <2>3. QED
    BY <1>1, <1>3, <1>4, <2>2
<1>8. s \in Seq(Task)
  <2>1. s = [k \in 1 .. n |-> s[k]]
    BY <1>3 DEF s, Slices
  <2>2. s \in [1 .. n -> Task]
    BY <1>5, <2>1
  <2>3. QED
    BY <1>2, <2>2, SeqDef
<1>9. QED
  BY <1>3, <1>5, <1>6, <1>7, <1>8 DEF s

-----------------------------------------------------------------------------
(* The invariant, part by part *)

LossTypes ==
  /\ delivered \subseteq Ids /\ lost \subseteq Ids
  /\ others \in 0 .. MaxOther
  /\ faults \in 0 .. MaxFaults /\ stops \in 0 .. MaxStops /\ crashes \in 0 .. MaxCrashes

\* A batch on its way has an id of its own that nothing is journaled under.
BusInv ==
  /\ bids \in Nat
  /\ pending \in [Publishers -> [bid : 0 .. bids, ids : SUBSET Ids]]
  /\ DOMAIN journal \subseteq 1 .. bids
  /\ \A b \in DOMAIN journal : journal[b] \subseteq Ids
  /\ \A p \in Publishers :
       pending[p] # None => pending[p].bid # 0 /\ pending[p].bid \notin DOMAIN journal
  /\ \A p, q \in Publishers :
       p # q /\ pending[p] # None => pending[p].bid # pending[q].bid

\* What the monitor reads is journaled; what it has planned lies before its row;
\* the watermark is not ahead of the dictionary.
MonInv ==
  /\ mon \in [seq : 0 .. MaxId, next : 1 .. bids + 1, rows : Seq(Ids), upTo : 0 .. bids,
              planned : BOOLEAN]
  /\ wm \in [seq : 0 .. MaxId, batch : 0 .. bids]
  /\ first \in 0 .. MaxId
  /\ mon.rows # <<>> => mon.upTo # 0
  /\ mon.planned => mon.rows # <<>> /\ InGap
  /\ mon.seq # 0 => wm.seq <= mon.seq
  /\ \A k \in DOMAIN mon.rows : mon.rows[k] \in JournaledIds

\* A worker has a task or none; the page it publishes is a part of its task.
WorkType == [pc : {"off", "idle", "busy", "publish"}, cur : 0 .. MaxId + 1,
             end : 0 .. MaxId, stop : BOOLEAN]

TaskInv(w) ==
  /\ work[w].pc \in {"off", "idle"} => work[w].cur = 0 /\ work[w].end = 0
  /\ work[w].pc \in {"busy", "publish"} => work[w].cur # 0
  /\ work[w].pc = "publish" =>
       /\ pending[w] # None
       /\ Greatest(pending[w].ids) \in work[w].cur .. work[w].end

WorkInv == work \in [Workers -> WorkType] /\ \A w \in Workers : TaskInv(w)

QueueInv == queue \in Seq(Task)

LEMMA Bounds ==
  /\ MaxId \in Nat \ {0} /\ MaxIdsPerTask \in Nat \ {0} /\ PageSize \in Nat \ {0}
  /\ FetchLimit \in Nat \ {0} /\ MaxOther \in Nat /\ MaxFaults \in Nat
  /\ MaxStops \in Nat /\ MaxCrashes \in Nat
  /\ Ids = 1 .. MaxId /\ 0 \in 0 .. MaxId /\ 0 \in 0 .. MaxId + 1
  /\ "live" \in Publishers /\ "other" \in Publishers /\ Workers \subseteq Publishers
  /\ "live" \notin Workers /\ "other" \notin Workers
BY GapAssumption DEF Ids, Publishers

-----------------------------------------------------------------------------
(* The bus *)

LEMMA NumberedKeepsBus ==
  ASSUME BusInv, NEW p \in Publishers, NEW ids \in SUBSET Ids, Numbered(p, ids),
         journal' = journal
  PROVE  /\ BusInv' /\ bids' = bids + 1
         /\ pending[p] = None /\ pending'[p] = [bid |-> bids + 1, ids |-> ids]
         /\ \A q \in Publishers \ {p} : pending'[q] = pending[q]
<1>1. /\ pending[p] = None /\ bids' = bids + 1
      /\ pending' = [pending EXCEPT ![p] = [bid |-> bids + 1, ids |-> ids]]
  BY DEF Numbered
<1>2. pending'[p] = [bid |-> bids + 1, ids |-> ids]
  BY <1>1 DEF BusInv
<1>3. \A q \in Publishers \ {p} : pending'[q] = pending[q]
  BY <1>1 DEF BusInv
<1>4. pending' \in [Publishers -> [bid : 0 .. bids', ids : SUBSET Ids]]
  <2>1. \A q \in Publishers : pending'[q] \in [bid : 0 .. bids', ids : SUBSET Ids]
    BY <1>1, <1>2, <1>3 DEF BusInv
  <2>2. QED
    BY <1>1, <2>1 DEF BusInv
<1>5. \A q \in Publishers :
        pending'[q] # None => pending'[q].bid # 0 /\ pending'[q].bid \notin DOMAIN journal
  BY <1>2, <1>3 DEF BusInv
<1>6. \A q, r \in Publishers :
        q # r /\ pending'[q] # None => pending'[q].bid # pending'[r].bid
  <2>1. \A q \in Publishers \ {p} : pending'[q].bid # bids + 1 /\ pending'[q] = pending[q]
    BY <1>3 DEF BusInv
  <2>2. QED
    BY <1>2, <2>1 DEF BusInv
<1>7. QED
  BY <1>1, <1>2, <1>4, <1>5, <1>6 DEF BusInv

LEMMA JournaledKeepsBus ==
  ASSUME BusInv, NEW p \in Publishers, Journaled(p)
  PROVE  /\ BusInv' /\ bids' = bids
         /\ pending'[p] = None /\ \A q \in Publishers \ {p} : pending'[q] = pending[q]
         /\ \A b \in DOMAIN journal : b \in DOMAIN journal' /\ journal'[b] = journal[b]
         /\ \E b \in DOMAIN journal' : journal'[b] = pending[p].ids
<1>1. /\ pending[p] # None /\ bids' = bids
      /\ pending' = [pending EXCEPT ![p] = None]
      /\ journal' = [b \in DOMAIN journal \union {pending[p].bid} |->
                       IF b = pending[p].bid THEN pending[p].ids ELSE journal[b]]
  BY DEF Journaled
<1>2. pending'[p] = None /\ \A q \in Publishers \ {p} : pending'[q] = pending[q]
  BY <1>1 DEF BusInv
<1>3. pending' \in [Publishers -> [bid : 0 .. bids, ids : SUBSET Ids]]
  <2>1. None \in [bid : 0 .. bids, ids : SUBSET Ids]
    BY DEF None, BusInv
  <2>2. QED
    BY <1>1, <2>1 DEF BusInv
<1>4. /\ pending[p].bid \in 1 .. bids /\ pending[p].ids \subseteq Ids
      /\ pending[p].bid \notin DOMAIN journal
  BY <1>1 DEF BusInv
<1>5. /\ \A b \in DOMAIN journal : b \in DOMAIN journal' /\ journal'[b] = journal[b]
      /\ pending[p].bid \in DOMAIN journal' /\ journal'[pending[p].bid] = pending[p].ids
      /\ DOMAIN journal' = DOMAIN journal \union {pending[p].bid}
  BY <1>1, <1>4
<1>6. \A q \in Publishers :
        pending'[q] # None => pending'[q].bid # 0 /\ pending'[q].bid \notin DOMAIN journal'
  BY <1>1, <1>2, <1>5 DEF BusInv
<1>7. \A q, r \in Publishers :
        q # r /\ pending'[q] # None => pending'[q].bid # pending'[r].bid
  <2>1. None.bid = 0
    BY DEF None
  <2>2. QED
    BY <1>2, <2>1 DEF BusInv
<1>8. QED
  BY <1>1, <1>2, <1>3, <1>4, <1>5, <1>6, <1>7 DEF BusInv

\* The batches of the publishers are of ids of the exchange.
LEMMA LiveIds ==
  ASSUME LossTypes, NEW ids \in SUBSET (Greatest(delivered) + 1 .. MaxId)
  PROVE  ids \in SUBSET Ids
<1>1. /\ delivered \in SUBSET (0 .. MaxId) /\ MaxId \in Nat
      /\ \A i \in delivered : i \in Nat
  BY Bounds DEF LossTypes
<1>2. Greatest(delivered) \in Nat
  <2>1. Greatest(delivered) \in 0 .. MaxId
    BY <1>1, GreatestBounds
  <2>2. QED
    BY <1>1, <2>1
<1>3. QED
  BY <1>1, <1>2, Bounds

LEMMA PageIds ==
  ASSUME WorkInv, NEW w \in Workers, Fetching(w)
  PROVE  /\ work[w].pc = "busy" /\ work[w].cur \in Ids /\ work[w].end \in Ids
         /\ PageEnd(w) \in work[w].cur .. work[w].end
         /\ \A last \in work[w].cur .. PageEnd(w) :
              /\ work[w].cur .. last \in SUBSET Ids
              /\ Greatest(work[w].cur .. last) = last
              /\ last \in work[w].cur .. work[w].end
<1>1. /\ work[w].pc = "busy" /\ work[w].cur .. work[w].end # {}
      /\ work[w].cur \in 0 .. MaxId + 1 /\ work[w].end \in 0 .. MaxId /\ work[w].cur # 0
  BY DEF Fetching, Remaining, WorkInv, WorkType, TaskInv
<1>2. /\ work[w].cur \in 1 .. MaxId /\ work[w].end \in 1 .. MaxId
      /\ work[w].cur <= work[w].end
  BY <1>1, Bounds
<1>3. PageEnd(w) \in work[w].cur .. work[w].end
  BY <1>2, Bounds DEF PageEnd
<1>4. ASSUME NEW last \in work[w].cur .. PageEnd(w)
      PROVE  /\ work[w].cur .. last \in SUBSET Ids
             /\ Greatest(work[w].cur .. last) = last
             /\ last \in work[w].cur .. work[w].end
  <2>1. last \in work[w].cur .. work[w].end /\ last \in 1 .. MaxId
    BY <1>2, <1>3, Bounds
  <2>2. Greatest(work[w].cur .. last) = last
    BY <1>2, <2>1, GreatestOfInterval
  <2>3. QED
    BY <1>2, <2>1, <2>2, Bounds
<1>5. QED
  BY <1>1, <1>2, <1>3, <1>4, Bounds

LEMMA BusChanges ==
  ASSUME [Next]_vars
  PROVE  \/ LiveBatch \/ OtherBatch
         \/ \E p \in Publishers : Journaled(p)
         \/ \E w \in Workers : PagePublish(w)
         \/ UNCHANGED busVars
<1>1. CASE Monitor
  BY <1>1, Zenon
     DEF Monitor, MonFetch, Plan, PlanGap, PlanFails, Advance, MonAdvance,
         MonAdvanceUnstored, MonLastUnread, MonPersist, busVars
<1>2. ASSUME NEW w \in Workers, WorkerStep(w)
      PROVE  PagePublish(w) \/ UNCHANGED busVars
  BY <1>2, Zenon DEF WorkerStep, Start, Stop, Exit, Claim, PageFails, PageStale, Finish, busVars
<1>3. CASE Crash
  BY <1>3, Zenon DEF Crash, busVars
<1>4. QED
  BY <1>1, <1>2, <1>3, Zenon DEF Next, vars

\* The bus keeps its invariant, and no id leaves the journal.
LEMMA BusStep ==
  ASSUME LossTypes, BusInv, WorkInv, [Next]_vars
  PROVE  /\ BusInv' /\ bids' \in Nat /\ bids <= bids'
         /\ JournaledIds \subseteq JournaledIds'
<1>0. bids \in Nat
  BY DEF BusInv
<1>1. CASE LiveBatch
  <2>1. PICK ids \in SUBSET (Greatest(delivered) + 1 .. MaxId) :
          Numbered("live", ids) /\ journal' = journal
    BY <1>1 DEF LiveBatch
  <2>2. BusInv' /\ bids' = bids + 1
    BY <2>1, LiveIds, NumberedKeepsBus, Bounds
  <2>3. JournaledIds' = JournaledIds
    BY <2>1 DEF JournaledIds
  <2>4. QED
    BY <1>0, <2>2, <2>3
<1>2. CASE OtherBatch
  <2>1. Numbered("other", {}) /\ journal' = journal
    BY <1>2 DEF OtherBatch
  <2>2. BusInv' /\ bids' = bids + 1
    <3>1. {} \in SUBSET Ids
      OBVIOUS
    <3>2. QED
      BY <2>1, <3>1, NumberedKeepsBus, Bounds
  <2>3. JournaledIds' = JournaledIds
    BY <2>1 DEF JournaledIds
  <2>4. QED
    BY <1>0, <2>2, <2>3
<1>3. ASSUME NEW p \in Publishers, Journaled(p)
      PROVE  BusInv' /\ bids' = bids /\ JournaledIds \subseteq JournaledIds'
  BY <1>3, JournaledKeepsBus DEF JournaledIds
<1>4. ASSUME NEW w \in Workers, PagePublish(w)
      PROVE  BusInv' /\ bids' = bids + 1 /\ JournaledIds \subseteq JournaledIds'
  <2>1. PICK last \in work[w].cur .. PageEnd(w) : Numbered(w, work[w].cur .. last)
    BY <1>4 DEF PagePublish
  <2>2. work[w].cur .. last \in SUBSET Ids /\ journal' = journal /\ w \in Publishers
    BY <1>4, <2>1, PageIds, Bounds DEF PagePublish
  <2>3. BusInv' /\ bids' = bids + 1
    BY <2>1, <2>2, NumberedKeepsBus
  <2>4. JournaledIds' = JournaledIds
    BY <2>2 DEF JournaledIds
  <2>5. QED
    BY <2>3, <2>4
<1>5. CASE UNCHANGED busVars
  BY <1>0, <1>5 DEF busVars, BusInv, JournaledIds
<1>6. QED
  BY <1>0, <1>1, <1>2, <1>3, <1>4, <1>5, BusChanges

-----------------------------------------------------------------------------
(* The monitor *)

\* A list of journaled batches is read as a list of their rows.
LEMMA ReadingsAreRows ==
  ASSUME BusInv, NEW page \in SUBSET DOMAIN journal, NEW s \in Orders(page)
  PROVE  /\ [k \in DOMAIN s |-> s[k][2]] \in Seq(Ids)
         /\ \A k \in DOMAIN s : s[k][2] \in JournaledIds
<1> DEFINE rows == {r \in page \X Ids : r[2] \in journal[r[1]]}
           n == Cardinality(rows)
           read == [k \in DOMAIN s |-> s[k][2]]
<1>1. n \in Nat
  <2>1. IsFiniteSet(1 .. bids) /\ IsFiniteSet(Ids)
    BY Bounds, FS_Interval DEF BusInv
  <2>2. page \in SUBSET (1 .. bids)
    BY DEF BusInv
  <2>3. IsFiniteSet(page \X Ids)
    BY <2>1, <2>2, FS_Subset, FS_Product
  <2>4. rows \in SUBSET (page \X Ids)
    OBVIOUS
  <2> HIDE DEF rows
  <2>5. QED
    BY <2>3, <2>4, FS_Subset, FS_CardinalityType
<1>2. s \in [1 .. n -> rows]
  BY DEF Orders
<1>3. \A r \in rows : r[2] \in Ids /\ r[2] \in JournaledIds
  BY DEF JournaledIds
<1> HIDE DEF rows, n
<1>4. DOMAIN s = 1 .. n /\ \A k \in 1 .. n : s[k][2] \in Ids /\ s[k][2] \in JournaledIds
  BY <1>2, <1>3
<1>5. read \in [1 .. n -> Ids]
  BY <1>4
<1> HIDE DEF read
<1>6. read \in Seq(Ids)
  BY <1>1, <1>5, SeqDef
<1>7. QED
  BY <1>4, <1>6 DEF read

LEMMA LastSeqType ==
  ASSUME MonInv
  PROVE  /\ LastSeq \in 0 .. MaxId /\ wm.seq \in 0 .. MaxId /\ wm.seq <= LastSeq
         /\ mon.rows # <<>> => /\ Row \in Ids /\ Row \in JournaledIds
                              /\ Tail(mon.rows) \in Seq(Ids)
                              /\ \A k \in DOMAIN Tail(mon.rows) :
                                   Tail(mon.rows)[k] \in JournaledIds
<1>1. LastSeq \in 0 .. MaxId /\ wm.seq \in 0 .. MaxId /\ wm.seq <= LastSeq
  BY Bounds DEF MonInv, LastSeq
<1>2. ASSUME mon.rows # <<>>
      PROVE  /\ Row \in Ids /\ Row \in JournaledIds
             /\ Tail(mon.rows) \in Seq(Ids)
             /\ \A k \in DOMAIN Tail(mon.rows) : Tail(mon.rows)[k] \in JournaledIds
  <2>1. mon.rows \in Seq(Ids) /\ \A k \in DOMAIN mon.rows : mon.rows[k] \in JournaledIds
    BY DEF MonInv
  <2>2. /\ Len(mon.rows) \in Nat \ {0} /\ DOMAIN mon.rows = 1 .. Len(mon.rows)
        /\ Row = mon.rows[1] /\ Tail(mon.rows) \in Seq(Ids)
        /\ Len(Tail(mon.rows)) = Len(mon.rows) - 1
        /\ \A k \in 1 .. Len(mon.rows) - 1 : Tail(mon.rows)[k] = mon.rows[k + 1]
    BY <1>2, <2>1, HeadTailProperties DEF Row
  <2>3. DOMAIN Tail(mon.rows) = 1 .. Len(mon.rows) - 1
    BY <2>2
  <2>4. 1 \in DOMAIN mon.rows /\ Row \in Ids
    BY <2>1, <2>2
  <2>5. QED
    BY <2>1, <2>2, <2>3, <2>4
<1>3. QED
  BY <1>1, <1>2

\* The monitor moves over its row; last is what it took for its last id.
LEMMA AdvanceKeepsMon ==
  ASSUME MonInv, BusInv, BusInv', UNCHANGED busVars, mon.rows # <<>>,
         NEW last \in 0 .. MaxId, NEW stored \in 0 .. MaxId, stored <= Advanced(last),
         Advance(last, stored)
  PROVE  /\ MonInv'
         /\ LastSeq' = Advanced(last) /\ Advanced(last) \in Ids
         /\ last <= Advanced(last) /\ Row <= Advanced(last)
<1>1. /\ mon' = [mon EXCEPT !.seq = Advanced(last), !.rows = Tail(@), !.planned = FALSE]
      /\ wm' = [wm EXCEPT !.seq = stored]
      /\ first' = IF last = 0 THEN Row ELSE first
  BY DEF Advance
<1>2. /\ Row \in Ids /\ Tail(mon.rows) \in Seq(Ids)
      /\ \A k \in DOMAIN Tail(mon.rows) : Tail(mon.rows)[k] \in JournaledIds
  BY LastSeqType
<1>3. /\ Advanced(last) \in Ids /\ last <= Advanced(last) /\ Row <= Advanced(last)
      /\ Advanced(last) \in 0 .. MaxId /\ Advanced(last) # 0 /\ Row \in 0 .. MaxId
  BY <1>2, Bounds DEF Advanced
<1>4. JournaledIds' = JournaledIds /\ bids' = bids
  BY DEF busVars, JournaledIds
<1>5. /\ mon'.seq = Advanced(last) /\ mon'.rows = Tail(mon.rows) /\ mon'.planned = FALSE
      /\ mon'.upTo = mon.upTo /\ mon'.next = mon.next
      /\ mon' \in [seq : 0 .. MaxId, next : 1 .. bids + 1, rows : Seq(Ids), upTo : 0 .. bids,
                   planned : BOOLEAN]
      /\ wm'.seq = stored /\ wm' \in [seq : 0 .. MaxId, batch : 0 .. bids]
      /\ first' \in 0 .. MaxId
  BY <1>1, <1>2, <1>3 DEF MonInv
<1>6. LastSeq' = Advanced(last)
  BY <1>3, <1>5 DEF LastSeq
<1>7. MonInv'
  BY <1>2, <1>3, <1>4, <1>5 DEF MonInv
<1>8. QED
  BY <1>3, <1>6, <1>7

LEMMA FetchKeepsMon ==
  ASSUME MonInv, BusInv, MonFetch
  PROVE  MonInv' /\ mon'.planned = mon.planned /\ ~mon.planned /\ LastSeq' = LastSeq
<1> DEFINE from == {b \in DOMAIN journal : b >= mon.next}
           page == {b \in from : Cardinality({c \in from : c < b}) < FetchLimit}
<1>1. /\ mon.upTo = 0 /\ page # {} /\ page \in SUBSET DOMAIN journal
      /\ UNCHANGED <<busVars, wm, first>>
  BY DEF MonFetch
<1>2. PICK s \in Orders(page) :
        mon' = [mon EXCEPT !.rows = [k \in DOMAIN s |-> s[k][2]], !.upTo = Greatest(page)]
  BY DEF MonFetch
<1>3. Greatest(page) \in 0 .. bids /\ Greatest(page) # 0
  <2>1. /\ page \in SUBSET (0 .. bids) /\ bids \in Nat
        /\ \A b \in page : b \in 1 .. bids
    BY <1>1 DEF BusInv
  <2> HIDE DEF page
  <2>2. Greatest(page) \in 0 .. bids /\ \A y \in page : y <= Greatest(page)
    BY <2>1, GreatestBounds
  <2>3. PICK b \in page : TRUE
    BY <1>1
  <2>4. QED
    BY <2>1, <2>2, <2>3
<1> HIDE DEF page, from
<1>4. /\ [k \in DOMAIN s |-> s[k][2]] \in Seq(Ids)
      /\ \A k \in DOMAIN s : s[k][2] \in JournaledIds
  BY <1>1, <1>2, ReadingsAreRows
<1>5. JournaledIds' = JournaledIds /\ bids' = bids
  BY <1>1 DEF busVars, JournaledIds
<1>6. ~mon.planned
  BY <1>1 DEF MonInv
<1>7. /\ mon'.rows = [k \in DOMAIN s |-> s[k][2]] /\ mon'.upTo = Greatest(page)
      /\ mon'.seq = mon.seq /\ mon'.planned = mon.planned
      /\ mon' \in [seq : 0 .. MaxId, next : 1 .. bids + 1, rows : Seq(Ids), upTo : 0 .. bids,
                   planned : BOOLEAN]
  BY <1>2, <1>3, <1>4 DEF MonInv
<1>8. MonInv'
  BY <1>1, <1>3, <1>4, <1>5, <1>6, <1>7 DEF MonInv
<1>9. QED
  BY <1>1, <1>6, <1>7, <1>8 DEF LastSeq

\* The steps that move the monitor over its row.
MonMoves == MonAdvance \/ MonAdvanceUnstored \/ MonLastUnread

LEMMA MovesKeepMon ==
  ASSUME MonInv, BusInv, BusInv', MonMoves
  PROVE  /\ MonInv' /\ mon.rows # <<>> /\ ~mon'.planned /\ mon'.seq # 0
         /\ \/ /\ LastSeq' = Advanced(LastSeq)
               /\ first' = IF LastSeq = 0 THEN Row ELSE first
               /\ InGap => mon.planned
            \/ LastSeq' = Row /\ first' = Row /\ mon.seq = 0 /\ ~mon.planned
<1>1. UNCHANGED busVars /\ mon.rows # <<>>
  BY DEF MonMoves, MonAdvance, MonAdvanceUnstored, MonLastUnread, Advance
<1>2. /\ LastSeq \in 0 .. MaxId /\ wm.seq \in 0 .. MaxId /\ wm.seq <= LastSeq
      /\ Row \in 0 .. MaxId /\ Row # 0
  BY <1>1, LastSeqType, Bounds
<1>3. /\ Advanced(LastSeq) \in 0 .. MaxId /\ Advanced(LastSeq) # 0
      /\ wm.seq <= Advanced(LastSeq) /\ Advanced(0) = Row
  BY <1>2, Bounds DEF Advanced
<1>4. CASE MonAdvance
  <2>1. Advance(LastSeq, Advanced(LastSeq)) /\ (InGap => mon.planned)
    BY <1>4 DEF MonAdvance
  <2>2. MonInv' /\ LastSeq' = Advanced(LastSeq)
    BY <1>1, <1>2, <1>3, <2>1, AdvanceKeepsMon
  <2>3. QED
    BY <1>1, <1>3, <2>1, <2>2 DEF Advance, MonInv
<1>5. CASE MonAdvanceUnstored
  <2>1. Advance(LastSeq, wm.seq) /\ (InGap => mon.planned)
    BY <1>5 DEF MonAdvanceUnstored
  <2>2. MonInv' /\ LastSeq' = Advanced(LastSeq)
    BY <1>1, <1>2, <1>3, <2>1, AdvanceKeepsMon
  <2>3. QED
    BY <1>1, <1>3, <2>1, <2>2 DEF Advance, MonInv
<1>6. CASE MonLastUnread
  <2>1. Advance(0, Row) /\ mon.seq = 0 /\ ~mon.planned
    BY <1>6 DEF MonLastUnread
  <2>2. MonInv' /\ LastSeq' = Row
    BY <1>1, <1>2, <1>3, <2>1, AdvanceKeepsMon, Bounds
  <2>3. QED
    BY <1>1, <1>2, <1>3, <2>1, <2>2 DEF Advance, MonInv
<1>7. QED
  BY <1>4, <1>5, <1>6 DEF MonMoves

LEMMA PlanKeepsMon ==
  ASSUME MonInv, Plan
  PROVE  MonInv' /\ ~mon.planned /\ mon'.planned /\ InGap /\ mon.rows # <<>>
         /\ LastSeq' = LastSeq /\ Row' = Row /\ first' = first
<1>1. /\ mon.rows # <<>> /\ ~mon.planned /\ InGap
      /\ mon' = [mon EXCEPT !.planned = TRUE]
      /\ UNCHANGED <<busVars, wm, first>>
  BY DEF Plan
<1>2. /\ mon'.rows = mon.rows /\ mon'.seq = mon.seq /\ mon'.upTo = mon.upTo
      /\ mon'.planned = TRUE
      /\ mon' \in [seq : 0 .. MaxId, next : 1 .. bids + 1, rows : Seq(Ids), upTo : 0 .. bids,
                   planned : BOOLEAN]
  BY <1>1 DEF MonInv
<1>3. JournaledIds' = JournaledIds /\ bids' = bids
  BY <1>1 DEF busVars, JournaledIds
<1>4. LastSeq' = LastSeq /\ Row' = Row
  BY <1>1, <1>2 DEF LastSeq, Row
<1>5. MonInv'
  BY <1>1, <1>2, <1>3, <1>4 DEF MonInv, InGap
<1>6. QED
  BY <1>1, <1>2, <1>4, <1>5

LEMMA PersistKeepsMon ==
  ASSUME MonInv, BusInv, MonPersist
  PROVE  MonInv' /\ ~mon.planned /\ ~mon'.planned /\ LastSeq' = LastSeq /\ mon'.seq = mon.seq
         /\ first' = first
<1>1. /\ mon.rows = <<>> /\ mon.upTo # 0
      /\ mon' = [mon EXCEPT !.next = mon.upTo + 1, !.upTo = 0]
      /\ wm' = [wm EXCEPT !.batch = mon.upTo] \/ wm' = wm
      /\ UNCHANGED <<busVars, first>>
  BY DEF MonPersist, NextBatch
<1>2. /\ mon'.rows = mon.rows /\ mon'.seq = mon.seq /\ mon'.upTo = 0
      /\ mon'.planned = mon.planned /\ ~mon.planned
      /\ mon' \in [seq : 0 .. MaxId, next : 1 .. bids + 1, rows : Seq(Ids), upTo : 0 .. bids,
                   planned : BOOLEAN]
  <2>1. mon.upTo + 1 \in 1 .. bids + 1 /\ 0 \in 0 .. bids
    BY DEF MonInv, BusInv
  <2>2. mon \in [seq : 0 .. MaxId, next : 1 .. bids + 1, rows : Seq(Ids), upTo : 0 .. bids,
                planned : BOOLEAN]
    BY DEF MonInv
  <2>3. ~mon.planned
    BY <1>1 DEF MonInv
  <2>4. QED
    BY <1>1, <2>1, <2>2, <2>3
<1>3. wm'.seq = wm.seq /\ wm' \in [seq : 0 .. MaxId, batch : 0 .. bids]
  BY <1>1 DEF MonInv
<1>4. JournaledIds' = JournaledIds /\ bids' = bids
  BY <1>1 DEF busVars, JournaledIds
<1>5. MonInv'
  BY <1>1, <1>2, <1>3, <1>4 DEF MonInv
<1>6. QED
  BY <1>1, <1>2, <1>3, <1>5 DEF LastSeq

LEMMA CrashKeepsMon ==
  ASSUME MonInv, BusInv, Crash
  PROVE  MonInv' /\ ~mon'.planned /\ mon'.seq = 0 /\ LastSeq' = wm.seq /\ first' = first
<1>1. /\ mon' = [seq |-> 0, next |-> wm.batch + 1, rows |-> <<>>, upTo |-> 0, planned |-> FALSE]
      /\ UNCHANGED <<busVars, wm, first>>
  BY DEF Crash
<1>2. JournaledIds' = JournaledIds /\ bids' = bids
  BY <1>1 DEF busVars, JournaledIds
<1>3. <<>> \in Seq(Ids)
  OBVIOUS
<1>4. MonInv'
  BY <1>1, <1>2, <1>3, Bounds DEF MonInv, BusInv
<1>5. QED
  BY <1>1, <1>4 DEF LastSeq

LEMMA MonChanges ==
  ASSUME [Next]_vars
  PROVE  MonFetch \/ Plan \/ MonMoves \/ MonPersist \/ Crash \/ UNCHANGED monVars
<1>1. CASE Monitor
  BY <1>1, Zenon DEF Monitor, PlanGap, PlanFails, MonMoves
<1>2. ASSUME NEW w \in Workers, WorkerStep(w)
      PROVE  UNCHANGED monVars
  BY <1>2, Zenon
     DEF WorkerStep, Start, Stop, Exit, Claim, PagePublish, PageFails, PageStale, Finish, monVars
<1>3. QED
  BY <1>1, <1>2, Zenon DEF Next, vars, LiveBatch, OtherBatch, Journaled

LEMMA MonStep ==
  ASSUME LossTypes, BusInv, WorkInv, MonInv, [Next]_vars
  PROVE  MonInv'
<1>1. /\ BusInv' /\ bids' \in Nat /\ bids <= bids' /\ bids \in Nat
      /\ JournaledIds \subseteq JournaledIds'
  BY BusStep DEF BusInv
<1>2. CASE UNCHANGED monVars
  <2>1. UNCHANGED <<mon, wm, first>> /\ LastSeq' = LastSeq /\ Row' = Row
    BY <1>2 DEF monVars, LastSeq, Row
  <2>2. /\ mon \in [seq : 0 .. MaxId, next : 1 .. bids' + 1, rows : Seq(Ids), upTo : 0 .. bids',
                    planned : BOOLEAN]
        /\ wm \in [seq : 0 .. MaxId, batch : 0 .. bids']
    BY <1>1 DEF MonInv
  <2>3. QED
    BY <1>1, <2>1, <2>2 DEF MonInv, InGap
<1>3. QED
  BY <1>1, <1>2, MonChanges, FetchKeepsMon, PlanKeepsMon, MovesKeepMon, PersistKeepsMon,
     CrashKeepsMon

-----------------------------------------------------------------------------
(* The workers *)

\* The ids of the task a worker holds, and those of it that are not published yet.
Held(w) == IF work[w].pc = "off" THEN {} ELSE Remaining(w) \intersect Ids

Owed(w) ==
  IF work[w].pc = "busy" THEN Remaining(w)
  ELSE IF work[w].pc = "publish" THEN Greatest(pending[w].ids) + 1 .. work[w].end
  ELSE {}

LEMMA ClaimedIsOwed ==
  /\ \A i \in Claimed : \E w \in Workers : i \in Owed(w)
  /\ \A w \in Workers : Owed(w) \subseteq Claimed
<1>1. \A w \in Workers : work[w].pc = "busy" => Owed(w) = Remaining(w)
  BY DEF Owed
<1>2. \A w \in Workers :
        work[w].pc = "publish" => Owed(w) = Greatest(pending[w].ids) + 1 .. work[w].end
  BY DEF Owed
<1>3. \A w \in Workers :
        work[w].pc # "busy" /\ work[w].pc # "publish" => Owed(w) = {}
  BY DEF Owed
<1>4. \A i : i \in Claimed <=>
              \/ \E w \in Workers : work[w].pc = "busy" /\ i \in Remaining(w)
              \/ \E w \in Workers :
                   work[w].pc = "publish" /\ i \in Greatest(pending[w].ids) + 1 .. work[w].end
  <2> DEFINE fetching == UNION {Remaining(w) : w \in {v \in Workers : work[v].pc = "busy"}}
             publishing == UNION {Greatest(pending[w].ids) + 1 .. work[w].end :
                                    w \in {v \in Workers : work[v].pc = "publish"}}
  <2>1. \A i : i \in fetching <=>
               \E w \in Workers : work[w].pc = "busy" /\ i \in Remaining(w)
    OBVIOUS
  <2>2. \A i : i \in publishing <=>
               \E w \in Workers : work[w].pc = "publish" /\ i \in Greatest(pending[w].ids) + 1 .. work[w].end
    OBVIOUS
  <2>3. Claimed = fetching \union publishing
    BY Zenon DEF Claimed
  <2> HIDE DEF fetching, publishing
  <2>4. QED
    BY <2>1, <2>2, <2>3
<1>5. QED
  BY <1>1, <1>2, <1>3, <1>4, Zenon

LEMMA ClaimedIsOwedNext ==
  /\ \A i \in Claimed' : \E w \in Workers : i \in Owed(w)'
  /\ \A w \in Workers : Owed(w)' \subseteq Claimed'
<1>1. \A w \in Workers : work'[w].pc = "busy" => Owed(w)' = Remaining(w)'
  BY DEF Owed
<1>2. \A w \in Workers :
        work'[w].pc = "publish" => Owed(w)' = Greatest(pending'[w].ids) + 1 .. work'[w].end
  BY DEF Owed
<1>3. \A w \in Workers :
        work'[w].pc # "busy" /\ work'[w].pc # "publish" => Owed(w)' = {}
  BY DEF Owed
<1>4. \A i : i \in Claimed' <=>
              \/ \E w \in Workers : work'[w].pc = "busy" /\ i \in Remaining(w)'
              \/ \E w \in Workers :
                   work'[w].pc = "publish" /\ i \in Greatest(pending'[w].ids) + 1 .. work'[w].end
  <2> DEFINE fetching == UNION {Remaining(w)' : w \in {v \in Workers : work'[v].pc = "busy"}}
             publishing == UNION {Greatest(pending'[w].ids) + 1 .. work'[w].end :
                                    w \in {v \in Workers : work'[v].pc = "publish"}}
  <2>1. \A i : i \in fetching <=>
               \E w \in Workers : work'[w].pc = "busy" /\ i \in Remaining(w)'
    OBVIOUS
  <2>2. \A i : i \in publishing <=>
               \E w \in Workers : work'[w].pc = "publish" /\ i \in Greatest(pending'[w].ids) + 1 .. work'[w].end
    OBVIOUS
  <2>3. Claimed' = fetching \union publishing
    BY Zenon DEF Claimed
  <2> HIDE DEF fetching, publishing
  <2>4. QED
    BY <2>1, <2>2, <2>3
<1>5. QED
  BY <1>1, <1>2, <1>3, <1>4, Zenon

LEMMA NothingHeld ==
  ASSUME NEW w \in Workers, WorkInv, work[w].pc \in {"off", "idle"}
  PROVE  Held(w) = {} /\ Owed(w) = {}
BY Bounds DEF Held, Owed, Remaining, WorkInv, TaskInv

\* One worker changes.
LEMMA OneWorker ==
  ASSUME WorkInv, NEW w \in Workers, NEW s \in WorkType, Worker(w, s),
         \A v \in Workers \ {w} : pending'[v] = pending[v]
  PROVE  /\ work' \in [Workers -> WorkType] /\ work'[w] = s
         /\ \A v \in Workers \ {w} :
              work'[v] = work[v] /\ TaskInv(v)' /\ Held(v)' = Held(v) /\ Owed(v)' = Owed(v)
<1>1. work' \in [Workers -> WorkType] /\ work'[w] = s
  BY DEF Worker, WorkInv
<1>2. \A v \in Workers \ {w} : work'[v] = work[v]
  BY DEF Worker, WorkInv
<1>3. ASSUME NEW v \in Workers \ {w}
      PROVE  TaskInv(v)' /\ Held(v)' = Held(v) /\ Owed(v)' = Owed(v)
  <2>1. work'[v] = work[v] /\ pending'[v] = pending[v] /\ TaskInv(v)
    BY <1>2 DEF WorkInv
  <2>2. QED
    BY <2>1 DEF TaskInv, Held, Owed, Remaining
<1>4. QED
  BY <1>1, <1>2, <1>3

\* A worker that starts, is stopped or ends holds what it held.
LEMMA SwitchKeepsWork ==
  ASSUME WorkInv, NEW w \in Workers, Start(w) \/ Stop(w) \/ Exit(w)
  PROVE  WorkInv' /\ \A v \in Workers : Held(v)' = Held(v) /\ Owed(v)' = Owed(v)
<1>1. pending' = pending
  BY DEF Start, Stop, Exit, busVars
<1>2. work[w] \in WorkType /\ TaskInv(w)
  BY DEF WorkInv
<1>3. PICK s \in WorkType :
        /\ Worker(w, s)
        /\ s.cur = work[w].cur /\ s.end = work[w].end
        /\ s.pc = work[w].pc \/ (s.pc \in {"off", "idle"} /\ work[w].pc \in {"off", "idle"})
  <2>1. CASE Start(w)
    <3>1. [Off EXCEPT !.pc = "idle"] \in WorkType
      BY Bounds DEF Off, WorkType
    <3>2. QED
      BY <1>2, <2>1, <3>1 DEF Start, Off, TaskInv
  <2>2. CASE Stop(w)
    <3>1. [work[w] EXCEPT !.stop = TRUE] \in WorkType
      BY <1>2 DEF WorkType
    <3>2. QED
      BY <1>2, <2>2, <3>1 DEF Stop, WorkType
  <2>3. CASE Exit(w)
    <3>1. Off \in WorkType
      BY Bounds DEF Off, WorkType
    <3>2. QED
      BY <1>2, <2>3, <3>1 DEF Exit, Off, TaskInv
  <2>4. QED
    BY <2>1, <2>2, <2>3
<1>4. /\ work' \in [Workers -> WorkType] /\ work'[w] = s
      /\ \A v \in Workers \ {w} : TaskInv(v)' /\ Held(v)' = Held(v) /\ Owed(v)' = Owed(v)
  BY <1>1, <1>3, OneWorker
<1>5. TaskInv(w)'
  BY <1>1, <1>2, <1>3, <1>4 DEF TaskInv
<1>6. Held(w)' = Held(w) /\ Owed(w)' = Owed(w)
  <2>1. CASE s.pc = work[w].pc
    BY <1>1, <1>3, <1>4, <2>1 DEF Held, Owed, Remaining
  <2>2. CASE s.pc \in {"off", "idle"} /\ work[w].pc \in {"off", "idle"}
    <3>1. Held(w) = {} /\ Owed(w) = {}
      BY <2>2, NothingHeld
    <3>2. /\ work'[w].cur = 0 /\ work'[w].end = 0 /\ work'[w].pc \in {"off", "idle"}
      BY <1>2, <1>3, <1>4, <2>2 DEF TaskInv
    <3>3. Held(w)' = {} /\ Owed(w)' = {}
      BY <3>2, Bounds DEF Held, Owed, Remaining
    <3>4. QED
      BY <3>1, <3>3
  <2>3. QED
    BY <1>3, <2>1, <2>2
<1>7. QED
  BY <1>4, <1>5, <1>6 DEF WorkInv

LEMMA ClaimKeepsWork ==
  ASSUME WorkInv, QueueInv, NEW w \in Workers, Claim(w)
  PROVE  /\ WorkInv' /\ queue # <<>> /\ queue' = Tail(queue) /\ Head(queue) \in Task
         /\ Held(w) = {} /\ Owed(w) = {}
         /\ Held(w)' = Head(queue).lo .. Head(queue).hi
         /\ Owed(w)' = Head(queue).lo .. Head(queue).hi
         /\ \A v \in Workers \ {w} : Held(v)' = Held(v) /\ Owed(v)' = Owed(v)
<1> DEFINE s == [work[w] EXCEPT !.pc = "busy", !.cur = Head(queue).lo, !.end = Head(queue).hi]
<1>1. /\ work[w].pc = "idle" /\ queue # <<>> /\ Worker(w, s)
      /\ queue' = Tail(queue) /\ pending' = pending
  BY DEF Claim, busVars
<1>2. /\ Head(queue) \in Task
      /\ Head(queue).lo \in 1 .. MaxId /\ Head(queue).hi \in 1 .. MaxId
  <2>1. Head(queue) \in Task
    BY <1>1, HeadTailProperties DEF QueueInv
  <2>2. QED
    BY <2>1, Bounds DEF Task
<1>3. /\ s \in WorkType /\ s.pc = "busy" /\ s.cur = Head(queue).lo /\ s.end = Head(queue).hi
  <2>1. work[w] \in WorkType /\ Head(queue).lo \in 0 .. MaxId + 1 /\ Head(queue).hi \in 0 .. MaxId
    BY <1>2, Bounds DEF WorkInv
  <2>2. QED
    BY <2>1 DEF WorkType
<1> HIDE DEF s
<1>4. /\ work' \in [Workers -> WorkType] /\ work'[w] = s
      /\ \A v \in Workers \ {w} : TaskInv(v)' /\ Held(v)' = Held(v) /\ Owed(v)' = Owed(v)
  BY <1>1, <1>3, OneWorker
<1>5. TaskInv(w)'
  BY <1>2, <1>3, <1>4 DEF TaskInv
<1>6. Held(w) = {} /\ Owed(w) = {}
  BY <1>1, NothingHeld
<1>7. Remaining(w)' = Head(queue).lo .. Head(queue).hi
  BY <1>3, <1>4 DEF Remaining
<1>8. Head(queue).lo .. Head(queue).hi \subseteq Ids
  BY <1>2, Bounds
<1>9. Held(w)' = Head(queue).lo .. Head(queue).hi /\ Owed(w)' = Head(queue).lo .. Head(queue).hi
  BY <1>3, <1>4, <1>7, <1>8, Bounds DEF Held, Owed
<1>10. QED
  BY <1>1, <1>2, <1>4, <1>5, <1>6, <1>9 DEF WorkInv

LEMMA PublishKeepsWork ==
  ASSUME WorkInv, BusInv, NEW w \in Workers, PagePublish(w)
  PROVE  /\ WorkInv'
         /\ \A v \in Workers : Held(v)' = Held(v) /\ Owed(v) \subseteq Owed(v)' \union pending'[v].ids
<1>1. /\ Fetching(w) /\ Worker(w, [work[w] EXCEPT !.pc = "publish"]) /\ journal' = journal
      /\ w \in Publishers
  BY Bounds DEF PagePublish
<1>2. PICK last \in work[w].cur .. PageEnd(w) : Numbered(w, work[w].cur .. last)
  BY DEF PagePublish
<1>3. /\ work[w].pc = "busy" /\ work[w].cur \in Ids /\ work[w].end \in Ids
      /\ work[w].cur .. last \in SUBSET Ids
      /\ Greatest(work[w].cur .. last) = last /\ last \in work[w].cur .. work[w].end
  BY <1>1, <1>2, PageIds
<1>4. /\ pending'[w] = [bid |-> bids + 1, ids |-> work[w].cur .. last]
      /\ \A q \in Publishers \ {w} : pending'[q] = pending[q]
  BY <1>1, <1>2, <1>3, NumberedKeepsBus
<1>5. [work[w] EXCEPT !.pc = "publish"] \in WorkType
  BY DEF WorkInv, WorkType
<1>6. /\ work' \in [Workers -> WorkType] /\ work'[w] = [work[w] EXCEPT !.pc = "publish"]
      /\ \A v \in Workers \ {w} : TaskInv(v)' /\ Held(v)' = Held(v) /\ Owed(v)' = Owed(v)
  BY <1>1, <1>4, <1>5, OneWorker, Bounds
<1>7. work'[w].pc = "publish" /\ work'[w].cur = work[w].cur /\ work'[w].end = work[w].end
  BY <1>6 DEF WorkInv, WorkType
<1>8. pending'[w] # None
  BY <1>4 DEF None, BusInv
<1>9. TaskInv(w)'
  BY <1>3, <1>4, <1>7, <1>8, Bounds DEF TaskInv
<1>10. Held(w)' = Held(w)
  BY <1>3, <1>7 DEF Held, Remaining
<1>11. Owed(w) \subseteq Owed(w)' \union pending'[w].ids
  <2>1. Owed(w) = work[w].cur .. work[w].end /\ Owed(w)' = last + 1 .. work[w].end
    BY <1>3, <1>4, <1>7 DEF Owed, Remaining
  <2>2. work[w].cur \in Nat /\ work[w].end \in Nat /\ last \in Nat
    BY <1>3, Bounds
  <2>3. QED
    BY <1>3, <1>4, <2>1, <2>2
<1>12. QED
  BY <1>6, <1>9, <1>10, <1>11 DEF WorkInv

\* A worker that gives up all or a page of its task.
LEMMA GiveUpKeepsWork ==
  ASSUME WorkInv, NEW w \in Workers, PageFails(w) \/ PageStale(w) \/ Finish(w)
  PROVE  /\ WorkInv' /\ lost \subseteq lost' /\ lost' \subseteq lost \union Ids
         /\ \A v \in Workers : Held(v)' \subseteq Held(v) /\ Owed(v) \subseteq Owed(v)' \union lost'
<1>1. pending' = pending /\ work[w].pc = "busy" /\ work[w] \in WorkType /\ work[w].cur # 0
  BY DEF PageFails, PageStale, Finish, Fetching, busVars, WorkInv, TaskInv
<1>2. /\ work[w].cur \in 1 .. MaxId + 1 /\ work[w].end \in 0 .. MaxId
      /\ Owed(w) = work[w].cur .. work[w].end /\ Held(w) = work[w].cur .. work[w].end
  <2>1. /\ work[w].cur \in 1 .. MaxId + 1 /\ work[w].end \in 0 .. MaxId
        /\ work[w].cur .. work[w].end \subseteq Ids
    BY <1>1, Bounds DEF WorkType
  <2>2. QED
    BY <1>1, <2>1 DEF Owed, Held, Remaining
<1>3. PICK s \in WorkType :
        /\ Worker(w, s) /\ s.pc \in {"busy", "idle"}
        /\ s.pc = "idle" => /\ s.cur = 0 /\ s.end = 0
                            /\ lost' = lost \union (work[w].cur .. work[w].end)
        /\ s.pc = "busy" => /\ s.cur \in work[w].cur .. MaxId + 1 /\ s.end = work[w].end
                            /\ s.cur - 1 <= work[w].end
                            /\ lost' = lost \union (work[w].cur .. s.cur - 1)
  <2>1. CASE PageFails(w) \/ Finish(w)
    <3>1. Leave(w)
      BY <2>1 DEF PageFails, Finish
    <3>2. [work[w] EXCEPT !.pc = "idle", !.cur = 0, !.end = 0] \in WorkType
      BY <1>1, Bounds DEF WorkType
    <3>3. QED
      BY <1>1, <3>1, <3>2 DEF Leave, Remaining, WorkType
  <2>2. CASE PageStale(w)
    <3>1. /\ Worker(w, [work[w] EXCEPT !.cur = PageEnd(w) + 1])
          /\ lost' = lost \union (work[w].cur .. PageEnd(w))
          /\ PageEnd(w) \in work[w].cur .. work[w].end
      BY <2>2, PageIds DEF PageStale
    <3>2. /\ PageEnd(w) + 1 \in work[w].cur .. MaxId + 1 /\ PageEnd(w) + 1 \in 0 .. MaxId + 1
          /\ (PageEnd(w) + 1) - 1 = PageEnd(w) /\ PageEnd(w) <= work[w].end
      BY SMTT(30), <1>2, <3>1, Bounds
    <3>3. [work[w] EXCEPT !.cur = PageEnd(w) + 1] \in WorkType
      BY <1>1, <3>2 DEF WorkType
    <3>4. QED
      BY <1>1, <3>1, <3>2, <3>3 DEF WorkType
  <2>3. QED
    BY <2>1, <2>2
<1>4. /\ work' \in [Workers -> WorkType] /\ work'[w] = s
      /\ \A v \in Workers \ {w} : TaskInv(v)' /\ Held(v)' = Held(v) /\ Owed(v)' = Owed(v)
  BY <1>1, <1>3, OneWorker
<1>5. TaskInv(w)'
  BY <1>2, <1>3, <1>4 DEF TaskInv
<1>6. /\ lost \subseteq lost' /\ lost' \subseteq lost \union Ids
      /\ Held(w)' \subseteq Held(w) /\ Owed(w) \subseteq Owed(w)' \union lost'
  <2>1. CASE s.pc = "idle"
    <3>1. Held(w)' = {}
      BY <1>3, <1>4, <2>1, Bounds DEF Held, Remaining
    <3>2. QED
      BY SMTT(30), <1>2, <1>3, <2>1, <3>1, Bounds
  <2>2. CASE s.pc = "busy"
    <3>1. /\ Held(w)' = (s.cur .. work[w].end) \intersect Ids /\ Owed(w)' = s.cur .. work[w].end
      BY <1>3, <1>4, <2>2 DEF Held, Owed, Remaining
    <3>2. s.cur \in Nat /\ work[w].cur \in Nat /\ work[w].end \in Nat
      BY <1>2, <1>3, <2>2, Bounds
    <3>3. QED
      BY <1>2, <1>3, <2>2, <3>1, <3>2, Bounds
  <2>3. QED
    BY <1>3, <2>1, <2>2
<1>7. QED
  BY <1>4, <1>5, <1>6 DEF WorkInv

\* A worker goes on when its page is on the bus.
LEMMA JournaledKeepsWork ==
  ASSUME WorkInv, BusInv, NEW p \in Publishers, Journaled(p)
  PROVE  WorkInv' /\ \A w \in Workers : Held(w)' \subseteq Held(w) /\ Owed(w)' = Owed(w)
<1>1. /\ pending'[p] = None /\ \A q \in Publishers \ {p} : pending'[q] = pending[q]
  BY JournaledKeepsBus
<1>2. /\ DOMAIN work' = Workers /\ work' = [w \in Workers |-> work'[w]]
      /\ \A w \in Workers :
           work'[w] = IF w = p /\ work[w].pc = "publish"
                      THEN [work[w] EXCEPT !.pc = "busy", !.cur = Greatest(pending[p].ids) + 1]
                      ELSE work[w]
  BY DEF Journaled
<1>3. ASSUME NEW w \in Workers
      PROVE  /\ work'[w] \in WorkType /\ TaskInv(w)'
             /\ Held(w)' \subseteq Held(w) /\ Owed(w)' = Owed(w)
  <2>1. work[w] \in WorkType /\ TaskInv(w) /\ w \in Publishers
    BY Bounds DEF WorkInv
  <2>2. CASE w = p /\ work[w].pc = "publish"
    <3> DEFINE g == Greatest(pending[w].ids)
    <3>1. /\ g \in work[w].cur .. work[w].end /\ work[w].cur \in 1 .. MaxId
          /\ work[w].end \in 1 .. MaxId
      BY <2>1, <2>2, Bounds DEF TaskInv, WorkType
    <3>2. work'[w] = [work[w] EXCEPT !.pc = "busy", !.cur = g + 1]
      BY <1>2, <2>2
    <3>3. Owed(w) = g + 1 .. work[w].end /\ Held(w) = work[w].cur .. work[w].end \intersect Ids
      BY <2>2 DEF Owed, Held, Remaining
    <3> HIDE DEF g
    <3>4. g + 1 \in 1 .. MaxId + 1 /\ g + 1 \in 0 .. MaxId + 1 /\ work[w].cur <= g + 1
      BY <3>1, Bounds
    <3>5. /\ work'[w] \in WorkType /\ work'[w].pc = "busy" /\ work'[w].cur = g + 1
          /\ work'[w].end = work[w].end
      BY <2>1, <3>2, <3>4 DEF WorkType
    <3>6. TaskInv(w)'
      BY <3>4, <3>5 DEF TaskInv
    <3>7. Owed(w)' = Owed(w) /\ Held(w)' = (g + 1 .. work[w].end) \intersect Ids
      BY <3>3, <3>5 DEF Owed, Held, Remaining
    <3>8. g + 1 .. work[w].end \subseteq work[w].cur .. work[w].end
      BY <3>1, <3>4, Bounds
    <3>9. QED
      BY <3>3, <3>5, <3>6, <3>7, <3>8
  <2>3. CASE ~(w = p /\ work[w].pc = "publish")
    <3>1. work'[w] = work[w] /\ (work[w].pc = "publish" => pending'[w] = pending[w])
      BY <1>1, <1>2, <2>1, <2>3
    <3>2. QED
      BY <2>1, <3>1 DEF TaskInv, Held, Owed, Remaining
  <2>4. QED
    BY <2>2, <2>3
<1>4. work' \in [Workers -> WorkType]
  BY <1>2, <1>3
<1>5. QED
  BY <1>3, <1>4 DEF WorkInv

LEMMA IdleWork ==
  ASSUME work' = [w \in Workers |-> Off]
  PROVE  WorkInv' /\ \A w \in Workers : Held(w)' = {}
<1>1. Off \in WorkType
  BY Bounds DEF Off, WorkType
<1>2. \A w \in Workers : work'[w] = Off
  OBVIOUS
<1>3. QED
  BY <1>1, <1>2 DEF WorkInv, TaskInv, Held, Off

-----------------------------------------------------------------------------
(* What each kind of step does to the work, the queue and what is lost *)

Switches(w) == Start(w) \/ Stop(w) \/ Exit(w)
GivesUp(w) == PageFails(w) \/ PageStale(w) \/ Finish(w)

LEMMA Kinds ==
  ASSUME [Next]_vars
  PROVE  \/ LiveBatch \/ OtherBatch \/ \E p \in Publishers : Journaled(p)
         \/ \E w \in Workers : Switches(w) \/ Claim(w) \/ PagePublish(w) \/ GivesUp(w)
         \/ PlanGap \/ PlanFails \/ MonFetch \/ MonMoves \/ MonPersist
         \/ Crash \/ UNCHANGED vars
BY Zenon DEF Next, Monitor, WorkerStep, Switches, GivesUp, MonMoves

LEMMA MonitorLeavesWork ==
  ASSUME PlanGap \/ PlanFails \/ MonFetch \/ MonMoves \/ MonPersist
  PROVE  UNCHANGED <<delivered, others, work, pending, journal, stops, crashes>>
BY Zenon
   DEF PlanGap, PlanFails, Plan, MonFetch, MonMoves, MonAdvance, MonAdvanceUnstored,
       MonLastUnread, Advance, MonPersist, busVars, budgets

LEMMA QuietKeepsWork ==
  ASSUME WorkInv, work' = work, \A w \in Workers : pending'[w] = pending[w]
  PROVE  WorkInv' /\ \A w \in Workers : Held(w)' = Held(w) /\ Owed(w)' = Owed(w)
<1>1. \A w \in Workers : TaskInv(w)' /\ Held(w)' = Held(w) /\ Owed(w)' = Owed(w)
  BY DEF WorkInv, TaskInv, Held, Owed, Remaining
<1>2. QED
  BY <1>1 DEF WorkInv

LEMMA OthersLeaveWork ==
  ASSUME LossTypes, BusInv, LiveBatch \/ OtherBatch
  PROVE  /\ work' = work /\ queue' = queue /\ lost' = lost
         /\ \A w \in Workers : pending'[w] = pending[w]
         /\ \E p \in Publishers, ids \in SUBSET Ids : Numbered(p, ids) /\ journal' = journal
<1>1. CASE LiveBatch
  <2>1. PICK ids \in SUBSET (Greatest(delivered) + 1 .. MaxId) :
          /\ Numbered("live", ids) /\ journal' = journal
          /\ work' = work /\ queue' = queue /\ lost' = lost
    BY <1>1 DEF LiveBatch
  <2>2. ids \in SUBSET Ids
    BY LiveIds
  <2>3. \A q \in Publishers \ {"live"} : pending'[q] = pending[q]
    BY <2>1, <2>2, NumberedKeepsBus, Bounds
  <2>4. QED
    BY <2>1, <2>2, <2>3, Bounds
<1>2. CASE OtherBatch
  <2>1. /\ Numbered("other", {}) /\ journal' = journal
        /\ work' = work /\ queue' = queue /\ lost' = lost
    BY <1>2 DEF OtherBatch
  <2>2. {} \in SUBSET Ids
    OBVIOUS
  <2>3. \A q \in Publishers \ {"other"} : pending'[q] = pending[q]
    BY <2>1, <2>2, NumberedKeepsBus, Bounds
  <2>4. QED
    BY <2>1, <2>2, <2>3, Bounds
<1>3. QED
  BY <1>1, <1>2

\* But for a claim and a crash, no worker holds more than before, and what it owes it
\* still owes, has published, or has given up.
HoldsNoMore == \A w \in Workers : Held(w)' \subseteq Held(w)
OwesOrPassed ==
  \A w \in Workers : Owed(w) \subseteq Owed(w)' \union pending'[w].ids \union lost'

LEMMA WorkStep ==
  ASSUME LossTypes, BusInv, WorkInv, QueueInv, [Next]_vars
  PROVE  /\ WorkInv'
         /\ \/ HoldsNoMore /\ OwesOrPassed
            \/ \E w \in Workers : Claim(w)
            \/ Crash
<1>1. CASE LiveBatch \/ OtherBatch
  BY <1>1, OthersLeaveWork, QuietKeepsWork DEF HoldsNoMore, OwesOrPassed
<1>2. CASE \E p \in Publishers : Journaled(p)
  BY <1>2, JournaledKeepsWork DEF HoldsNoMore, OwesOrPassed
<1>3. CASE \E w \in Workers : Switches(w)
  BY <1>3, SwitchKeepsWork DEF Switches, HoldsNoMore, OwesOrPassed
<1>4. CASE \E w \in Workers : Claim(w)
  BY <1>4, ClaimKeepsWork
<1>5. CASE \E w \in Workers : PagePublish(w)
  <2>1. PICK w \in Workers : PagePublish(w)
    BY <1>5
  <2>2. QED
    BY <2>1, PublishKeepsWork DEF HoldsNoMore, OwesOrPassed
<1>6. CASE \E w \in Workers : GivesUp(w)
  <2>1. PICK w \in Workers : GivesUp(w)
    BY <1>6
  <2>2. QED
    BY <2>1, GiveUpKeepsWork DEF GivesUp, HoldsNoMore, OwesOrPassed
<1>7. CASE PlanGap \/ PlanFails \/ MonFetch \/ MonMoves \/ MonPersist
  BY <1>7, MonitorLeavesWork, QuietKeepsWork DEF HoldsNoMore, OwesOrPassed
<1>8. CASE Crash
  BY <1>8, IdleWork DEF Crash
<1>9. CASE UNCHANGED vars
  BY <1>9, QuietKeepsWork DEF vars, busVars, HoldsNoMore, OwesOrPassed
<1>10. QED
  BY <1>1, <1>2, <1>3, <1>4, <1>5, <1>6, <1>7, <1>8, <1>9, Kinds

\* The interval planned before a row.
LEMMA GapOfRow ==
  ASSUME MonInv, mon.rows # <<>>, InGap
  PROVE  /\ LastSeq \in Ids /\ Row \in Ids
         /\ LastSeq + 1 \in Ids /\ GapEnd \in Ids /\ GapEnd = Row - 1 /\ LastSeq + 1 <= GapEnd
<1>1. LastSeq \in 0 .. MaxId /\ Row \in 1 .. MaxId
  BY LastSeqType, Bounds
<1>2. LastSeq # 0 /\ Row > LastSeq + 1
  BY DEF InGap
<1>3. QED
  BY <1>1, <1>2, Bounds DEF GapEnd

LEMMA QueueStep ==
  ASSUME LossTypes, BusInv, MonInv, WorkInv, QueueInv, [Next]_vars
  PROVE  /\ QueueInv'
         /\ queue' = queue \/ PlanGap \/ (\E w \in Workers : Claim(w)) \/ Crash
<1>1. CASE PlanGap
  <2>1. queue' = queue \o Slices(LastSeq + 1, GapEnd) /\ Plan
    BY <1>1 DEF PlanGap
  <2>2. Slices(LastSeq + 1, GapEnd) \in Seq(Task)
    BY <2>1, GapOfRow, SlicesCover DEF Plan
  <2>3. QED
    BY <1>1, <2>1, <2>2, ConcatProperties DEF QueueInv
<1>2. CASE \E w \in Workers : Claim(w)
  <2>1. queue # <<>> /\ queue' = Tail(queue)
    BY <1>2 DEF Claim
  <2>2. QED
    BY <1>2, <2>1, HeadTailProperties DEF QueueInv
<1>3. CASE Crash
  BY <1>3 DEF Crash, QueueInv
<1>4. CASE queue' = queue
  BY <1>4 DEF QueueInv
<1>5. (\E p \in Publishers : Journaled(p)) => queue' = queue
  BY DEF Journaled
<1>6. (\E w \in Workers : Switches(w) \/ PagePublish(w) \/ GivesUp(w)) => queue' = queue
  BY DEF Switches, Start, Stop, Exit, PagePublish, GivesUp, PageFails, PageStale, Finish
<1>7. PlanFails \/ MonFetch \/ MonMoves \/ MonPersist => queue' = queue
  BY DEF PlanFails, MonFetch, MonMoves, MonAdvance, MonAdvanceUnstored, MonLastUnread, Advance,
         MonPersist
<1>8. QED
  BY <1>1, <1>2, <1>3, <1>4, <1>5, <1>6, <1>7, OthersLeaveWork, Kinds DEF vars

LEMMA LossStep ==
  ASSUME LossTypes, BusInv, MonInv, WorkInv, [Next]_vars
  PROVE  LossTypes' /\ lost \subseteq lost'
<1>0. /\ faults \in Nat /\ stops \in Nat /\ crashes \in Nat /\ others \in Nat
  BY Bounds DEF LossTypes
<1>1. CASE LiveBatch
  <2>1. PICK ids \in SUBSET (Greatest(delivered) + 1 .. MaxId) : delivered' = delivered \union ids
    BY <1>1 DEF LiveBatch
  <2>2. ids \in SUBSET Ids /\ UNCHANGED <<others, lost, budgets>>
    BY <1>1, LiveIds DEF LiveBatch
  <2>3. QED
    BY <2>1, <2>2 DEF LossTypes, budgets
<1>2. CASE OtherBatch
  BY <1>0, <1>2, Bounds DEF OtherBatch, LossTypes, budgets
<1>3. CASE \E p \in Publishers : Journaled(p)
  BY <1>3 DEF Journaled, LossTypes, budgets
<1>4. CASE \E w \in Workers : Switches(w) \/ Claim(w) \/ PagePublish(w)
  <2>1. /\ UNCHANGED <<delivered, others, lost, faults, crashes>>
        /\ stops' = stops \/ (stops < MaxStops /\ stops' = stops + 1)
    BY <1>4, Zenon DEF Switches, Start, Stop, Exit, Claim, PagePublish, busVars, budgets
  <2>2. stops' \in 0 .. MaxStops
    BY <1>0, <2>1, Bounds DEF LossTypes
  <2>3. QED
    BY <2>1, <2>2 DEF LossTypes
<1>5. ASSUME NEW w \in Workers, GivesUp(w)
      PROVE  LossTypes' /\ lost \subseteq lost'
  <2>1. lost \subseteq lost' /\ lost' \subseteq lost \union Ids
    BY <1>5, GiveUpKeepsWork DEF GivesUp
  <2>2. /\ UNCHANGED <<delivered, others, stops, crashes>>
        /\ faults' = faults \/ (faults < MaxFaults /\ faults' = faults + 1)
    BY <1>5 DEF GivesUp, PageFails, PageStale, Finish, busVars, budgets
  <2>3. QED
    BY <1>0, <2>1, <2>2, Bounds DEF LossTypes
<1>6. CASE PlanGap
  BY <1>6, MonitorLeavesWork DEF PlanGap, LossTypes
<1>7. CASE PlanFails
  <2>1. /\ lost' = lost \union (LastSeq + 1 .. GapEnd) /\ faults < MaxFaults /\ faults' = faults + 1
        /\ Plan
    BY <1>7 DEF PlanFails
  <2>2. LastSeq + 1 .. GapEnd \subseteq Ids
    BY <2>1, GapOfRow, Bounds DEF Plan
  <2>3. faults' \in 0 .. MaxFaults
    BY <1>0, <2>1, Bounds
  <2>4. UNCHANGED <<delivered, others, stops, crashes>>
    BY <1>7, MonitorLeavesWork
  <2>5. QED
    BY <2>1, <2>2, <2>3, <2>4 DEF LossTypes
<1>8. CASE MonFetch \/ MonMoves \/ MonPersist
  <2>1. /\ lost' = lost
        /\ faults' = faults \/ (faults < MaxFaults /\ faults' = faults + 1)
    BY <1>8, Zenon
       DEF MonFetch, MonMoves, MonAdvance, MonAdvanceUnstored, MonLastUnread, Advance,
           MonPersist, budgets
  <2>2. faults' \in 0 .. MaxFaults
    BY <1>0, <2>1, Bounds DEF LossTypes
  <2>3. UNCHANGED <<delivered, others, stops, crashes>>
    BY <1>8, MonitorLeavesWork
  <2>4. QED
    BY <2>1, <2>2, <2>3 DEF LossTypes
<1>9. CASE Crash
  <2>1. lost' = lost \union ((Queued \union Claimed) \intersect 1 .. wm.seq)
    BY <1>9 DEF Crash
  <2>2. 1 .. wm.seq \subseteq Ids
    BY LastSeqType, Bounds
  <2>3. UNCHANGED <<delivered, others, faults, stops>> /\ crashes' = crashes + 1 /\ crashes < MaxCrashes
    BY <1>9 DEF Crash, busVars
  <2>4. lost \subseteq lost' /\ lost' \subseteq Ids
    BY <2>1, <2>2 DEF LossTypes
  <2>5. QED
    BY <1>0, <2>3, <2>4, Bounds DEF LossTypes
<1>10. CASE UNCHANGED vars
  BY <1>10 DEF vars, budgets, busVars, LossTypes
<1>11. QED
  BY <1>1, <1>2, <1>3, <1>4, <1>5, <1>6, <1>7, <1>8, <1>9, <1>10, Kinds

TypeInv == LossTypes /\ BusInv /\ MonInv /\ WorkInv /\ QueueInv

LEMMA TypesInductive == Spec => []TypeInv
<1>1. Init => TypeInv
  <2> SUFFICES ASSUME Init PROVE TypeInv
    OBVIOUS
  <2>1. LossTypes
    BY Bounds DEF Init, LossTypes
  <2>2. BusInv
    BY DEF Init, BusInv, None
  <2>3. MonInv
    BY Bounds DEF Init, MonInv
  <2>4. WorkInv
    BY Bounds DEF Init, WorkInv, WorkType, TaskInv, Off
  <2>5. QueueInv
    BY DEF Init, QueueInv
  <2>6. QED
    BY <2>1, <2>2, <2>3, <2>4, <2>5 DEF TypeInv
<1>2. TypeInv /\ [Next]_vars => TypeInv'
  BY LossStep, BusStep, MonStep, WorkStep, QueueStep DEF TypeInv
<1>3. QED
  BY <1>1, <1>2, PTL DEF Spec

\* Every variable has its type: the monitor reads only ids of the exchange, its cursors stay
\* within the batches issued, and tasks and pages within the ids.
THEOREM TypeCorrect == Spec => []TypeOK
<1>1. TypeInv => TypeOK
  BY DEF TypeInv, LossTypes, BusInv, MonInv, WorkInv, WorkType, QueueInv, TypeOK
<1>2. QED
  BY <1>1, TypesInductive, PTL

-----------------------------------------------------------------------------
(* No id is dropped *)

Kept == JournaledIds \union PendingIds \union Queued \union Claimed \union lost

\* Every id before the monitor is accounted for, and those of a gap it has planned.
KeptInv ==
  \A i \in Ids :
    Passed(i) \/ (mon.planned /\ LastSeq < i /\ i < Row) => i \in Kept

\* What is journaled or on the bus stays so.
LEMMA BusKeeps ==
  ASSUME LossTypes, BusInv, WorkInv, [Next]_vars
  PROVE  JournaledIds \union PendingIds \subseteq JournaledIds' \union PendingIds'
<1>1. JournaledIds \subseteq JournaledIds'
  BY BusStep
<1>2. ASSUME NEW p \in Publishers, NEW ids \in SUBSET Ids, Numbered(p, ids), journal' = journal
      PROVE  PendingIds \subseteq PendingIds'
  <2>1. pending[p] = None /\ \A q \in Publishers \ {p} : pending'[q] = pending[q]
    BY <1>2, NumberedKeepsBus
  <2>2. None.ids = {}
    BY DEF None
  <2>3. QED
    BY <2>1, <2>2 DEF PendingIds
<1>3. CASE LiveBatch \/ OtherBatch
  BY <1>1, <1>2, <1>3, OthersLeaveWork
<1>4. ASSUME NEW w \in Workers, PagePublish(w)
      PROVE  PendingIds \subseteq PendingIds'
  <2>1. PICK last \in work[w].cur .. PageEnd(w) : Numbered(w, work[w].cur .. last)
    BY <1>4 DEF PagePublish
  <2>2. work[w].cur .. last \in SUBSET Ids /\ journal' = journal /\ w \in Publishers
    BY <1>4, <2>1, PageIds, Bounds DEF PagePublish
  <2>3. QED
    BY <1>2, <2>1, <2>2
<1>5. ASSUME NEW p \in Publishers, Journaled(p)
      PROVE  PendingIds \subseteq JournaledIds' \union PendingIds'
  <2>1. /\ \A q \in Publishers \ {p} : pending'[q] = pending[q]
        /\ \E b \in DOMAIN journal' : journal'[b] = pending[p].ids
    BY <1>5, JournaledKeepsBus
  <2>2. pending[p].ids \subseteq JournaledIds'
    BY <2>1 DEF JournaledIds
  <2>3. \A q \in Publishers \ {p} : pending[q].ids \subseteq PendingIds'
    BY <2>1 DEF PendingIds
  <2>4. QED
    BY <2>2, <2>3 DEF PendingIds
<1>6. CASE UNCHANGED busVars
  BY <1>1, <1>6 DEF busVars, PendingIds
<1>7. QED
  BY <1>1, <1>3, <1>4, <1>5, <1>6, BusChanges

\* No step but a crash takes an id out of what is kept.
LEMMA StepKeeps ==
  ASSUME TypeInv, [Next]_vars, ~Crash
  PROVE  Kept \subseteq Kept'
<1> USE DEF TypeInv
<1>1. JournaledIds \union PendingIds \union lost \subseteq Kept'
  BY BusKeeps, LossStep DEF Kept
<1>2. Claimed' \subseteq Kept' /\ Queued' \subseteq Kept' /\ lost' \subseteq Kept'
      /\ PendingIds' \subseteq Kept'
  BY DEF Kept
<1>3. CASE \E w \in Workers : Claim(w)
  <2>1. PICK w \in Workers : Claim(w)
    BY <1>3
  <2>2. /\ queue # <<>> /\ queue' = Tail(queue)
        /\ Owed(w)' = Head(queue).lo .. Head(queue).hi /\ Owed(w) = {}
        /\ \A v \in Workers \ {w} : Owed(v)' = Owed(v)
    BY <2>1, ClaimKeepsWork
  <2>3. /\ Len(queue) \in Nat \ {0} /\ DOMAIN queue = 1 .. Len(queue)
        /\ Head(queue) = queue[1] /\ DOMAIN queue' = 1 .. Len(queue) - 1
        /\ \A k \in 1 .. Len(queue) - 1 : queue'[k] = queue[k + 1]
    BY <2>2, HeadTailProperties DEF QueueInv
  <2>4. \A k \in DOMAIN queue : k = 1 \/ (k - 1 \in DOMAIN queue' /\ queue'[k - 1] = queue[k])
    BY <2>3
  <2>5. Queued \subseteq Queued' \union Owed(w)'
    BY <2>2, <2>3, <2>4 DEF Queued
  <2>6. Claimed \subseteq Claimed' /\ Owed(w)' \subseteq Claimed'
    BY <2>2, ClaimedIsOwed, ClaimedIsOwedNext
  <2>7. QED
    BY <1>1, <1>2, <2>5, <2>6 DEF Kept
<1>4. CASE ~\E w \in Workers : Claim(w)
  <2>1. Claimed \subseteq Kept'
    <3>1. OwesOrPassed
      BY <1>4, WorkStep
    <3>2. \A w \in Workers : pending'[w].ids \subseteq PendingIds'
      BY Bounds DEF PendingIds
    <3>3. QED
      BY <1>2, <3>1, <3>2, ClaimedIsOwed, ClaimedIsOwedNext DEF OwesOrPassed
  <2>2. Queued \subseteq Queued'
    <3>1. CASE queue' = queue
      BY <3>1 DEF Queued
    <3>2. CASE PlanGap
      <4>1. queue' = queue \o Slices(LastSeq + 1, GapEnd) /\ Plan
        BY <3>2 DEF PlanGap
      <4>2. Slices(LastSeq + 1, GapEnd) \in Seq(Task)
        BY <4>1, GapOfRow, SlicesCover DEF Plan
      <4>3. \A k \in DOMAIN queue : k \in DOMAIN queue' /\ queue'[k] = queue[k]
        BY <4>1, <4>2, ConcatProperties DEF QueueInv
      <4>4. QED
        BY <4>3 DEF Queued
    <3>3. QED
      BY <1>4, <3>1, <3>2, QueueStep
  <2>3. QED
    BY <1>1, <1>2, <2>1, <2>2 DEF Kept
<1>5. QED
  BY <1>3, <1>4

\* A crash loses what is queued and claimed; up to the watermark this is given up.
LEMMA CrashKeeps ==
  ASSUME TypeInv, [Next]_vars, Crash
  PROVE  \A i \in Kept : i \in 1 .. wm.seq => i \in Kept'
<1>1. JournaledIds \union PendingIds \union lost \subseteq Kept'
  BY BusKeeps, LossStep DEF Kept, TypeInv
<1>2. (Queued \union Claimed) \intersect 1 .. wm.seq \subseteq Kept'
  BY DEF Crash, Kept
<1>3. QED
  BY <1>1, <1>2 DEF Kept

\* Planning keeps the gap, or gives it up.
LEMMA PlanKeeps ==
  ASSUME TypeInv, PlanGap \/ PlanFails
  PROVE  LastSeq + 1 .. Row - 1 \subseteq Kept'
<1>1. Plan /\ GapEnd = Row - 1 /\ LastSeq + 1 \in Ids /\ GapEnd \in Ids /\ LastSeq + 1 <= GapEnd
  BY GapOfRow DEF TypeInv, PlanGap, PlanFails, Plan
<1>2. CASE PlanFails
  BY <1>1, <1>2 DEF PlanFails, Kept
<1>3. CASE PlanGap
  <2> DEFINE s == Slices(LastSeq + 1, GapEnd)
  <2>1. queue' = queue \o s
    BY <1>3 DEF PlanGap
  <2>2. /\ s \in Seq(Task)
        /\ \A i \in LastSeq + 1 .. GapEnd : \E k \in DOMAIN s : i \in s[k].lo .. s[k].hi
    BY <1>1, SlicesCover
  <2> HIDE DEF s
  <2>3. \A k \in DOMAIN s : Len(queue) + k \in DOMAIN queue' /\ queue'[Len(queue) + k] = s[k]
    BY <2>1, <2>2, ConcatProperties DEF TypeInv, QueueInv
  <2>4. LastSeq + 1 .. GapEnd \subseteq Queued'
    BY <2>2, <2>3 DEF Queued
  <2>5. QED
    BY <1>1, <2>4 DEF Kept
<1>4. QED
  BY <1>2, <1>3

LEMMA KeptStep ==
  ASSUME TypeInv, TypeInv', KeptInv, [Next]_vars
  PROVE  KeptInv'
<1> USE DEF TypeInv
<1>0. LastSeq \in 0 .. MaxId /\ wm.seq \in 0 .. MaxId /\ wm.seq <= LastSeq /\ first \in 0 .. MaxId
  BY LastSeqType DEF MonInv
<1>1. CASE Crash
  <2>1. LastSeq' = wm.seq /\ first' = first /\ ~mon'.planned
    BY <1>1, CrashKeepsMon
  <2>2. ASSUME NEW i \in Ids, first # 0, first <= i, i <= wm.seq
        PROVE  i \in Kept'
    <3>1. Passed(i) /\ i \in 1 .. wm.seq
      BY <1>0, <2>2, Bounds DEF Passed
    <3>2. QED
      BY <1>1, <3>1, CrashKeeps DEF KeptInv
  <2>3. QED
    BY <2>1, <2>2 DEF KeptInv, Passed
<1>2. CASE ~Crash
  <2>1. Kept \subseteq Kept'
    BY <1>2, StepKeeps
  <2>2. CASE PlanGap \/ PlanFails
    <3>1. /\ LastSeq' = LastSeq /\ Row' = Row /\ first' = first
      BY <2>2, PlanKeepsMon DEF PlanGap, PlanFails
    <3>2. LastSeq + 1 .. Row - 1 \subseteq Kept' /\ Row \in Ids
      BY <2>2, PlanKeeps, GapOfRow DEF PlanGap, PlanFails, Plan
    <3>3. \A i \in Ids : LastSeq < i /\ i < Row => i \in LastSeq + 1 .. Row - 1
      BY <1>0, <3>2, Bounds
    <3>4. QED
      BY <2>1, <3>1, <3>2, <3>3 DEF KeptInv, Passed
  <2>3. CASE MonMoves
    <3>1. /\ mon.rows # <<>> /\ ~mon'.planned
          /\ \/ /\ LastSeq' = Advanced(LastSeq)
                /\ first' = IF LastSeq = 0 THEN Row ELSE first
                /\ InGap => mon.planned
             \/ LastSeq' = Row /\ first' = Row
      BY <2>3, MovesKeepMon
    <3>2. Row \in Kept' /\ Row \in Ids
      BY <2>1, <3>1, LastSeqType DEF Kept
    <3>3. ASSUME NEW i \in Ids, Passed(i)'
          PROVE  i \in Kept'
      <4>1. first' # 0 /\ first' <= i /\ i <= LastSeq' /\ i \in 1 .. MaxId /\ Row \in 1 .. MaxId
        BY <3>2, <3>3, Bounds DEF Passed
      <4>2. CASE first' = Row /\ (LastSeq' = Row \/ LastSeq = 0)
        <5>1. i = Row
          BY <1>0, <3>1, <4>1, <4>2 DEF Advanced
        <5>2. QED
          BY <3>2, <5>1
      <4>3. CASE LastSeq' = Advanced(LastSeq) /\ LastSeq # 0 /\ first' = first /\ (InGap => mon.planned)
        <5>1. CASE i <= LastSeq
          BY <2>1, <4>1, <4>3, <5>1 DEF KeptInv, Passed
        <5>2. CASE i > LastSeq /\ i < Row
          <6>1. InGap
            BY <1>0, <4>1, <4>3, <5>2, Bounds DEF InGap
          <6>2. QED
            BY <2>1, <4>3, <5>2, <6>1 DEF KeptInv
        <5>3. CASE i > LastSeq /\ i >= Row
          <6>1. i = Row
            BY <1>0, <4>1, <4>3, <5>3 DEF Advanced
          <6>2. QED
            BY <3>2, <6>1
        <5>4. QED
          BY <1>0, <4>1, <5>1, <5>2, <5>3
      <4>4. QED
        BY <3>1, <4>2, <4>3
    <3>4. QED
      BY <3>1, <3>3 DEF KeptInv
  <2>4. CASE MonFetch \/ MonPersist
    <3>1. LastSeq' = LastSeq /\ ~mon'.planned /\ first' = first
      BY <2>4, FetchKeepsMon, PersistKeepsMon DEF MonFetch
    <3>2. QED
      BY <2>1, <3>1 DEF KeptInv, Passed
  <2>5. CASE UNCHANGED monVars
    BY <2>1, <2>5 DEF monVars, KeptInv, Passed, LastSeq, Row
  <2>6. ~UNCHANGED monVars => PlanGap \/ PlanFails \/ MonMoves \/ MonFetch \/ MonPersist
    <3>1. ASSUME NEW w \in Workers, Switches(w) \/ Claim(w) \/ PagePublish(w) \/ GivesUp(w)
          PROVE  UNCHANGED monVars
      BY <3>1, Zenon
         DEF Switches, Start, Stop, Exit, Claim, PagePublish, GivesUp, PageFails, PageStale, Finish
    <3>2. QED
      BY <1>2, <3>1, Kinds, Zenon DEF LiveBatch, OtherBatch, Journaled, vars
  <2>7. QED
    BY <2>2, <2>3, <2>4, <2>5, <2>6
<1>3. QED
  BY <1>1, <1>2

\* Whatever fails, stops or crashes, an id the monitor has passed is journaled, on the bus,
\* planned, being fetched, or was given up by that failure: no hand-over drops it.
THEOREM NothingDropped == Spec => []Accounted
<1>1. Init => KeptInv
  BY DEF Init, KeptInv, Passed
<1>2. TypeInv /\ TypeInv' /\ KeptInv /\ [Next]_vars => KeptInv'
  BY KeptStep
<1>3. KeptInv => Accounted
  BY DEF KeptInv, Kept, Accounted
<1>4. QED
  BY <1>1, <1>2, <1>3, TypesInductive, PTL DEF Spec

-----------------------------------------------------------------------------
(* No id is in two tasks *)

\* No task reaches beyond this id.
Planned == IF mon.planned THEN Row - 1 ELSE mon.seq

\* Tasks are planned upwards and claimed in that order: what is held lies before what is
\* queued, the queue ascends, and all of it lies at or before what was planned.
OrderInv ==
  /\ \A j, k \in DOMAIN queue : j < k => queue[j].hi < queue[k].lo
  /\ \A k \in DOMAIN queue : queue[k].lo <= queue[k].hi /\ queue[k].hi <= Planned
  /\ \A w \in Workers : \A i \in Held(w) :
       /\ i <= Planned
       /\ \A k \in DOMAIN queue : i < queue[k].lo
  /\ \A v, w \in Workers : v # w => Held(v) \intersect Held(w) = {}

LEMMA PlannedType ==
  ASSUME TypeInv
  PROVE  /\ Planned \in 0 .. MaxId
         /\ \A k \in DOMAIN queue : queue[k].lo \in Ids /\ queue[k].hi \in Ids
         /\ \A w \in Workers : Held(w) \subseteq Ids
<1>1. mon.seq \in 0 .. MaxId /\ (mon.planned => Row \in 1 .. MaxId)
  BY LastSeqType, Bounds DEF TypeInv, MonInv
<1>2. Planned \in 0 .. MaxId
  BY <1>1, Bounds DEF Planned
<1>3. \A k \in DOMAIN queue : queue[k].lo \in Ids /\ queue[k].hi \in Ids
  <2>1. \A k \in DOMAIN queue : queue[k] \in Task
    BY DEF TypeInv, QueueInv
  <2>2. QED
    BY <2>1 DEF Task
<1>4. QED
  BY <1>2, <1>3 DEF Held

LEMMA PlannedTypeNext ==
  ASSUME TypeInv'
  PROVE  Planned' \in 0 .. MaxId
<1>1. mon'.seq \in 0 .. MaxId
  BY DEF TypeInv, MonInv
<1>2. mon'.planned => Row' \in 1 .. MaxId
  <2> SUFFICES ASSUME mon'.planned PROVE Row' \in 1 .. MaxId
    OBVIOUS
  <2>1. mon'.rows # <<>> /\ mon'.rows \in Seq(Ids)
    BY DEF TypeInv, MonInv
  <2>2. QED
    BY <2>1, HeadTailProperties, Bounds DEF Row
<1>3. QED
  BY <1>1, <1>2, Bounds DEF Planned

\* Only a crash takes back what was planned.
LEMMA PlannedGrows ==
  ASSUME TypeInv, TypeInv', [Next]_vars, ~Crash
  PROVE  Planned <= Planned'
<1> USE DEF TypeInv
<1>0. /\ LastSeq \in 0 .. MaxId /\ Planned \in 0 .. MaxId /\ Planned' \in 0 .. MaxId
      /\ mon.seq \in 0 .. MaxId /\ mon.seq <= LastSeq
  <2>1. TypeInv /\ TypeInv'
    OBVIOUS
  <2>2. mon.seq \in 0 .. MaxId /\ LastSeq \in 0 .. MaxId /\ mon.seq <= LastSeq
    BY LastSeqType, Bounds DEF MonInv, LastSeq
  <2>3. Planned \in 0 .. MaxId
    BY PlannedType
  <2>4. Planned' \in 0 .. MaxId
    BY PlannedTypeNext
  <2>5. QED
    BY <2>2, <2>3, <2>4
<1>1. CASE Plan
  <2>1. ~mon.planned /\ mon'.planned /\ Row' = Row /\ InGap /\ mon.rows # <<>>
    BY <1>1, PlanKeepsMon
  <2>2. LastSeq + 1 <= Row - 1 /\ Row \in 1 .. MaxId
    BY <2>1, GapOfRow, Bounds
  <2>3. QED
    BY <1>0, <2>1, <2>2 DEF Planned
<1>2. CASE MonMoves
  <2>1. /\ mon.rows # <<>> /\ ~mon'.planned /\ mon'.seq # 0
        /\ \/ LastSeq' = Advanced(LastSeq)
           \/ LastSeq' = Row /\ mon.seq = 0 /\ ~mon.planned
    BY <1>2, MovesKeepMon
  <2>2. Row \in 1 .. MaxId /\ LastSeq' = mon'.seq /\ Planned' = mon'.seq
    BY <2>1, LastSeqType, Bounds DEF LastSeq, Planned
  <2>3. QED
    BY <1>0, <2>1, <2>2 DEF Planned, Advanced
<1>3. CASE MonFetch \/ MonPersist
  <2>1. ~mon.planned /\ ~mon'.planned /\ mon'.seq = mon.seq
    <3>1. CASE MonFetch
      BY <3>1, FetchKeepsMon DEF MonFetch, MonInv
    <3>2. CASE MonPersist
      BY <3>2, PersistKeepsMon
    <3>3. QED
      BY <1>3, <3>1, <3>2
  <2>2. QED
    BY <1>0, <2>1 DEF Planned
<1>4. CASE UNCHANGED monVars
  BY <1>0, <1>4 DEF monVars, Planned, Row
<1>5. QED
  BY <1>1, <1>2, <1>3, <1>4, MonChanges

LEMMA OrderStep ==
  ASSUME TypeInv, TypeInv', OrderInv, [Next]_vars
  PROVE  OrderInv'
<1> USE DEF TypeInv
<1>1. CASE Crash
  <2>1. queue' = <<>> /\ \A w \in Workers : Held(w)' = {}
    BY <1>1, IdleWork DEF Crash
  <2>2. QED
    BY <2>1 DEF OrderInv
<1>2. CASE \E w \in Workers : Claim(w)
  <2>1. PICK w \in Workers : Claim(w)
    BY <1>2
  <2>2. /\ queue # <<>> /\ queue' = Tail(queue)
        /\ Held(w)' = Head(queue).lo .. Head(queue).hi
        /\ \A v \in Workers \ {w} : Held(v)' = Held(v)
    BY <2>1, ClaimKeepsWork
  <2>3. /\ Len(queue) \in Nat \ {0} /\ DOMAIN queue = 1 .. Len(queue)
        /\ Head(queue) = queue[1] /\ DOMAIN queue' = 1 .. Len(queue) - 1
        /\ \A k \in 1 .. Len(queue) - 1 : queue'[k] = queue[k + 1]
    BY <2>2, HeadTailProperties DEF QueueInv
  <2>4. 1 \in DOMAIN queue /\ \A k \in DOMAIN queue' : k + 1 \in DOMAIN queue /\ 1 < k + 1
    BY <2>3
  <2>5. Planned' = Planned
    BY <2>1 DEF Claim, monVars, Planned, Row
  <2>6. /\ Planned \in 0 .. MaxId
        /\ \A k \in DOMAIN queue : queue[k].lo \in Nat /\ queue[k].hi \in Nat
        /\ \A v \in Workers : Held(v) \subseteq Nat
    BY PlannedType, Bounds
  <2>7. \A j, k \in DOMAIN queue' : j < k => queue'[j].hi < queue'[k].lo
    BY <2>3, <2>4 DEF OrderInv
  <2>8. \A k \in DOMAIN queue' : queue'[k].lo <= queue'[k].hi /\ queue'[k].hi <= Planned
    BY <2>3, <2>4 DEF OrderInv
  <2>9. \A i \in Held(w)' :
          /\ i <= Planned
          /\ \A k \in DOMAIN queue' : i < queue'[k].lo
    <3> SUFFICES ASSUME NEW i \in Held(w)'
                 PROVE  i <= Planned /\ \A k \in DOMAIN queue' : i < queue'[k].lo
      OBVIOUS
    <3>1. i \in Int /\ i <= queue[1].hi /\ queue[1].hi <= Planned /\ queue[1].hi \in Nat
      BY <2>2, <2>3, <2>4, <2>6 DEF OrderInv
    <3>2. \A k \in DOMAIN queue' : queue[1].hi < queue'[k].lo /\ queue'[k].lo \in Nat
      BY <2>3, <2>4, <2>6 DEF OrderInv
    <3>3. QED
      BY <2>6, <3>1, <3>2, Bounds
  <2>10. \A v \in Workers \ {w} : Held(v)' \intersect Held(w)' = {}
    <3> SUFFICES ASSUME NEW v \in Workers \ {w}, NEW i \in Held(v), i \in Held(w)'
                 PROVE  FALSE
      BY <2>2
    <3>1. i < queue[1].lo /\ queue[1].lo \in Nat /\ i \in Nat
      BY <2>4, <2>6 DEF OrderInv
    <3>2. queue[1].lo <= i
      BY <2>2, <2>3
    <3>3. QED
      BY <3>1, <3>2
  <2>11. \A v \in Workers \ {w} : \A i \in Held(v)' :
           i <= Planned /\ \A k \in DOMAIN queue' : i < queue'[k].lo
    BY <2>2, <2>3, <2>4 DEF OrderInv
  <2>12. \A v \in Workers : \A i \in Held(v)' :
           i <= Planned' /\ \A k \in DOMAIN queue' : i < queue'[k].lo
    BY <2>5, <2>9, <2>11
  <2>13. \A u, v \in Workers : u # v => Held(u)' \intersect Held(v)' = {}
    <3> SUFFICES ASSUME NEW u \in Workers, NEW v \in Workers, u # v
                 PROVE  Held(u)' \intersect Held(v)' = {}
      OBVIOUS
    <3>1. CASE u = w
      BY <2>10, <3>1
    <3>2. CASE v = w
      BY <2>10, <3>2
    <3>3. CASE u # w /\ v # w
      BY <2>2, <3>3 DEF OrderInv
    <3>4. QED
      BY <3>1, <3>2, <3>3
  <2>14. QED
    BY <2>5, <2>7, <2>8, <2>12, <2>13 DEF OrderInv
<1>3. CASE ~Crash /\ ~\E w \in Workers : Claim(w)
  <2>1. /\ HoldsNoMore /\ Planned <= Planned'
        /\ queue' = queue \/ PlanGap
    BY <1>3, WorkStep, QueueStep, PlannedGrows
  <2>2. /\ Planned \in Int /\ Planned' \in Int
        /\ \A k \in DOMAIN queue : queue[k].lo \in Nat /\ queue[k].hi \in Nat
        /\ \A w \in Workers : Held(w) \subseteq Nat
    <3>1. /\ Planned \in 0 .. MaxId
          /\ \A k \in DOMAIN queue : queue[k].lo \in Nat /\ queue[k].hi \in Nat
          /\ \A w \in Workers : Held(w) \subseteq Nat
      BY PlannedType, Bounds
    <3>2. Planned' \in Int
      BY PlannedTypeNext
    <3>3. QED
      BY <3>1, <3>2
  <2>3. \A v, w \in Workers : v # w => Held(v)' \intersect Held(w)' = {}
    BY <2>1 DEF HoldsNoMore, OrderInv
  <2>4. \A w \in Workers : \A i \in Held(w)' :
          i \in Nat /\ i <= Planned /\ \A k \in DOMAIN queue : i < queue[k].lo
    BY <2>1, <2>2 DEF HoldsNoMore, OrderInv
  <2>5. CASE queue' = queue
    <3>1. \A w \in Workers : \A i \in Held(w)' : i <= Planned'
      BY <2>1, <2>2, <2>4
    <3>2. \A k \in DOMAIN queue : queue[k].lo <= queue[k].hi /\ queue[k].hi <= Planned'
      BY <2>1, <2>2 DEF OrderInv
    <3>3. QED
      BY <2>3, <2>4, <2>5, <3>1, <3>2 DEF OrderInv
  <2>6. CASE PlanGap
    <3> DEFINE s == Slices(LastSeq + 1, GapEnd)
    <3>1. /\ queue' = queue \o s /\ Plan
      BY <2>6 DEF PlanGap
    <3>2. /\ ~mon.planned /\ mon'.planned /\ Row' = Row /\ InGap /\ mon.rows # <<>>
      BY <3>1, PlanKeepsMon
    <3>3. /\ LastSeq + 1 \in Ids /\ GapEnd \in Ids /\ GapEnd = Row - 1
          /\ LastSeq + 1 <= GapEnd /\ LastSeq \in Ids
      BY <3>2, GapOfRow
    <3>4. Planned < LastSeq + 1 /\ Planned' = GapEnd
      <4>1. Planned = mon.seq /\ Planned' = Row - 1
        BY <3>2 DEF Planned
      <4>2. mon.seq <= LastSeq /\ mon.seq \in 0 .. MaxId
        BY <3>3, Bounds DEF MonInv, LastSeq
      <4>3. QED
        BY <3>3, <4>1, <4>2, Bounds
    <3>5. /\ s \in Seq(Task)
          /\ \A k \in DOMAIN s : LastSeq + 1 <= s[k].lo /\ s[k].hi <= GapEnd
          /\ \A j, k \in DOMAIN s : j < k => s[j].hi < s[k].lo
          /\ \A k \in DOMAIN s : s[k].lo <= s[k].hi
      BY <3>3, SlicesCover
    <3> HIDE DEF s
    <3>6. /\ DOMAIN queue = 1 .. Len(queue) /\ Len(queue) \in Nat
          /\ DOMAIN s = 1 .. Len(s) /\ Len(s) \in Nat
          /\ DOMAIN queue' = 1 .. Len(queue) + Len(s)
          /\ \A k \in 1 .. Len(queue) + Len(s) :
               queue'[k] = IF k <= Len(queue) THEN queue[k] ELSE s[k - Len(queue)]
      BY <3>1, <3>5, ConcatProperties DEF QueueInv
    <3>7. /\ \A k \in DOMAIN s : s[k].lo \in Nat /\ s[k].hi \in Nat
          /\ GapEnd \in Nat /\ LastSeq + 1 \in Nat
      <4>1. \A k \in DOMAIN s : s[k] \in Task
        BY <3>5
      <4>2. QED
        BY <3>3, <4>1, Bounds DEF Task
    <3>8. \A k \in DOMAIN queue' :
            \/ k \in DOMAIN queue /\ queue'[k] = queue[k]
            \/ k - Len(queue) \in DOMAIN s /\ queue'[k] = s[k - Len(queue)] /\ k > Len(queue)
      BY <3>6
    <3>9. \A k \in DOMAIN queue' :
            /\ queue'[k].lo <= queue'[k].hi /\ queue'[k].hi <= Planned'
            /\ queue'[k].lo \in Nat
            /\ k \notin DOMAIN queue => LastSeq + 1 <= queue'[k].lo
      BY <2>1, <2>2, <3>4, <3>5, <3>6, <3>7, <3>8 DEF OrderInv
    <3>10. \A j, k \in DOMAIN queue' : j < k => queue'[j].hi < queue'[k].lo
      <4> SUFFICES ASSUME NEW j \in DOMAIN queue', NEW k \in DOMAIN queue', j < k
                   PROVE  queue'[j].hi < queue'[k].lo
        OBVIOUS
      <4>1. CASE j \in DOMAIN queue /\ k \in DOMAIN queue
        BY <3>6, <4>1 DEF OrderInv
      <4>2. CASE j \in DOMAIN queue /\ k \notin DOMAIN queue
        <5>1. queue'[j] = queue[j] /\ queue[j].hi <= Planned /\ queue[j].hi \in Nat
          BY <2>2, <3>6, <4>2 DEF OrderInv
        <5>2. LastSeq + 1 <= queue'[k].lo /\ queue'[k].lo \in Nat
          BY <3>9, <4>2
        <5>3. QED
          BY <2>2, <3>4, <3>7, <5>1, <5>2
      <4>3. CASE j \notin DOMAIN queue
        <5>1. /\ j - Len(queue) \in DOMAIN s /\ k - Len(queue) \in DOMAIN s
              /\ j - Len(queue) < k - Len(queue)
              /\ queue'[j] = s[j - Len(queue)] /\ queue'[k] = s[k - Len(queue)]
          BY <3>6, <4>3
        <5>2. QED
          BY <3>5, <5>1
      <4>4. QED
        BY <4>1, <4>2, <4>3
    <3>11. \A w \in Workers : \A i \in Held(w)' :
             i <= Planned' /\ \A k \in DOMAIN queue' : i < queue'[k].lo
      <4> SUFFICES ASSUME NEW w \in Workers, NEW i \in Held(w)'
                   PROVE  i <= Planned' /\ \A k \in DOMAIN queue' : i < queue'[k].lo
        OBVIOUS
      <4>1. i \in Nat /\ i <= Planned /\ \A k \in DOMAIN queue : i < queue[k].lo
        BY <2>4
      <4>2. i <= Planned' /\ i < LastSeq + 1
        BY <2>1, <2>2, <3>4, <3>7, <4>1
      <4>3. ASSUME NEW k \in DOMAIN queue'
            PROVE  i < queue'[k].lo
        <5>1. CASE k \in DOMAIN queue
          BY <3>6, <4>1, <5>1
        <5>2. CASE k \notin DOMAIN queue
          BY <3>7, <3>9, <4>1, <4>2, <5>2
        <5>3. QED
          BY <5>1, <5>2
      <4>4. QED
        BY <4>2, <4>3
    <3>12. QED
      BY <2>3, <3>9, <3>10, <3>11 DEF OrderInv
  <2>7. QED
    BY <2>1, <2>5, <2>6
<1>4. QED
  BY <1>1, <1>2, <1>3

\* A set of which no two members differ has at most one.
LEMMA AtMostOne ==
  ASSUME NEW S, \A x, y \in S : x = y
  PROVE  Cardinality(S) = 0 \/ Cardinality(S) = 1
<1>1. CASE S = {}
  BY <1>1, FS_EmptySet
<1>2. CASE S # {}
  <2>1. PICK x \in S : S = {x}
    BY <1>2
  <2>2. QED
    BY <2>1, FS_Singleton
<1>3. QED
  BY <1>1, <1>2

LEMMA OrderedTasksAreDisjoint ==
  ASSUME TypeInv, OrderInv
  PROVE  TasksDisjoint
<1> DEFINE queued(i) == {k \in DOMAIN queue : i \in queue[k].lo .. queue[k].hi}
           claimed(i) == {w \in Workers : work[w].pc # "off" /\ i \in Remaining(w)}
<1>1. ASSUME NEW i \in Ids
      PROVE  Cardinality(queued(i)) + Cardinality(claimed(i)) <= 1
  <2>1. /\ \A k \in DOMAIN queue : queue[k].lo \in Nat /\ queue[k].hi \in Nat
        /\ i \in Nat /\ DOMAIN queue = 1 .. Len(queue) /\ Len(queue) \in Nat
    BY PlannedType, Bounds DEF TypeInv, QueueInv
  <2>2. \A w \in claimed(i) : i \in Held(w)
    BY DEF Held
  <2>3. \A j, k \in queued(i) : j = k
    <3> SUFFICES ASSUME NEW j \in DOMAIN queue, NEW k \in DOMAIN queue, j < k,
                        i <= queue[j].hi, queue[k].lo <= i
                 PROVE  FALSE
      BY <2>1
    <3>1. queue[j].hi < queue[k].lo
      BY DEF OrderInv
    <3>2. QED
      BY <2>1, <3>1
  <2>4. \A v, w \in claimed(i) : v = w
    BY <2>2 DEF OrderInv
  <2>5. queued(i) = {} \/ claimed(i) = {}
    <3> SUFFICES ASSUME NEW k \in queued(i), NEW w \in claimed(i)
                 PROVE  FALSE
      OBVIOUS
    <3>1. i < queue[k].lo /\ queue[k].lo <= i
      BY <2>1, <2>2 DEF OrderInv
    <3>2. QED
      BY <2>1, <3>1
  <2>6. /\ Cardinality(queued(i)) = 0 \/ Cardinality(queued(i)) = 1
        /\ Cardinality(claimed(i)) = 0 \/ Cardinality(claimed(i)) = 1
        /\ Cardinality({}) = 0
    <3> HIDE DEF queued, claimed
    <3>1. QED
      BY <2>3, <2>4, AtMostOne, FS_EmptySet
  <2> HIDE DEF queued, claimed
  <2>7. QED
    BY <2>5, <2>6
<1>2. QED
  BY <1>1 DEF TasksDisjoint

\* No trade is in two tasks, so no two workers fetch it: also when the watermark cannot be
\* read and the monitor starts at an earlier id than it had reached.
THEOREM TasksStayDisjoint == Spec => []TasksDisjoint
<1>1. Init => OrderInv
  BY Bounds DEF Init, OrderInv, Held, Off
<1>2. TypeInv /\ TypeInv' /\ OrderInv /\ [Next]_vars => OrderInv'
  BY OrderStep
<1>3. TypeInv /\ OrderInv => TasksDisjoint
  BY OrderedTasksAreDisjoint
<1>4. QED
  BY <1>1, <1>2, <1>3, TypesInductive, PTL DEF Spec

=============================================================================
