---------------------------- MODULE FiniteOrders ----------------------------
(***************************************************************************)
(* A finite set that is not empty has a first and a last element in any    *)
(* strict total order.  Without induction over the set: the element        *)
(* x is sent to the number of elements before it; no two elements have the *)
(* same number, there are as many numbers as elements, hence one element   *)
(* has nothing before it and one has everything else.  Induction over an   *)
(* interval follows, by the first element that it would miss.              *)
(***************************************************************************)
EXTENDS Integers, FiniteSets, Functions, FiniteSetTheorems, TLAPS

StrictOrder(R, S) ==
  /\ \A x \in S : <<x, x>> \notin R
  /\ \A x, y \in S : x = y \/ <<x, y>> \in R \/ <<y, x>> \in R
  /\ \A x, y, z \in S : <<x, y>> \in R /\ <<y, z>> \in R => <<x, z>> \in R

\* The ORDER BY of a page has a first and a last row, and a list of batches or of trade ids
\* a last one.
THEOREM FirstAndLast ==
  ASSUME NEW S, IsFiniteSet(S), S # {}, NEW R, StrictOrder(R, S)
  PROVE  /\ \E x \in S : \A y \in S : <<y, x>> \notin R
         /\ \E x \in S : \A y \in S : <<x, y>> \notin R
<1> DEFINE Before(x) == {y \in S : <<y, x>> \in R}
           n == Cardinality(S)
           f == [x \in S |-> Cardinality(Before(x))]
<1>1. n \in Nat \ {0}
  BY FS_CardinalityType, FS_EmptySet
<1>2. ASSUME NEW x \in S
      PROVE  /\ IsFiniteSet(Before(x)) /\ x \notin Before(x)
             /\ f[x] \in 0 .. n - 1
             /\ f[x] = 0 => Before(x) = {}
             /\ f[x] = n - 1 => S \ {x} = Before(x)
  <2>1. Before(x) \in SUBSET (S \ {x})
    BY <1>2 DEF StrictOrder
  <2>2. IsFiniteSet(S \ {x}) /\ Cardinality(S \ {x}) = n - 1
    BY <1>2, FS_RemoveElement
  <2>3. /\ IsFiniteSet(Before(x)) /\ Cardinality(Before(x)) <= n - 1
        /\ Cardinality(Before(x)) = n - 1 => S \ {x} = Before(x)
    <3> HIDE DEF Before
    <3>1. QED
      BY <2>1, <2>2, FS_Subset
  <2>4. Cardinality(Before(x)) \in Nat /\ (Cardinality(Before(x)) = 0 => Before(x) = {})
    BY <2>3, FS_CardinalityType, FS_EmptySet
  <2>5. f[x] = Cardinality(Before(x))
    BY <1>2
  <2> HIDE DEF Before, f, n
  <2>6. QED
    BY <1>1, <2>1, <2>3, <2>4, <2>5
<1>3. ASSUME NEW x \in S, NEW y \in S, <<x, y>> \in R
      PROVE  f[x] # f[y]
  <2>1. Before(x) \in SUBSET Before(y)
    BY <1>3 DEF StrictOrder
  <2>2. Before(x) # Before(y)
    BY <1>2, <1>3
  <2>3. Cardinality(Before(x)) # Cardinality(Before(y))
    BY <1>2, <2>1, <2>2, FS_Subset
  <2>4. QED
    BY <2>3
<1>4. f \in Surjection(S, 0 .. n - 1)
  <2>1. f \in Injection(S, 0 .. n - 1)
    <3>1. f \in [S -> 0 .. n - 1]
      BY <1>2
    <3>2. \A x, y \in S : f[x] = f[y] => x = y
      BY <1>3 DEF StrictOrder
    <3> HIDE DEF f
    <3>3. QED
      BY <3>1, <3>2 DEF Injection, IsInjective
  <2>2. IsFiniteSet(0 .. n - 1) /\ Cardinality(0 .. n - 1) = n
    <3> HIDE DEF n
    <3>1. 0 \in Int /\ n - 1 \in Int /\ ~(0 > n - 1)
      BY <1>1
    <3>2. QED
      BY <1>1, <3>1, FS_Interval
  <2> HIDE DEF f
  <2>3. QED
    BY <2>1, <2>2, FS_Injection
<1> HIDE DEF f, n
<1>5. \A k \in 0 .. n - 1 : \E x \in S : f[x] = k
  BY <1>4 DEF Surjection
<1>6. PICK x \in S : f[x] = 0
  BY <1>1, <1>5
<1>7. PICK z \in S : f[z] = n - 1
  BY <1>1, <1>5
<1>8. \A y \in S : <<y, x>> \notin R
  BY <1>2, <1>6
<1>9. \A y \in S : <<z, y>> \notin R
  <2>1. S \ {z} = Before(z)
    BY <1>2, <1>7
  <2>2. QED
    BY <2>1 DEF StrictOrder
<1>10. QED
  BY <1>8, <1>9

\* Induction over an interval: a set with its first element, and with each element's
\* successor, holds all of it.  A recursion over the minutes ends where it should.
THEOREM IntervalInduction ==
  ASSUME NEW lo \in Int, NEW hi \in Int, NEW S,
         lo \in S, \A i \in lo .. hi - 1 : i \in S => i + 1 \in S
  PROVE  lo .. hi \subseteq S
<1> DEFINE missing == (lo .. hi) \ S
           R == {p \in missing \X missing : p[1] < p[2]}
<1>1. SUFFICES ASSUME missing # {} PROVE FALSE
  OBVIOUS
<1>2. IsFiniteSet(missing) /\ missing \subseteq Int
  <2>1. missing \subseteq Int
    OBVIOUS
  <2>2. PICK whole : IsFiniteSet(whole) /\ missing \in SUBSET whole
    BY FS_Interval
  <2> HIDE DEF missing
  <2>3. QED
    BY <2>1, <2>2, FS_Subset
<1>3. \A x, y \in missing : <<x, y>> \in R <=> x < y
  OBVIOUS
<1> HIDE DEF R
<1>4. StrictOrder(R, missing)
  BY <1>2, <1>3 DEF StrictOrder
<1>5. PICK x \in missing : \A y \in missing : ~(y < x)
  <2> HIDE DEF missing
  <2>1. \E x \in missing : \A y \in missing : <<y, x>> \notin R
    BY <1>1, <1>2, <1>4, FirstAndLast, Zenon
  <2>2. QED
    BY <1>3, <2>1
<1>6. x \in lo .. hi /\ x # lo
  OBVIOUS
<1>7. x - 1 \in lo .. hi - 1 /\ x - 1 \in lo .. hi /\ x - 1 < x
  BY <1>6
<1>8. x - 1 \in S
  BY <1>5, <1>7
<1>9. QED
  BY <1>6, <1>7, <1>8

=============================================================================
