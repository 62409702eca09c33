-------------------------- MODULE AlgorithmsLemmas --------------------------
(***************************************************************************)
(* Facts about numbers, finite sets, folds, stacks and recursive functions *)
(* that the proofs about Algorithms need, and the invariants of four kinds *)
(* of loops, for any input the assumptions of Algorithms allow: the serial *)
(* crawler, Dijkstra, the stores of edges and the longest increasing       *)
(* subsequence.                                                            *)
(***************************************************************************)
EXTENDS Algorithms, FiniteSetTheorems, Functions, NaturalsInduction, WellFoundedInduction, TLAPS


-----------------------------------------------------------------------------
(* Numbers, finite sets, folds and recursive functions.                    *)

(* A set of numbers that is not empty has a smallest: this takes the place *)
(* of induction.                                                           *)
LEMMA Smallest ==
  ASSUME NEW T \in SUBSET Nat, T # {}
  PROVE  \E m \in T : \A k \in T : m <= k
<1>1. PICK x \in T : \A y \in T : <<y, x>> \notin OpToRel(<, Nat)
  BY NatLessThanWellFounded, WFMin
<1>2. \A y \in T : y < x => <<y, x>> \in OpToRel(<, Nat)
  BY DEF OpToRel
<1>3. \A y \in T : ~(y < x)
  BY <1>1, <1>2
<1> QED
  BY <1>3

Highest(U) == CHOOSE x \in U : \A y \in U : x >= y
Lowest(U) == CHOOSE x \in U : \A y \in U : x =< y

LEMMA LowestIs ==
  ASSUME NEW U \in SUBSET Nat, U # {}
  PROVE  Lowest(U) \in U /\ \A y \in U : Lowest(U) <= y
BY Smallest DEF Lowest

(* A bounded set of numbers has a largest. *)
LEMMA HighestIs ==
  ASSUME NEW m \in Int, NEW U \in SUBSET Int, U # {}, \A y \in U : y <= m
  PROVE  Highest(U) \in U /\ \A y \in U : Highest(U) >= y
<1> DEFINE T == {m - x : x \in U}
<1>1. T \in SUBSET Nat /\ T # {}
  <2>1. \A x \in U : m - x \in Nat
    OBVIOUS
  <2> QED
    BY <2>1
<1>2. PICK t \in T : \A u \in T : t <= u
  BY <1>1, Smallest
<1>3. PICK x \in U : t = m - x
  OBVIOUS
<1>4. \A y \in U : m - y \in T
  OBVIOUS
<1>5. \A y \in U : x >= y
  BY <1>2, <1>3, <1>4
<1> QED
  BY <1>5 DEF Highest

LEMMA HighestOfInterval ==
  ASSUME NEW m \in Nat, NEW k \in 1..m
  PROVE  Highest(1..k) = k /\ (1..k) \ {k} = 1..(k - 1) /\ 1..k # {} /\ 1..k \in SUBSET (1..m)
<1>1. 1..k \in SUBSET Int /\ 1..k # {} /\ k \in 1..k /\ \A y \in 1..k : y <= k
  OBVIOUS
<1>2. Highest(1..k) \in 1..k /\ Highest(1..k) >= k
  BY <1>1, HighestIs
<1> QED
  BY <1>2

-----------------------------------------------------------------------------
(* Recursion over the subsets of a finite set: what is computed for a set  *)
(* takes one chosen element c[U] and what was computed for the rest.       *)
Recurs(f, S, b, c, g) ==
  f = [U \in SUBSET S |-> IF U = {} THEN b ELSE g[<<c[U], f[U \ {c[U]}]>>]]

UpTo(S, m) == {U \in SUBSET S : Cardinality(U) <= m}

LEMMA OneLess ==
  ASSUME NEW S, IsFiniteSet(S), NEW U \in SUBSET S, NEW x \in U
  PROVE  /\ IsFiniteSet(U) /\ Cardinality(U) \in Nat
         /\ U \ {x} \in SUBSET S
         /\ Cardinality(U) > 0 /\ Cardinality(U \ {x}) = Cardinality(U) - 1
<1>1. IsFiniteSet(U)
  BY FS_Subset
<1>2. Cardinality(U) \in Nat /\ Cardinality(U \ {x}) = Cardinality(U) - 1 /\ Cardinality(U \ {x}) \in Nat
  BY <1>1, FS_RemoveElement, FS_CardinalityType
<1> QED
  BY <1>1, <1>2

LEMMA SetRecursion ==
  ASSUME NEW S, IsFiniteSet(S), NEW b, NEW c, NEW g,
         \A U \in SUBSET S : U # {} => c[U] \in U
  PROVE  \E f : Recurs(f, S, b, c, g)
<1> DEFINE P(f, m) == f = [U \in UpTo(S, m) |-> IF U = {} THEN b ELSE g[<<c[U], f[U \ {c[U]}]>>]]
           T == {m \in Nat : ~ \E f : P(f, m)}
<1>0. \A U \in SUBSET S : U # {} => /\ Cardinality(U) \in Nat
                                    /\ U \ {c[U]} \in SUBSET S
                                    /\ Cardinality(U) > 0
                                    /\ Cardinality(U \ {c[U]}) = Cardinality(U) - 1
  <2> TAKE U \in SUBSET S
  <2> HAVE U # {}
  <2>1. c[U] \in U
    OBVIOUS
  <2> QED
    BY <2>1, OneLess
<1>1. T = {}
  <2> SUFFICES ASSUME T # {} PROVE FALSE
    OBVIOUS
  <2>1. PICK m \in T : \A k \in T : m <= k
    BY Smallest
  <2>2. CASE m = 0
    <3>1. \A U \in UpTo(S, 0) : U = {}
      <4> SUFFICES ASSUME NEW U \in SUBSET S, Cardinality(U) <= 0, U # {} PROVE FALSE
        BY DEF UpTo
      <4>1. Cardinality(U) \in Nat /\ Cardinality(U) > 0
        BY <1>0
      <4> QED
        BY <4>1
    <3>2. P([U \in UpTo(S, 0) |-> b], 0)
      BY <3>1
    <3> QED
      BY <2>2, <3>2
  <2>3. CASE m > 0
    <3>1. m - 1 \in Nat /\ m - 1 \notin T
      <4>1. m \in Nat /\ \A k \in T : m <= k
        BY <2>1
      <4> HIDE DEF T
      <4> QED
        BY <4>1, <2>3
    <3>2. PICK f : P(f, m - 1)
      BY <3>1
    <3> DEFINE h == [U \in UpTo(S, m) |-> IF U = {} THEN b ELSE g[<<c[U], f[U \ {c[U]}]>>]]
    <3>3. ASSUME NEW U \in UpTo(S, m), U # {}
          PROVE  h[U \ {c[U]}] = f[U \ {c[U]}]
      <4>1. U \ {c[U]} \in UpTo(S, m - 1) /\ U \ {c[U]} \in UpTo(S, m)
        BY <1>0, <3>3, <2>3 DEF UpTo
      <4> QED
        BY <3>2, <4>1
    <3>4. h = [U \in UpTo(S, m) |-> IF U = {} THEN b ELSE g[<<c[U], h[U \ {c[U]}]>>]]
      BY <3>3
    <3> QED
      BY <3>4
  <2> QED
    BY <2>2, <2>3
<1>2. Cardinality(S) \in Nat /\ UpTo(S, Cardinality(S)) = SUBSET S
  BY FS_CardinalityType, FS_Subset DEF UpTo
<1>3. PICK f : P(f, Cardinality(S))
  BY <1>1, <1>2
<1> QED
  BY <1>2, <1>3 DEF Recurs

(* What holds of a set if it holds of the set without any one element of   *)
(* it, holds of all finite sets.                                           *)
LEMMA SubsetInduction ==
  ASSUME NEW S, IsFiniteSet(S), NEW R,
         \A U \in SUBSET S : (\A x \in U : U \ {x} \in R) => U \in R
  PROVE  \A U \in SUBSET S : U \in R
<1> DEFINE T == {Cardinality(U) : U \in (SUBSET S) \ R}
<1> SUFFICES ASSUME T # {} PROVE FALSE
  OBVIOUS
<1>1. \A U \in SUBSET S : Cardinality(U) \in Nat
  BY FS_Subset, FS_CardinalityType
<1>2. T \in SUBSET Nat
  BY <1>1
<1>3. PICK m \in T : \A k \in T : m <= k
  BY <1>2, Smallest
<1>4. PICK U \in (SUBSET S) \ R : m = Cardinality(U)
  OBVIOUS
<1>5. PICK x \in U : U \ {x} \notin R
  BY <1>4
<1>6. U \ {x} \in (SUBSET S) \ R /\ Cardinality(U \ {x}) < m
  BY <1>4, <1>5, OneLess
<1>7. Cardinality(U \ {x}) \in T
  BY <1>6
<1>8. m \in Nat /\ Cardinality(U \ {x}) \in Nat /\ m <= Cardinality(U \ {x})
  <2> HIDE DEF T
  <2> QED
    BY <1>2, <1>3, <1>7
<1> QED
  BY <1>6, <1>8

-----------------------------------------------------------------------------
(* A fold from the left takes the highest index first. *)
HighestOf(m) == [U \in SUBSET (1..m) |-> Highest(U)]

LEMMA HighestChooses ==
  ASSUME NEW m \in Nat
  PROVE  /\ IsFiniteSet(1..m)
         /\ \A U \in SUBSET (1..m) : U # {} => HighestOf(m)[U] \in U /\ HighestOf(m)[U] = Highest(U)
<1>1. IsFiniteSet(1..m)
  BY FS_Interval
<1>2. ASSUME NEW U \in SUBSET (1..m), U # {}
      PROVE  Highest(U) \in U
  <2>1. m \in Int /\ U \in SUBSET Int /\ \A y \in U : y <= m
    OBVIOUS
  <2> QED
    BY <1>2, <2>1, HighestIs
<1> QED
  BY <1>1, <1>2 DEF HighestOf

FoldsLeft(f, m, b, g) ==
  f = [U \in SUBSET (1..m) |-> IF U = {} THEN b ELSE g[<<Highest(U), f[U \ {Highest(U)}]>>]]

LEMMA LeftFold ==
  ASSUME NEW m \in Nat, NEW T, NEW b \in T, NEW g,
         \A t \in T, k \in 1..m : g[<<k, t>>] \in T
  PROVE  \E f : FoldsLeft(f, m, b, g) /\ \A U \in SUBSET (1..m) : f[U] \in T
<1>1. PICK f : Recurs(f, 1..m, b, HighestOf(m), g)
  BY HighestChooses, SetRecursion
<1>2. ASSUME NEW U \in SUBSET (1..m)
      PROVE  f[U] = IF U = {} THEN b ELSE g[<<Highest(U), f[U \ {Highest(U)}]>>]
  BY <1>1, HighestChooses DEF Recurs
<1>3. f = [U \in SUBSET (1..m) |->
             IF U = {} THEN b ELSE g[<<Highest(U), f[U \ {Highest(U)}]>>]]
  BY <1>1, HighestChooses DEF Recurs
<1> DEFINE R == {U \in SUBSET (1..m) : f[U] \in T}
<1>5. ASSUME NEW U \in SUBSET (1..m), \A x \in U : U \ {x} \in R
      PROVE  U \in R
  <2>1. CASE U = {}
    BY <1>2, <2>1
  <2>2. CASE U # {}
    <3>1. Highest(U) \in U /\ Highest(U) \in 1..m
      BY <2>2, HighestChooses
    <3>2. f[U \ {Highest(U)}] \in T
      BY <1>5, <3>1
    <3> QED
      BY <1>2, <2>2, <3>1, <3>2
  <2> QED
    BY <2>1, <2>2
<1>6. \A U \in SUBSET (1..m) : U \in R
  <2> HIDE DEF R
  <2> QED
    BY <1>5, HighestChooses, SubsetInduction
<1> QED
  BY <1>3, <1>6 DEF FoldsLeft

-----------------------------------------------------------------------------
(* Sums over finite sets, whatever the order in which they are taken. *)
Additive(f, w, S) ==
  /\ f[{}] = 0
  /\ \A U \in SUBSET S : f[U] \in Int /\ \A x \in U : f[U] = f[U \ {x}] + w[x]

Total(w, S) == (CHOOSE f : Additive(f, w, S))[S]

Any(S) == [U \in SUBSET S |-> CHOOSE x \in U : TRUE]

LEMMA AnyChooses ==
  ASSUME NEW S
  PROVE  \A U \in SUBSET S : U # {} => Any(S)[U] \in U /\ Any(S)[U] = CHOOSE x \in U : TRUE
BY DEF Any

(* A sum that is taken in one order is one in any order. *)
LEMMA OrderIsFree ==
  ASSUME NEW S, IsFiniteSet(S), NEW w, \A x \in S : w[x] \in Int, NEW c, NEW f,
         \A U \in SUBSET S : U # {} => c[U] \in U,
         f[{}] = 0,
         \A U \in SUBSET S : U # {} => f[U] = f[U \ {c[U]}] + w[c[U]]
  PROVE  Additive(f, w, S)
<1> DEFINE Adds(U) == f[U] \in Int /\ \A x \in U : f[U \ {x}] \in Int /\ f[U] = f[U \ {x}] + w[x]
           R == {U \in SUBSET S : Adds(U)}
<1>1. ASSUME NEW U \in SUBSET S, \A x \in U : U \ {x} \in R
      PROVE  U \in R
  <2>1. CASE U = {}
    BY <2>1
  <2>2. CASE U # {}
    <3>1. PICK y : y = c[U] /\ y \in U
      BY <2>2
    <3>2. f[U] = f[U \ {y}] + w[y] /\ f[U \ {y}] \in Int /\ w[y] \in Int
      BY <1>1, <2>2, <3>1
    <3>3. ASSUME NEW x \in U, x # y
          PROVE  f[U \ {x}] \in Int /\ f[U] = f[U \ {x}] + w[x]
      <4>1. x \in U \ {y} /\ y \in U \ {x} /\ (U \ {x}) \ {y} = (U \ {y}) \ {x}
        BY <3>1, <3>3
      <4>2. f[U \ {y}] = f[(U \ {y}) \ {x}] + w[x] /\ f[(U \ {y}) \ {x}] \in Int
        BY <1>1, <3>1, <4>1
      <4>3. f[U \ {x}] = f[(U \ {x}) \ {y}] + w[y] /\ f[U \ {x}] \in Int
        BY <1>1, <4>1
      <4>4. w[x] \in Int
        OBVIOUS
      <4>5. PICK k \in Int : k = f[(U \ {y}) \ {x}] /\ k = f[(U \ {x}) \ {y}]
        BY <4>1, <4>2
      <4>6. f[U] = k + w[x] + w[y] /\ f[U \ {x}] = k + w[y]
        BY <3>2, <4>2, <4>3, <4>5
      <4> QED
        BY <3>2, <4>3, <4>4, <4>5, <4>6
    <3>4. f[U] \in Int
      BY <3>2
    <3> QED
      BY <3>1, <3>2, <3>3, <3>4
  <2> QED
    BY <2>1, <2>2
<1>2. \A U \in SUBSET S : U \in R
  <2> HIDE DEF R
  <2> QED
    BY <1>1, SubsetInduction
<1> QED
  BY <1>2 DEF Additive

LEMMA SumsExist ==
  ASSUME NEW S, IsFiniteSet(S), NEW w, \A x \in S : w[x] \in Int
  PROVE  Additive(CHOOSE f : Additive(f, w, S), w, S)
<1> DEFINE g == [q \in S \X Int |-> q[2] + w[q[1]]]
<1>1. PICK f : Recurs(f, S, 0, Any(S), g)
  BY AnyChooses, SetRecursion
<1>2. ASSUME NEW U \in SUBSET S
      PROVE  f[U] = IF U = {} THEN 0 ELSE g[<<Any(S)[U], f[U \ {Any(S)[U]}]>>]
  BY <1>1 DEF Recurs
<1> DEFINE R == {U \in SUBSET S : f[U] \in Int}
<1>3. ASSUME NEW U \in SUBSET S, \A x \in U : U \ {x} \in R
      PROVE  U \in R
  <2>1. CASE U = {}
    <3>1. f[U] = 0
      BY <1>2, <2>1, Zenon
    <3> QED
      BY <3>1
  <2>2. CASE U # {}
    <3>1. Any(S)[U] \in U /\ Any(S)[U] \in S
      BY <2>2, AnyChooses
    <3>2. PICK t \in Int : t = f[U \ {Any(S)[U]}]
      BY <1>3, <3>1
    <3>3. PICK x \in S : x = Any(S)[U]
      BY <3>1
    <3>4. f[U] = g[<<x, t>>]
      BY <1>2, <2>2, <3>2, <3>3, Zenon
    <3>5. <<x, t>> \in S \X Int /\ w[x] \in Int
      OBVIOUS
    <3>6. g[<<x, t>>] = t + w[x]
      BY <3>5
    <3>7. f[U] \in Int
      BY <3>4, <3>5, <3>6
    <3> QED
      BY <3>7
  <2> QED
    BY <2>1, <2>2
<1>4. \A U \in SUBSET S : U \in R
  <2> HIDE DEF R
  <2> QED
    BY <1>3, SubsetInduction
<1>5. ASSUME NEW U \in SUBSET S, U # {}
      PROVE  f[U] = f[U \ {Any(S)[U]}] + w[Any(S)[U]]
  <2>1. Any(S)[U] \in U /\ Any(S)[U] \in S
    BY <1>5, AnyChooses
  <2>2. f[U \ {Any(S)[U]}] \in Int
    BY <1>4, <2>1
  <2> QED
    BY <1>2, <1>5, <2>1, <2>2
<1>6. f[{}] = 0
  BY <1>2
<1>7. Additive(f, w, S)
  <2> HIDE DEF g, R
  <2> QED
    BY <1>5, <1>6, AnyChooses, OrderIsFree
<1> QED
  BY <1>7, Zenon

(* Sums do not depend on the set that they are part of. *)
LEMMA SumsAgree ==
  ASSUME NEW S, IsFiniteSet(S), NEW w, NEW v, NEW f, NEW h, NEW V,
         Additive(f, w, S), Additive(h, v, V), S \subseteq V,
         \A x \in S : w[x] = v[x]
  PROVE  f[S] = h[S]
<1> DEFINE R == {U \in SUBSET S : f[U] = h[U]}
<1>1. ASSUME NEW U \in SUBSET S, \A x \in U : U \ {x} \in R
      PROVE  U \in R
  <2>1. CASE U = {}
    BY <2>1 DEF Additive
  <2>2. CASE U # {}
    <3>1. PICK x : x \in U
      BY <2>2
    <3>2. f[U \ {x}] = h[U \ {x}]
      BY <1>1, <3>1
    <3>3. f[U] = f[U \ {x}] + w[x] /\ h[U] = h[U \ {x}] + v[x]
      BY <3>1 DEF Additive
    <3>4. w[x] = v[x]
      BY <3>1
    <3> QED
      BY <3>2, <3>3, <3>4
  <2> QED
    BY <2>1, <2>2
<1>2. \A U \in SUBSET S : U \in R
  <2> HIDE DEF R
  <2> QED
    BY <1>1, SubsetInduction
<1> QED
  BY <1>2

LEMMA TotalIs ==
  ASSUME NEW S, IsFiniteSet(S), NEW w, \A x \in S : w[x] \in Int, NEW f, Additive(f, w, S)
  PROVE  Total(w, S) = f[S]
BY SumsExist, SumsAgree DEF Total

LEMMA TotalFacts ==
  ASSUME NEW S, IsFiniteSet(S), NEW w, \A x \in S : w[x] \in Int
  PROVE  /\ Total(w, S) \in Int
         /\ S = {} => Total(w, S) = 0
         /\ \A x \in S : Total(w, S) = Total(w, S \ {x}) + w[x]
<1>1. PICK f : f = CHOOSE h : Additive(h, w, S)
  OBVIOUS
<1>2. Additive(f, w, S) /\ Total(w, S) = f[S]
  BY <1>1, SumsExist DEF Total
<1>3. ASSUME NEW x \in S
      PROVE  Total(w, S \ {x}) = f[S \ {x}]
  <2>1. Additive(f, w, S \ {x})
    BY <1>2 DEF Additive
  <2>2. IsFiniteSet(S \ {x})
    BY FS_RemoveElement
  <2> QED
    BY <2>1, <2>2, TotalIs
<1> QED
  BY <1>2, <1>3 DEF Additive

LEMMA TotalSame ==
  ASSUME NEW S, IsFiniteSet(S), NEW w, NEW v, \A x \in S : w[x] \in Int /\ v[x] = w[x]
  PROVE  Total(w, S) = Total(v, S)
BY SumsExist, SumsAgree DEF Total
-----------------------------------------------------------------------------
(* A fold in the order of CHOOSE. *)
FoldsAny(f, S, b, g) ==
  f = [U \in SUBSET S |->
         IF U = {} THEN b ELSE g[<<CHOOSE x \in U : TRUE, f[U \ {CHOOSE x \in U : TRUE}]>>]]

LEMMA AnyFold ==
  ASSUME NEW S, IsFiniteSet(S), NEW T, NEW b \in T, NEW g,
         \A t \in T, k \in S : g[<<k, t>>] \in T
  PROVE  \E f : FoldsAny(f, S, b, g) /\ \A U \in SUBSET S : f[U] \in T
<1>1. PICK f : Recurs(f, S, b, Any(S), g)
  BY AnyChooses, SetRecursion
<1>2. ASSUME NEW U \in SUBSET S
      PROVE  f[U] = IF U = {} THEN b ELSE g[<<CHOOSE x \in U : TRUE, f[U \ {CHOOSE x \in U : TRUE}]>>]
  <2>1. f[U] = IF U = {} THEN b ELSE g[<<Any(S)[U], f[U \ {Any(S)[U]}]>>]
    BY <1>1, Zenon DEF Recurs
  <2>2. Any(S)[U] = CHOOSE x \in U : TRUE
    BY Zenon DEF Any
  <2> QED
    BY <2>1, <2>2, Zenon
<1>3. f = [U \in SUBSET S |->
             IF U = {} THEN b ELSE g[<<CHOOSE x \in U : TRUE, f[U \ {CHOOSE x \in U : TRUE}]>>]]
  <2>1. f = [U \in SUBSET S |-> f[U]]
    BY <1>1, Zenon DEF Recurs
  <2> QED
    BY <2>1, <1>2, Zenon
<1> DEFINE R == {U \in SUBSET S : f[U] \in T}
<1>5. ASSUME NEW U \in SUBSET S, \A x \in U : U \ {x} \in R
      PROVE  U \in R
  <2>1. CASE U = {}
    BY <1>2, <2>1
  <2>2. CASE U # {}
    <3>1. PICK k \in U : k = CHOOSE x \in U : TRUE
      BY <2>2
    <3>2. f[U \ {k}] \in T /\ k \in S
      BY <1>5, <3>1
    <3> QED
      BY <1>2, <2>2, <3>1, <3>2
  <2> QED
    BY <2>1, <2>2
<1>6. \A U \in SUBSET S : U \in R
  <2> HIDE DEF R
  <2> QED
    BY <1>5, SubsetInduction
<1> QED
  BY <1>3, <1>6 DEF FoldsAny

-----------------------------------------------------------------------------
(* Recursion over the numbers. *)
Iterates(f, m, b, g) == f = [k \in 0..m |-> IF k = 0 THEN b ELSE g[f[k - 1]]]

LEMMA IteratesAgree ==
  ASSUME NEW b, NEW g, NEW m \in Nat, NEW r \in Nat, NEW f, NEW h,
         Iterates(f, m, b, g), Iterates(h, r, b, g)
  PROVE  \A k \in 0..m : k <= r => f[k] = h[k]
<1> DEFINE T == {k \in 0..m : k <= r /\ f[k] # h[k]}
<1> SUFFICES ASSUME T # {} PROVE FALSE
  OBVIOUS
<1>1. PICK k \in T : \A j \in T : k <= j
  <2>1. T \in SUBSET Nat
    OBVIOUS
  <2> HIDE DEF T
  <2> QED
    BY <2>1, Smallest
<1>2. k # 0
  BY <1>1 DEF Iterates
<1>3. k - 1 \in 0..m /\ k - 1 <= r /\ k - 1 \notin T
  BY <1>1, <1>2
<1>4. f[k - 1] = h[k - 1]
  BY <1>3
<1> QED
  BY <1>1, <1>2, <1>4 DEF Iterates

Repeats(f, b, g) == f = [k \in Nat |-> IF k = 0 THEN b ELSE g[f[k - 1]]]

LEMMA NatRecursion ==
  ASSUME NEW b, NEW g
  PROVE  \E f : Repeats(f, b, g)
<1> DEFINE T == {m \in Nat : ~ \E f : Iterates(f, m, b, g)}
<1>1. T = {}
  <2> SUFFICES ASSUME T # {} PROVE FALSE
    OBVIOUS
  <2>1. PICK m \in T : \A k \in T : m <= k
    BY Smallest
  <2>2. CASE m = 0
    <3>1. Iterates([k \in 0..0 |-> b], 0, b, g)
      BY DEF Iterates
    <3> QED
      BY <2>2, <3>1
  <2>3. CASE m > 0
    <3>1. m - 1 \in Nat /\ m - 1 \notin T
      <4>1. m \in Nat /\ \A k \in T : m <= k
        BY <2>1
      <4> HIDE DEF T
      <4> QED
        BY <4>1, <2>3
    <3>2. PICK f : Iterates(f, m - 1, b, g)
      BY <3>1
    <3> DEFINE h == [k \in 0..m |-> IF k = 0 THEN b ELSE g[f[k - 1]]]
    <3>3. ASSUME NEW k \in 0..m, k # 0
          PROVE  h[k - 1] = f[k - 1]
      <4>1. k - 1 \in 0..m /\ k - 1 \in 0..m - 1 /\ m \in Nat
        BY <3>3
      <4>2. f[k - 1] = IF k - 1 = 0 THEN b ELSE g[f[(k - 1) - 1]]
        BY <3>2, <4>1 DEF Iterates
      <4>3. h[k - 1] = IF k - 1 = 0 THEN b ELSE g[f[(k - 1) - 1]]
        BY <4>1
      <4> QED
        BY <4>2, <4>3
    <3>4. Iterates(h, m, b, g)
      BY <3>3 DEF Iterates
    <3> QED
      BY <3>4
  <2> QED
    BY <2>2, <2>3
<1> DEFINE it[m \in Nat] == CHOOSE f : Iterates(f, m, b, g)
           f == [k \in Nat |-> it[k][k]]
<1>2. \A m \in Nat : Iterates(it[m], m, b, g)
  BY <1>1
<1>3. ASSUME NEW k \in Nat
      PROVE  f[k] = IF k = 0 THEN b ELSE g[f[k - 1]]
  <2>1. Iterates(it[k], k, b, g) /\ f[k] = it[k][k] /\ k \in 0..k
    BY <1>2
  <2>2. CASE k = 0
    BY <2>1, <2>2 DEF Iterates
  <2>3. CASE k # 0
    <3>1. k - 1 \in Nat /\ k - 1 <= k /\ k - 1 \in 0..k - 1
      BY <2>3
    <3>2. Iterates(it[k - 1], k - 1, b, g) /\ f[k - 1] = it[k - 1][k - 1]
      BY <3>1, <1>2
    <3>3. it[k - 1][k - 1] = it[k][k - 1]
      <4> HIDE DEF it, f
      <4> QED
        BY <2>1, <3>1, <3>2, IteratesAgree
    <3>4. it[k][k] = g[it[k][k - 1]]
      BY <2>1, <2>3 DEF Iterates
    <3> QED
      BY <2>1, <2>3, <3>2, <3>3, <3>4
  <2> QED
    BY <2>2, <2>3
<1>4. f = [k \in Nat |-> IF k = 0 THEN b ELSE g[f[k - 1]]]
  <2> HIDE DEF it
  <2>1. f = [k \in Nat |-> f[k]]
    OBVIOUS
  <2> HIDE DEF f
  <2> QED
    BY <2>1, <1>3
<1> QED
  BY <1>4 DEF Repeats
-----------------------------------------------------------------------------
(* Levels without a gap are fewer than what is on them. *)
LEMMA LevelsAreFew ==
  ASSUME NEW V, IsFiniteSet(V), NEW R \in SUBSET V, NEW h \in [R -> Nat],
         \A v \in R : h[v] > 0 => \E u \in R : h[u] = h[v] - 1
  PROVE  \A v \in R : h[v] < Cardinality(V)
<1> TAKE v \in R
<1> DEFINE B == {k \in 0..h[v] : ~ \E u \in R : h[u] = h[v] - k}
<1>0. h[v] \in Nat
  OBVIOUS
<1>1. B = {}
  <2> SUFFICES ASSUME B # {} PROVE FALSE
    OBVIOUS
  <2>0. B \in SUBSET Nat
    OBVIOUS
  <2>1. PICK k \in B : \A j \in B : k <= j
    <3> HIDE DEF B
    <3> QED
      BY <2>0, Smallest
  <2>2. k # 0
    <3>1. h[v] = h[v] - 0
      BY <1>0
    <3>2. 0 \notin B
      BY <3>1
    <3> QED
      BY <3>2, <2>1
  <2>3. k - 1 \in 0..h[v] /\ k - 1 \notin B /\ k \in 0..h[v]
    <3>1. k \in 0..h[v] /\ k - 1 \in 0..h[v] /\ k - 1 < k
      BY <2>1, <2>2
    <3> HIDE DEF B
    <3> QED
      BY <2>1, <3>1
  <2>4. PICK u \in R : h[u] = h[v] - (k - 1)
    BY <2>3
  <2>5. h[u] > 0 /\ h[u] - 1 = h[v] - k
    BY <2>3, <2>4, <1>0
  <2>6. PICK w \in R : h[w] = h[u] - 1
    BY <2>5
  <2> QED
    BY <2>1, <2>5, <2>6
<1>2. \A k \in 0..h[v] : \E u \in R : h[u] = k
  <2> TAKE k \in 0..h[v]
  <2>1. h[v] - k \in 0..h[v] /\ h[v] - (h[v] - k) = k
    BY <1>0
  <2>2. h[v] - k \notin B
    BY <1>1
  <2> QED
    BY <2>1, <2>2
<1> DEFINE L == 0..h[v]
           U == {u \in R : h[u] \in L}
           e == [u \in U |-> h[u]]
<1>3. e \in Surjection(U, L)
  <2>1. e \in [U -> L]
    OBVIOUS
  <2>2. \A k \in L : \E u \in U : e[u] = k
    BY <1>2
  <2> HIDE DEF e, U, L
  <2> QED
    BY <2>1, <2>2 DEF Surjection
<1>4. U \in SUBSET V
  OBVIOUS
<1> HIDE DEF e, U
<1>5. IsFiniteSet(U) /\ Cardinality(U) <= Cardinality(V) /\ Cardinality(U) \in Nat /\ Cardinality(V) \in Nat
  BY <1>4, FS_Subset, FS_CardinalityType
<1>6. Cardinality(L) <= Cardinality(U)
  <2> HIDE DEF L
  <2> QED
    BY <1>3, <1>5, FS_Surjection
<1>7. Cardinality(L) = h[v] + 1
  BY <1>0, FS_Interval
<1> QED
  BY <1>0, <1>5, <1>6, <1>7
-----------------------------------------------------------------------------
(* What stays inside a set when it is repeated. *)
LEMMA RepeatsIn ==
  ASSUME NEW T, NEW b \in T, NEW g, \A t \in T : g[t] \in T, NEW h, h[0] = b,
         \A k \in Nat \ {0} : h[k - 1] \in T => h[k] = g[h[k - 1]]
  PROVE  \A k \in Nat : h[k] \in T /\ h[k + 1] = g[h[k]]
<1> DEFINE B == {m \in Nat : h[m] \notin T}
<1>1. B = {}
  <2> SUFFICES ASSUME B # {} PROVE FALSE
    OBVIOUS
  <2>1. PICK m \in B : \A j \in B : m <= j
    BY Smallest
  <2>2. m # 0
    BY <2>1
  <2>3. m - 1 \in Nat /\ m - 1 \notin B /\ m \in Nat \ {0}
    BY <2>1, <2>2
  <2>4. h[m - 1] \in T
    BY <2>3
  <2> QED
    BY <2>1, <2>3, <2>4
<1>2. ASSUME NEW k \in Nat
      PROVE  h[k] \in T
  BY <1>1
<1>3. ASSUME NEW k \in Nat
      PROVE  h[k + 1] = g[h[k]]
  <2>1. k + 1 \in Nat \ {0} /\ (k + 1) - 1 = k
    OBVIOUS
  <2> QED
    BY <2>1, <1>2
<1> QED
  BY <1>2, <1>3

(* The repetition exists and stays inside. *)
LEMMA RepeatsTyped ==
  ASSUME NEW T, NEW b \in T, NEW g, \A t \in T : g[t] \in T
  PROVE  \E f : Repeats(f, b, g) /\ \A k \in Nat : f[k] \in T
<1>1. PICK f : Repeats(f, b, g)
  BY NatRecursion
<1>2. f[0] = b /\ \A k \in Nat \ {0} : f[k] = g[f[k - 1]]
  BY <1>1 DEF Repeats
<1>3. \A k \in Nat : f[k] \in T
  BY <1>2, RepeatsIn
<1> QED
  BY <1>1, <1>3
-----------------------------------------------------------------------------
(* Sequences. *)
LEMMA AppendAt ==
  ASSUME NEW V, NEW T, NEW t \in [V -> Seq(T)], NEW v \in V, NEW x \in T
  PROVE  [t EXCEPT ![v] = Append(@, x)] \in [V -> Seq(T)]
<1>1. t[v] \in Seq(T)
  OBVIOUS
<1>2. Append(t[v], x) \in Seq(T)
  BY <1>1
<1> QED
  BY <1>2

LEMMA TwoMore ==
  ASSUME NEW T, NEW q \in Seq(T), NEW v \in T, NEW w \in T
  PROVE  /\ q \o <<v, w>> \in Seq(T)
         /\ Len(q) \in Nat /\ DOMAIN q = 1..Len(q)
         /\ Len(q \o <<v, w>>) = Len(q) + 2 /\ DOMAIN (q \o <<v, w>>) = 1..Len(q) + 2
         /\ \A k \in 1..Len(q) : (q \o <<v, w>>)[k] = q[k]
         /\ (q \o <<v, w>>)[Len(q) + 1] = v /\ (q \o <<v, w>>)[Len(q) + 2] = w
<1>1. <<v, w>> \in Seq(T) /\ Len(<<v, w>>) = 2 /\ <<v, w>>[1] = v /\ <<v, w>>[2] = w
  OBVIOUS
<1>2. PICK r \in Seq(T) : r = <<v, w>>
  BY <1>1
<1>3. Len(q) \in Nat /\ DOMAIN q = 1..Len(q)
  OBVIOUS
<1>4. q \o r \in Seq(T) /\ Len(q \o r) = Len(q) + Len(r) /\ DOMAIN (q \o r) = 1..Len(q) + Len(r)
  BY <1>2
<1>5. \A k \in 1..Len(q) + Len(r) : (q \o r)[k] = IF k <= Len(q) THEN q[k] ELSE r[k - Len(q)]
  OBVIOUS
<1>6. Len(r) = 2 /\ r[1] = v /\ r[2] = w
  BY <1>1, <1>2
<1>7. \A k \in 1..Len(q) : (q \o r)[k] = q[k]
  BY <1>3, <1>5, <1>6
<1>8. Len(q) + 1 \in 1..Len(q) + Len(r) /\ Len(q) + 2 \in 1..Len(q) + Len(r)
  BY <1>3, <1>6
<1>9. (q \o r)[Len(q) + 1] = v /\ (q \o r)[Len(q) + 2] = w
  <2>1. (Len(q) + 1) - Len(q) = 1 /\ (Len(q) + 2) - Len(q) = 2 /\ ~(Len(q) + 1 <= Len(q)) /\ ~(Len(q) + 2 <= Len(q))
    BY <1>3
  <2> QED
    BY <1>5, <1>6, <1>8, <2>1
<1> QED
  BY <1>2, <1>3, <1>4, <1>6, <1>7, <1>9

(* A fold from the left, one step after the other. *)
Steps(f, m, b, g) == f = [k \in 0..m |-> IF k = 0 THEN b ELSE g[<<k, f[k - 1]>>]]

LEMMA FoldsAreSteps ==
  ASSUME NEW m \in Nat, NEW b, NEW g, NEW f, FoldsLeft(f, m, b, g)
  PROVE  Steps([k \in 0..m |-> f[1..k]], m, b, g)
<1> DEFINE h == [k \in 0..m |-> f[1..k]]
<1>1. ASSUME NEW k \in 0..m
      PROVE  h[k] = IF k = 0 THEN b ELSE g[<<k, h[k - 1]>>]
  <2>1. h[k] = f[1..k] /\ 1..k \in SUBSET (1..m)
    OBVIOUS
  <2>2. f[1..k] = IF 1..k = {} THEN b ELSE g[<<Highest(1..k), f[(1..k) \ {Highest(1..k)}]>>]
    BY <2>1 DEF FoldsLeft
  <2>3. CASE k = 0
    <3>1. 1..k = {}
      BY <2>3
    <3> QED
      BY <2>1, <2>2, <2>3, <3>1
  <2>4. CASE k # 0
    <3>1. k \in 1..m /\ k - 1 \in 0..m
      BY <2>4
    <3>2. Highest(1..k) = k /\ (1..k) \ {k} = 1..(k - 1) /\ 1..k # {}
      BY <3>1, HighestOfInterval
    <3>3. h[k - 1] = f[1..(k - 1)]
      BY <3>1
    <3> HIDE DEF h
    <3> QED
      BY <2>1, <2>2, <2>4, <3>2, <3>3
  <2> QED
    BY <2>3, <2>4
<1>2. h = [k \in 0..m |-> h[k]]
  OBVIOUS
<1> HIDE DEF h
<1>3. h = [k \in 0..m |-> IF k = 0 THEN b ELSE g[<<k, h[k - 1]>>]]
  BY <1>1, <1>2
<1> QED
  BY <1>3, Zenon DEF Steps, h

LEMMA StepsExist ==
  ASSUME NEW m \in Nat, NEW T, NEW b \in T, NEW g, \A t \in T, k \in 1..m : g[<<k, t>>] \in T
  PROVE  \E f : Steps(f, m, b, g)
<1>1. PICK f : FoldsLeft(f, m, b, g)
  BY LeftFold
<1> QED
  BY <1>1, FoldsAreSteps

(* What one step leads to, if nothing before it leads out of T. *)
LEMMA StepsIn ==
  ASSUME NEW m \in Nat, NEW T, NEW b \in T, NEW g, \A t \in T, k \in 1..m : g[<<k, t>>] \in T,
         NEW h, h[0] = b,
         \A k \in 1..m : h[k - 1] \in T => h[k] = g[<<k, h[k - 1]>>]
  PROVE  \A k \in 0..m : h[k] \in T
<1> DEFINE B == {k \in 0..m : h[k] \notin T}
<1> SUFFICES ASSUME B # {} PROVE FALSE
  OBVIOUS
<1>0. B \in SUBSET Nat
  OBVIOUS
<1>1. PICK k \in B : \A j \in B : k <= j
  <2> HIDE DEF B
  <2> QED
    BY <1>0, Smallest
<1>2. k # 0 /\ k \in 0..m
  BY <1>1
<1>3. k \in 1..m /\ k - 1 \in 0..m /\ k - 1 \notin B
  <2>1. k - 1 \in 0..m /\ k - 1 < k
    BY <1>2
  <2> HIDE DEF B
  <2> QED
    BY <2>1, <1>1, <1>2
<1>4. h[k - 1] \in T
  BY <1>3
<1> QED
  BY <1>1, <1>3, <1>4

(* Stacks: pushing a frame, and changing the innermost. *)
LEMMA Pushed ==
  ASSUME NEW T, NEW Q \in Seq(T), NEW e \in T, NEW R, R = <<e>> \o Q
  PROVE  /\ R \in Seq(T) /\ Len(Q) \in Nat /\ DOMAIN Q = 1..Len(Q)
         /\ Len(R) = Len(Q) + 1 /\ DOMAIN R = 1..Len(Q) + 1
         /\ R[1] = e /\ \A j \in 1..Len(Q) : R[j + 1] = Q[j]
<1>0. PICK P : P = <<e>>
  OBVIOUS
<1>1. P \in Seq(T)
  BY <1>0
<1>2. Len(P) = 1 /\ P[1] = e
  BY <1>0
<1>3. R = P \o Q
  BY <1>0
<1>4. /\ Len(Q) \in Nat /\ DOMAIN Q = 1..Len(Q) /\ R \in Seq(T)
      /\ Len(R) = Len(P) + Len(Q) /\ DOMAIN R = 1..Len(P) + Len(Q)
      /\ \A j \in 1..Len(P) + Len(Q) : R[j] = IF j <= Len(P) THEN P[j] ELSE Q[j - Len(P)]
  BY ONLY <1>1, <1>3, Q \in Seq(T)
<1>5. R[1] = e
  <2>1. 1 \in 1..Len(P) + Len(Q) /\ 1 <= Len(P)
    BY <1>2, <1>4
  <2> QED
    BY <2>1, <1>2, <1>4
<1>6. \A j \in 1..Len(Q) : R[j + 1] = Q[j]
  <2> TAKE j \in 1..Len(Q)
  <2>1. j + 1 \in 1..Len(P) + Len(Q) /\ ~(j + 1 <= Len(P)) /\ (j + 1) - Len(P) = j
    BY <1>2, <1>4
  <2> QED
    BY <2>1, <1>4
<1>7. Len(P) + Len(Q) = Len(Q) + 1
  BY <1>2, <1>4
<1> QED
  BY <1>4, <1>5, <1>6, <1>7

LEMMA Popped ==
  ASSUME NEW T, NEW Q \in Seq(T), Q # <<>>, NEW R, R = Tail(Q)
  PROVE  /\ Len(Q) \in Nat /\ Len(Q) >= 1 /\ DOMAIN Q = 1..Len(Q) /\ Head(Q) = Q[1] /\ Q[1] \in T
         /\ R \in Seq(T) /\ Len(R) = Len(Q) - 1 /\ DOMAIN R = 1..Len(Q) - 1
         /\ \A j \in 1..Len(Q) - 1 : R[j] = Q[j + 1]
<1>1. Len(Q) \in Nat /\ Len(Q) # 0 /\ DOMAIN Q = 1..Len(Q) /\ Head(Q) = Q[1]
  OBVIOUS
<1>2. R \in Seq(T) /\ Len(R) = Len(Q) - 1
  BY <1>1
<1>3. DOMAIN R = 1..Len(Q) - 1
  BY <1>2
<1>4. \A j \in 1..Len(Q) - 1 : R[j] = Q[j + 1]
  BY <1>1
<1>5. Q[1] \in T
  BY <1>1
<1> QED
  BY <1>1, <1>2, <1>3, <1>4, <1>5

LEMMA Replaced ==
  ASSUME NEW T, NEW Q \in Seq(T), Q # <<>>, NEW e \in T, NEW R, R = <<e>> \o Tail(Q)
  PROVE  /\ R \in Seq(T) /\ Len(Q) \in Nat /\ Len(Q) >= 1 /\ DOMAIN Q = 1..Len(Q)
         /\ Len(R) = Len(Q) /\ DOMAIN R = 1..Len(Q)
         /\ R[1] = e /\ \A j \in 1..Len(Q) : j # 1 => R[j] = Q[j]
<1>1. PICK P : P = Tail(Q)
  OBVIOUS
<1>2. /\ Len(Q) \in Nat /\ Len(Q) >= 1 /\ DOMAIN Q = 1..Len(Q)
      /\ P \in Seq(T) /\ Len(P) = Len(Q) - 1
      /\ \A j \in 1..Len(Q) - 1 : P[j] = Q[j + 1]
  BY <1>1, Popped
<1>3. R = <<e>> \o P
  BY <1>1
<1>4. /\ R \in Seq(T) /\ Len(R) = Len(P) + 1 /\ DOMAIN R = 1..Len(P) + 1
      /\ R[1] = e /\ \A j \in 1..Len(P) : R[j + 1] = P[j]
  BY <1>2, <1>3, Pushed
<1>5. ASSUME NEW j \in 1..Len(Q), j # 1
      PROVE  R[j] = Q[j]
  <2>1. PICK k \in 1..Len(Q) - 1 : k = j - 1 /\ k + 1 = j
    BY <1>2, <1>5
  <2>2. R[k + 1] = P[k] /\ P[k] = Q[k + 1]
    BY <1>2, <1>4, <2>1
  <2> QED
    BY <2>1, <2>2
<1>6. Len(P) + 1 = Len(Q)
  BY <1>2
<1> QED
  BY <1>2, <1>4, <1>5, <1>6

(* What a queue or a stack holds. *)
Waiting(Q) == {Q[j] : j \in DOMAIN Q}

-----------------------------------------------------------------------------
(* The serial crawler.                                                     *)

(* The links of one call that are still to be visited, and of all of them. *)
On(h) == {h[k] : k \in DOMAIN h}
Pending(t) == UNION {On(t[j]) : j \in DOMAIN t}

SerialTypes == /\ web \in Webs
               /\ fetched \in SUBSET Url
               /\ calls = [u \in Url |-> IF u \in fetched THEN 1 ELSE 0]
               /\ stack \in Seq(Seq(Url))

(* Only a page that is fetched for the first time makes the stack grow. *)
DepthCounted == Len(stack) <= 1 + Cardinality(fetched \cap DOMAIN web)

(* What is fetched or will be is in every closed set, and nothing that a   *)
(* fetched page links to is dropped.                                       *)
StaysInside == \A S \in SUBSET Url : CS!Abstract!Closed(S) => fetched \cup Pending(stack) \subseteq S

NothingDropped == /\ Root \in fetched \cup Pending(stack)
                  /\ \A q \in fetched \cap DOMAIN web : On(web[q]) \subseteq fetched \cup Pending(stack)

SerialInv == SerialTypes /\ DepthCounted /\ StaysInside /\ NothingDropped

LEMMA Cons ==
  ASSUME NEW T, NEW h \in T, NEW t \in Seq(T)
  PROVE  /\ <<h>> \o t \in Seq(T)
         /\ Len(<<h>> \o t) = Len(t) + 1
         /\ Head(<<h>> \o t) = h /\ Tail(<<h>> \o t) = t
         /\ <<h>> \o t # <<>>
OBVIOUS

LEMMA OnSplits ==
  ASSUME NEW T, NEW h \in Seq(T), h # <<>>
  PROVE  On(h) = {Head(h)} \cup On(Tail(h)) /\ On(h) \subseteq T /\ Head(h) \in T /\ Tail(h) \in Seq(T)
<1>1. DOMAIN h = 1..Len(h) /\ Len(h) \in Nat /\ Len(h) >= 1
  OBVIOUS
<1>2. DOMAIN Tail(h) = 1..Len(h) - 1 /\ \A k \in 1..Len(h) - 1 : Tail(h)[k] = h[k + 1]
  OBVIOUS
<1>3. \A k \in DOMAIN h : k = 1 \/ (k - 1 \in DOMAIN Tail(h) /\ h[k] = Tail(h)[k - 1])
  BY <1>1, <1>2
<1>4. 1 \in DOMAIN h /\ \A j \in DOMAIN Tail(h) : j + 1 \in DOMAIN h /\ h[j + 1] = Tail(h)[j]
  BY <1>1, <1>2
<1>5. On(h) = {Head(h)} \cup On(Tail(h))
  <2>1. \A x : x \in On(h) <=> x = Head(h) \/ x \in On(Tail(h))
    <3> TAKE x
    <3>1. x \in On(h) <=> \E k \in DOMAIN h : x = h[k]
      BY DEF On
    <3>2. x \in On(Tail(h)) <=> \E k \in DOMAIN Tail(h) : x = Tail(h)[k]
      BY DEF On
    <3>3. Head(h) = h[1]
      OBVIOUS
    <3> QED
      BY <3>1, <3>2, <3>3, <1>3, <1>4
  <2> QED
    BY <2>1
<1>6. \A k \in DOMAIN h : h[k] \in T
  OBVIOUS
<1> QED
  BY <1>1, <1>5, <1>6 DEF On

LEMMA OnType ==
  ASSUME NEW T, NEW h \in Seq(T)
  PROVE  On(h) \subseteq T /\ On(<<>>) = {}
BY DEF On

LEMMA PendingSplits ==
  ASSUME NEW T, NEW h \in Seq(T), NEW t \in Seq(Seq(T))
  PROVE  Pending(<<h>> \o t) = On(h) \cup Pending(t)
<1> DEFINE st == <<h>> \o t
<1>1. /\ DOMAIN st = 1..Len(t) + 1
      /\ st[1] = h
      /\ \A j \in 1..Len(t) : st[j + 1] = t[j]
  OBVIOUS
<1>2. DOMAIN t = 1..Len(t) /\ Len(t) \in Nat
  OBVIOUS
<1>3. \A j \in DOMAIN st : j = 1 \/ (j - 1 \in DOMAIN t /\ st[j] = t[j - 1])
  BY <1>1, <1>2
<1>4. 1 \in DOMAIN st /\ \A j \in DOMAIN t : j + 1 \in DOMAIN st /\ st[j + 1] = t[j]
  BY <1>1, <1>2
<1> HIDE DEF st
<1>5. Pending(st) = On(h) \cup Pending(t)
  <2>1. \A x : x \in Pending(st) <=> x \in On(h) \/ x \in Pending(t)
    <3> TAKE x
    <3>1. x \in Pending(st) <=> \E j \in DOMAIN st : x \in On(st[j])
      BY DEF Pending
    <3>2. x \in Pending(t) <=> \E j \in DOMAIN t : x \in On(t[j])
      BY DEF Pending
    <3> QED
      BY <3>1, <3>2, <1>1, <1>3, <1>4
  <2> QED
    BY <2>1
<1> QED
  BY <1>5 DEF st

(* What the action sees of the stack. *)
LEMMA StackSplits ==
  ASSUME SerialTypes, stack # <<>>
  PROVE  /\ Head(stack) \in Seq(Url) /\ Tail(stack) \in Seq(Seq(Url))
         /\ Len(Tail(stack)) = Len(stack) - 1 /\ Len(stack) \in Nat
         /\ Pending(stack) = On(Head(stack)) \cup Pending(Tail(stack))
<1>1. stack \in Seq(Seq(Url))
  BY DEF SerialTypes
<1>2. /\ Head(stack) \in Seq(Url) /\ Tail(stack) \in Seq(Seq(Url))
      /\ Len(Tail(stack)) = Len(stack) - 1 /\ Len(stack) \in Nat
      /\ stack = <<Head(stack)>> \o Tail(stack)
  BY <1>1
<1> QED
  BY <1>2, PendingSplits

LEMMA FetchedIsFinite ==
  ASSUME SerialTypes
  PROVE  /\ IsFiniteSet(DOMAIN web) /\ IsFiniteSet(fetched \cap DOMAIN web)
         /\ Cardinality(fetched \cap DOMAIN web) \in Nat
         /\ Cardinality(fetched \cap DOMAIN web) <= Cardinality(DOMAIN web)
         /\ Cardinality(DOMAIN web) \in Nat
BY WebsAreFinite, FS_Subset, FS_CardinalityType DEF SerialTypes

LEMMA VisitedIsFetched ==
  ASSUME SerialTypes
  PROVE  CS!Abstract!Visited = fetched
BY DEF SerialTypes, CS!Abstract!Visited

LEMMA SerialInit ==
  ASSUME CS!Init
  PROVE  SerialInv
<1> USE DEF CS!Init
<1>1. SerialTypes
  BY RootIsUrl DEF SerialTypes
<1>2. Pending(stack) = {Root}
  BY DEF Pending, On
<1>3. fetched = {} /\ Len(stack) = 1
  OBVIOUS
<1>4. DepthCounted
  BY <1>1, <1>3, FetchedIsFinite DEF DepthCounted
<1>5. StaysInside
  BY <1>2, <1>3 DEF StaysInside, CS!Abstract!Closed
<1> QED
  BY <1>1, <1>2, <1>3, <1>4, <1>5 DEF SerialInv, NothingDropped

LEMMA SerialReturns ==
  ASSUME SerialInv, CS!Return
  PROVE  SerialInv'
<1>1. /\ stack # <<>> /\ Head(stack) = <<>> /\ stack' = Tail(stack)
      /\ web' = web /\ calls' = calls /\ fetched' = fetched
  BY DEF CS!Return
<1>2. SerialTypes
  BY DEF SerialInv
<1>3. SerialTypes'
  BY <1>1, <1>2, StackSplits DEF SerialTypes
<1>4. Pending(stack') = Pending(stack)
  BY <1>1, <1>2, StackSplits, OnType
<1>5. DepthCounted'
  BY <1>1, <1>2, StackSplits, FetchedIsFinite DEF SerialInv, DepthCounted
<1>6. StaysInside' /\ NothingDropped'
  BY <1>1, <1>4 DEF SerialInv, StaysInside, NothingDropped, CS!Abstract!Closed, CS!Abstract!LinksTo
<1> QED
  BY <1>3, <1>5, <1>6 DEF SerialInv

LEMMA SerialCalls ==
  ASSUME SerialInv, CS!Call
  PROVE  SerialInv'
<1> DEFINE u == Head(Head(stack))
           rest == <<Tail(Head(stack))>> \o Tail(stack)
<1>0. /\ stack # <<>> /\ Head(stack) # <<>> /\ web' = web
      /\ \/ u \in fetched /\ stack' = rest /\ calls' = calls /\ fetched' = fetched
         \/ /\ u \notin fetched
            /\ fetched' = fetched \cup {u}
            /\ calls' = [calls EXCEPT ![u] = @ + 1]
            /\ stack' = IF u \in DOMAIN web THEN <<web[u]>> \o rest ELSE rest
  BY DEF CS!Call
<1>1. SerialTypes
  BY DEF SerialInv
<1>2. /\ Head(stack) \in Seq(Url) /\ Tail(stack) \in Seq(Seq(Url))
      /\ Len(Tail(stack)) = Len(stack) - 1 /\ Len(stack) \in Nat
      /\ Pending(stack) = On(Head(stack)) \cup Pending(Tail(stack))
  BY <1>0, <1>1, StackSplits
<1>3. On(Head(stack)) = {u} \cup On(Tail(Head(stack))) /\ u \in Url /\ Tail(Head(stack)) \in Seq(Url)
  BY <1>0, <1>2, OnSplits
<1>4. rest \in Seq(Seq(Url)) /\ Len(rest) = Len(stack)
  BY <1>2, <1>3
<1>5. Pending(rest) = On(Tail(Head(stack))) \cup Pending(Tail(stack))
  <2>1. Tail(Head(stack)) \in Seq(Url) /\ Tail(stack) \in Seq(Seq(Url))
    BY <1>2, <1>3
  <2> QED
    BY <2>1, PendingSplits
<1>6. Pending(stack) = {u} \cup Pending(rest)
  BY <1>2, <1>3, <1>5
<1>w. web \in Webs /\ fetched \in SUBSET Url /\ stack \in Seq(Seq(Url))
  BY <1>1 DEF SerialTypes
<1>c. calls = [x \in Url |-> IF x \in fetched THEN 1 ELSE 0]
  BY <1>1 DEF SerialTypes
<1>d. Len(stack) <= 1 + Cardinality(fetched \cap DOMAIN web)
  BY DEF SerialInv, DepthCounted
<1> HIDE DEF u, rest
<1>7. CASE u \in fetched
  <2>1. stack' = rest /\ calls' = calls /\ fetched' = fetched /\ web' = web
    BY <1>0, <1>7
  <2>2. SerialTypes'
    BY <2>1, <1>1, <1>4 DEF SerialTypes
  <2>3. DepthCounted'
    BY <2>1, <1>4, <1>d DEF DepthCounted
  <2>4. fetched' \cup Pending(stack') = fetched \cup Pending(stack)
    BY <2>1, <1>6, <1>7
  <2>5. StaysInside' /\ NothingDropped'
    BY <2>1, <2>4 DEF SerialInv, StaysInside, NothingDropped, CS!Abstract!Closed, CS!Abstract!LinksTo
  <2> QED
    BY <2>2, <2>3, <2>5 DEF SerialInv
<1>8. CASE u \notin fetched
  <2>1. /\ fetched' = fetched \cup {u} /\ web' = web
        /\ calls' = [calls EXCEPT ![u] = @ + 1]
        /\ stack' = IF u \in DOMAIN web THEN <<web[u]>> \o rest ELSE rest
    BY <1>0, <1>8
  <2>2. calls' = [x \in Url |-> IF x \in fetched' THEN 1 ELSE 0]
    BY <2>1, <1>3, <1>8, <1>c
  <2>3. u \in DOMAIN web => web[u] \in Seq(Url)
    BY <1>w, WebsLinkUrls
  <2>4. stack' \in Seq(Seq(Url))
    BY <2>1, <2>3, <1>4
  <2>5. SerialTypes'
    BY <2>1, <2>2, <2>4, <1>w, <1>3 DEF SerialTypes
  <2>6. IF u \in DOMAIN web THEN Pending(stack') = On(web[u]) \cup Pending(rest) ELSE Pending(stack') = Pending(rest)
    BY <2>1, <2>3, <1>4, PendingSplits
  <2>7. DepthCounted'
    <3>1. IsFiniteSet(fetched \cap DOMAIN web) /\ Cardinality(fetched \cap DOMAIN web) \in Nat
      BY <1>1, FetchedIsFinite
    <3>2. CASE u \in DOMAIN web
      <4>1. fetched' \cap DOMAIN web' = (fetched \cap DOMAIN web) \cup {u} /\ u \notin fetched \cap DOMAIN web
        BY <2>1, <3>2, <1>8
      <4>2. Cardinality(fetched' \cap DOMAIN web') = Cardinality(fetched \cap DOMAIN web) + 1
        BY <4>1, <3>1, FS_AddElement
      <4>3. Len(stack') = Len(stack) + 1
        BY <2>1, <2>3, <3>2, <1>4
      <4> QED
        BY <4>2, <4>3, <3>1, <1>2, <1>d DEF DepthCounted
    <3>3. CASE u \notin DOMAIN web
      <4>1. fetched' \cap DOMAIN web' = fetched \cap DOMAIN web /\ Len(stack') = Len(stack)
        BY <2>1, <3>3, <1>4
      <4> QED
        BY <4>1, <1>d DEF DepthCounted
    <3> QED
      BY <3>2, <3>3
  <2>8. StaysInside'
    <3> SUFFICES ASSUME NEW S \in SUBSET Url, CS!Abstract!Closed(S)
                 PROVE  fetched' \cup Pending(stack') \subseteq S
      BY <2>1 DEF StaysInside, CS!Abstract!Closed, CS!Abstract!LinksTo
    <3>1. fetched \cup Pending(stack) \subseteq S
      BY DEF SerialInv, StaysInside
    <3>2. u \in S /\ Pending(rest) \subseteq S
      BY <3>1, <1>6
    <3>3. u \in DOMAIN web => On(web[u]) \subseteq S
      BY <3>2, <2>3, OnType DEF CS!Abstract!Closed, CS!Abstract!LinksTo, On
    <3> QED
      BY <3>1, <3>2, <3>3, <2>1, <2>6
  <2>9. NothingDropped'
    <3>1. fetched \cup Pending(stack) \subseteq fetched' \cup Pending(stack')
      BY <2>1, <2>6, <1>6
    <3>2. Root \in fetched \cup Pending(stack) /\ \A q \in fetched \cap DOMAIN web : On(web[q]) \subseteq fetched \cup Pending(stack)
      BY DEF SerialInv, NothingDropped
    <3>3. u \in DOMAIN web => On(web[u]) \subseteq Pending(stack')
      BY <2>6
    <3> QED
      BY <3>1, <3>2, <3>3, <2>1 DEF NothingDropped
  <2> QED
    BY <2>5, <2>7, <2>8, <2>9 DEF SerialInv
<1> QED
  BY <1>7, <1>8

LEMMA SerialStutters ==
  ASSUME SerialInv, UNCHANGED <<web, calls, fetched, stack>>
  PROVE  SerialInv'
BY DEF SerialInv, SerialTypes, DepthCounted, StaysInside, NothingDropped, CS!Abstract!Closed, CS!Abstract!LinksTo

LEMMA SerialNext ==
  ASSUME SerialInv, CS!Next
  PROVE  SerialInv'
<1>1. CS!Terminated => UNCHANGED <<web, calls, fetched, stack>>
  BY DEF CS!Terminated, CS!vars
<1> QED
  BY <1>1, SerialCalls, SerialReturns, SerialStutters DEF CS!Next

LEMMA SameCardinality ==
  \A S : CS!Cardinality(S) = Cardinality(S)
BY Zenon DEF CS!Cardinality, Cardinality

LEMMA SerialImplies ==
  ASSUME SerialInv
  PROVE  CS!DepthBounded /\ CS!FetchedOnce /\ CS!OnlyReachable /\ CS!CompleteAtReturn
<1>1. SerialTypes
  BY DEF SerialInv
<1>2. CS!DepthBounded
  <2>1. Len(stack) \in Nat
    BY <1>1 DEF SerialTypes
  <2> QED
    BY <1>1, <2>1, FetchedIsFinite, SameCardinality DEF SerialInv, DepthCounted, CS!DepthBounded
<1>3. CS!FetchedOnce
  BY <1>1 DEF SerialTypes, CS!FetchedOnce
<1>4. CS!OnlyReachable
  BY <1>1, VisitedIsFetched DEF SerialInv, StaysInside, CS!OnlyReachable, CS!Abstract!OnlyReachable
<1>5. CS!CompleteAtReturn
  <2> SUFFICES ASSUME stack = <<>> PROVE CS!Abstract!Closed(fetched)
    BY <1>1, VisitedIsFetched DEF CS!CompleteAtReturn, CS!Abstract!CompleteAtReturn
  <2>1. Pending(stack) = {}
    BY DEF Pending
  <2> QED
    BY <2>1 DEF SerialInv, NothingDropped, CS!Abstract!Closed, CS!Abstract!LinksTo, On
<1> QED
  BY <1>2, <1>3, <1>4, <1>5

-----------------------------------------------------------------------------
(* Dijkstra.                                                               *)

Spots == 0..size - 1

EdgesOver == Spots \X Spots \X Nat

(* What addEdge keeps: the lists of the vertices hold the edges given, each *)
(* at both its ends.                                                       *)
ListsAreRoads ==
  \A u, v \in Spots, w \in Nat :
    <<u, v, w>> \in DK!Roads <=> \E j \in DOMAIN adj[u] : adj[u][j] = <<v, w>>

Built ==
  /\ size \in Nat \ {0}
  /\ adj \in [Spots -> Seq(Spots \X Nat)]
  /\ todo \in Seq(EdgesOver)
  /\ given \in SUBSET EdgesOver
  /\ ListsAreRoads

DijkstraTypes ==
  /\ size \in Nat \ {0}
  /\ adj \in [Spots -> Seq(Spots \X Nat)]
  /\ Built
  /\ todo = <<>>
  /\ dist \in [Spots -> Nat] /\ \A v \in Spots : dist[v] <= DK!INF
  /\ dist[0] = 0
  /\ pq \in SUBSET (Nat \X Spots)
  /\ top \in Spots
  /\ links \in Seq(Spots \X Nat)

(* links is what is left of the list of top. *)
LinksAreTheRest ==
  /\ Len(links) <= Len(adj[top])
  /\ \A j \in 1..Len(links) : links[j] = adj[top][Len(adj[top]) - Len(links) + j]

(* A distance is the length of a walk. *)
Walked == \A v \in Spots : dist[v] # DK!INF => \E k \in Nat : <<v, dist[v]>> \in DK!Walks[k]

SearchInv == DijkstraTypes /\ LinksAreTheRest /\ DK!NothingForgotten /\ Walked

NotAsked == dist = <<>> /\ pq = {} /\ top = 0 /\ links = <<>>

DijkstraInv == Built /\ (NotAsked \/ SearchInv)

LEMMA INFIsNat == DK!INF \in Nat /\ DK!INF > 0
BY DEF DK!INF

LEMMA SpotsAreVertices == DK!Vertices = Spots
BY DEF DK!Vertices, Spots

LEMMA ZeroIsSpot ==
  ASSUME size \in Nat \ {0}
  PROVE  0 \in Spots
BY DEF Spots

LEMMA DistOnSpots ==
  ASSUME DijkstraTypes
  PROVE  DOMAIN dist = Spots
BY DEF DijkstraTypes

(* The walks, step by step. *)
Further(W) == UNION {{<<adj[q[1]][j][1], q[2] + adj[q[1]][j][2]>> : j \in DOMAIN adj[q[1]]} : q \in W}

LEMMA LinkTyped ==
  ASSUME NEW V, NEW l \in [V -> Seq(V \X Nat)], NEW v \in V, NEW j \in DOMAIN l[v]
  PROVE  l[v][j] \in V \X Nat /\ l[v][j][1] \in V /\ l[v][j][2] \in Nat
<1>1. l[v] \in Seq(V \X Nat)
  OBVIOUS
<1>2. l[v][j] \in V \X Nat
  BY <1>1
<1> QED
  BY <1>2

LEMMA FurtherTyped ==
  ASSUME Built, NEW W \in SUBSET (Spots \X Nat)
  PROVE  Further(W) \in SUBSET (Spots \X Nat)
<1>1. ASSUME NEW q \in W, NEW j \in DOMAIN adj[q[1]]
      PROVE  <<adj[q[1]][j][1], q[2] + adj[q[1]][j][2]>> \in Spots \X Nat
  <2>1. q[1] \in Spots /\ q[2] \in Nat
    OBVIOUS
  <2>2. adj[q[1]][j][1] \in Spots /\ adj[q[1]][j][2] \in Nat
    BY <2>1, LinkTyped DEF Built
  <2> QED
    BY <2>1, <2>2
<1> QED
  BY <1>1 DEF Further

(* One more edge of the graph is one more link of a list. *)
LEMMA FurtherIsByRoads ==
  ASSUME Built, NEW W \in SUBSET (Spots \X Nat)
  PROVE  UNION {{<<e[2], q[2] + e[3]>> : e \in {r \in DK!Roads : r[1] = q[1]}} : q \in W} = Further(W)
<1> DEFINE ByRoads == UNION {{<<e[2], q[2] + e[3]>> : e \in {r \in DK!Roads : r[1] = q[1]}} : q \in W}
<1>0. DK!Roads \in SUBSET EdgesOver
  BY DEF Built, DK!Roads, EdgesOver
<1>1. ASSUME NEW x \in ByRoads
      PROVE  x \in Further(W)
  <2>1. PICK q \in W : \E e \in DK!Roads : e[1] = q[1] /\ x = <<e[2], q[2] + e[3]>>
    OBVIOUS
  <2>2. PICK e \in DK!Roads : e[1] = q[1] /\ x = <<e[2], q[2] + e[3]>>
    BY <2>1
  <2>3. PICK u \in Spots, v \in Spots, w \in Nat : e = <<u, v, w>>
    BY <1>0, <2>2 DEF EdgesOver
  <2>4. PICK j \in DOMAIN adj[u] : adj[u][j] = <<v, w>>
    BY <2>2, <2>3 DEF Built, ListsAreRoads
  <2>5. x = <<adj[q[1]][j][1], q[2] + adj[q[1]][j][2]>> /\ j \in DOMAIN adj[q[1]]
    BY <2>2, <2>3, <2>4
  <2> QED
    BY <2>5 DEF Further
<1>2. ASSUME NEW x \in Further(W)
      PROVE  x \in ByRoads
  <2>1. PICK q \in W : \E j \in DOMAIN adj[q[1]] : x = <<adj[q[1]][j][1], q[2] + adj[q[1]][j][2]>>
    BY DEF Further
  <2>2. PICK j \in DOMAIN adj[q[1]] : x = <<adj[q[1]][j][1], q[2] + adj[q[1]][j][2]>>
    BY <2>1
  <2>3. PICK u \in Spots : u = q[1]
    OBVIOUS
  <2>4. PICK v \in Spots, w \in Nat : adj[u][j] = <<v, w>>
    BY <2>2, <2>3, LinkTyped DEF Built
  <2>5. PICK e \in DK!Roads : e = <<u, v, w>>
    BY <2>2, <2>3, <2>4 DEF Built, ListsAreRoads
  <2>6. e[1] = q[1] /\ x = <<e[2], q[2] + e[3]>>
    BY <2>2, <2>3, <2>4, <2>5
  <2> QED
    BY <2>5, <2>6
<1> QED
  BY <1>1, <1>2

LEMMA WalksFrom ==
  ASSUME Built
  PROVE  /\ DK!Walks[0] = {<<0, 0>>}
         /\ \A k \in Nat : /\ DK!Walks[k] \in SUBSET (Spots \X Nat)
                           /\ DK!Walks[k + 1] = DK!Walks[k] \cup Further(DK!Walks[k])
<1> DEFINE T == SUBSET (Spots \X Nat)
           g == [W \in T |-> W \cup Further(W)]
           ByRoads(W) == UNION {{<<e[2], q[2] + e[3]>> : e \in {r \in DK!Roads : r[1] = q[1]}} : q \in W}
           Is(f) == f = [k \in Nat |-> IF k = 0 THEN {<<0, 0>>} ELSE f[k - 1] \cup ByRoads(f[k - 1])]
<1>0. {<<0, 0>>} \in T
  BY ZeroIsSpot DEF Built
<1>1. \A W \in T : g[W] \in T /\ g[W] = W \cup Further(W)
  BY FurtherTyped
<1>q. \A W \in T : ByRoads(W) = Further(W)
  BY FurtherIsByRoads
<1>r. PICK f : Repeats(f, {<<0, 0>>}, g)
  BY NatRecursion
<1>2. f = [k \in Nat |-> IF k = 0 THEN {<<0, 0>>} ELSE g[f[k - 1]]]
  BY <1>r DEF Repeats
<1> HIDE DEF T, g, ByRoads
<1>3. ASSUME NEW k \in Nat
      PROVE  f[k] \in T
  <2> DEFINE B == {m \in Nat : f[m] \notin T}
  <2> SUFFICES ASSUME B # {} PROVE FALSE
    OBVIOUS
  <2>1. PICK m \in B : \A j \in B : m <= j
    BY Smallest
  <2>2. m # 0
    BY <2>1, <1>0, <1>2
  <2>3. m - 1 \in Nat /\ m - 1 \notin B
    BY <2>1, <2>2
  <2>4. f[m - 1] \in T
    BY <2>3
  <2>5. f[m] = g[f[m - 1]]
    BY <2>1, <2>2, <1>2
  <2> QED
    BY <2>1, <2>4, <2>5, <1>1
<1>4. ASSUME NEW k \in Nat
      PROVE  f[k] = IF k = 0 THEN {<<0, 0>>} ELSE f[k - 1] \cup ByRoads(f[k - 1])
  <2>1. CASE k = 0
    BY <1>2, <2>1
  <2>2. CASE k # 0
    <3>1. k - 1 \in Nat
      BY <2>2
    <3>2. f[k] = g[f[k - 1]] /\ f[k - 1] \in T
      BY <1>2, <1>3, <2>2, <3>1
    <3> QED
      BY <3>2, <2>2, <1>1, <1>q
  <2> QED
    BY <2>1, <2>2
<1>5. Is(f)
  <2>1. f = [k \in Nat |-> f[k]]
    BY <1>2, Zenon
  <2> QED
    BY <2>1, <1>4, Zenon
<1>6. Is(DK!Walks)
  <2>1. DK!Walks = CHOOSE h : Is(h)
    BY Zenon DEF DK!Walks, ByRoads
  <2> QED
    BY <2>1, <1>5, Zenon
<1>7. PICK h : h = DK!Walks
  OBVIOUS
<1>8. \A k \in Nat : h[k] = IF k = 0 THEN {<<0, 0>>} ELSE h[k - 1] \cup ByRoads(h[k - 1])
  BY <1>6, <1>7, Zenon
<1>9. ASSUME NEW k \in Nat
      PROVE  h[k] \in T
  <2> DEFINE B == {m \in Nat : h[m] \notin T}
  <2> SUFFICES ASSUME B # {} PROVE FALSE
    OBVIOUS
  <2>1. PICK m \in B : \A j \in B : m <= j
    BY Smallest
  <2>2. m # 0
    BY <2>1, <1>0, <1>8
  <2>3. m - 1 \in Nat /\ m - 1 \notin B
    BY <2>1, <2>2
  <2>4. h[m - 1] \in T
    BY <2>3
  <2>5. h[m] = g[h[m - 1]]
    BY <2>1, <2>2, <2>4, <1>1, <1>8, <1>q
  <2> QED
    BY <2>1, <2>4, <2>5, <1>1
<1>10. ASSUME NEW k \in Nat
       PROVE  h[k + 1] = h[k] \cup Further(h[k])
  <2>1. k + 1 \in Nat /\ k + 1 # 0 /\ (k + 1) - 1 = k
    OBVIOUS
  <2>2. h[k + 1] = h[k] \cup ByRoads(h[k])
    BY <2>1, <1>8
  <2> QED
    BY <2>2, <1>9, <1>q
<1>11. h[0] = {<<0, 0>>}
  BY <1>8
<1> QED
  BY <1>7, <1>9, <1>10, <1>11 DEF T

LEMMA WalksAre ==
  ASSUME DijkstraTypes
  PROVE  /\ DK!Walks[0] = {<<0, 0>>}
         /\ \A k \in Nat :
               /\ DK!Walks[k] \in SUBSET (Spots \X Nat)
               /\ DK!Walks[k + 1] = DK!Walks[k] \cup Further(DK!Walks[k])
BY WalksFrom DEF DijkstraTypes

LEMMA RoadsStay ==
  ASSUME given' = given
  PROVE  DK!Roads' = DK!Roads
BY DEF DK!Roads

LEMMA WalksStay ==
  ASSUME given' = given
  PROVE  DK!Walks' = DK!Walks
BY DEF DK!Walks, DK!Roads

LEMMA BuiltStays ==
  ASSUME Built, size' = size, adj' = adj, given' = given, todo' = todo
  PROVE  Built'
<1>1. DK!Roads' = DK!Roads /\ Spots' = Spots /\ EdgesOver' = EdgesOver
  BY RoadsStay DEF Spots, EdgesOver
<1>2. ListsAreRoads
  BY DEF Built
<1>3. ASSUME NEW u \in Spots, NEW v \in Spots, NEW w \in Nat
      PROVE  <<u, v, w>> \in DK!Roads' <=> \E j \in DOMAIN adj'[u] : adj'[u][j] = <<v, w>>
  <2>1. <<u, v, w>> \in DK!Roads <=> \E j \in DOMAIN adj[u] : adj[u][j] = <<v, w>>
    BY <1>2 DEF ListsAreRoads
  <2> QED
    BY <1>1, <2>1
<1>4. ListsAreRoads'
  BY <1>1, <1>3 DEF ListsAreRoads
<1> QED
  BY <1>1, <1>4, Zenon DEF Built

LEMMA DijkstraInit ==
  ASSUME DK!Init
  PROVE  DijkstraInv
<1>1. PICK x \in Graphs : size = x.size /\ todo = x.calls
  BY DEF DK!Init
<1>2. size \in Nat \ {0} /\ todo \in Seq(EdgesOver)
  BY <1>1, GraphsAreWeighted DEF EdgesOver, Spots
<1>3. adj = [v \in Spots |-> <<>>] /\ given = {} /\ NotAsked
  BY SpotsAreVertices DEF DK!Init, NotAsked
<1>4. DK!Roads = {}
  BY <1>3 DEF DK!Roads
<1>5. ListsAreRoads
  BY <1>3, <1>4 DEF ListsAreRoads
<1> QED
  BY <1>2, <1>3, <1>5 DEF DijkstraInv, Built

(* The links of the list l and its last one x. *)
LEMMA AppendedLinks ==
  ASSUME NEW V
  PROVE  \A l \in Seq(V), x \in V, y \in V :
           (\E j \in DOMAIN Append(l, x) : Append(l, x)[j] = y)
             <=> (y = x \/ \E j \in DOMAIN l : l[j] = y)
<1> TAKE l \in Seq(V), x \in V, y \in V
<1>1. Len(l) \in Nat /\ DOMAIN l = 1..Len(l)
  OBVIOUS
<1>2. /\ DOMAIN Append(l, x) = 1..Len(l) + 1
      /\ \A j \in 1..Len(l) : Append(l, x)[j] = l[j]
      /\ Append(l, x)[Len(l) + 1] = x
  OBVIOUS
<1> QED
  BY <1>1, <1>2

LEMMA DijkstraAdds ==
  ASSUME Built, NotAsked, DK!AddEdge
  PROVE  Built' /\ NotAsked'
<1>1. PICK x \in Spots, y \in Spots, c \in Nat : Head(todo) = <<x, y, c>>
  <2>1. Head(todo) \in EdgesOver
    BY DEF Built, DK!AddEdge
  <2> QED
    BY <2>1 DEF EdgesOver
<1> DEFINE once == [adj EXCEPT ![x] = Append(@, <<y, c>>)]
<1>2. /\ given' = given \cup {<<x, y, c>>}
      /\ adj' = [once EXCEPT ![y] = Append(@, <<x, c>>)]
      /\ todo # <<>> /\ todo' = Tail(todo) /\ size' = size
  <2>1. Head(todo)[1] = x /\ Head(todo)[2] = y /\ Head(todo)[3] = c
    BY <1>1
  <2> QED
    BY <2>1, Zenon DEF DK!AddEdge
<1>3. NotAsked' /\ Spots' = Spots /\ EdgesOver' = EdgesOver
  BY <1>2 DEF NotAsked, DK!AddEdge, Spots, EdgesOver
<1>4. todo' \in Seq(EdgesOver) /\ given' \in SUBSET EdgesOver /\ size' \in Nat \ {0}
  BY <1>2 DEF Built, EdgesOver
<1>5. adj \in [Spots -> Seq(Spots \X Nat)] /\ ListsAreRoads
  BY DEF Built
<1>6. once \in [Spots -> Seq(Spots \X Nat)]
  <2>1. PICK e \in Spots \X Nat : e = <<y, c>>
    OBVIOUS
  <2> QED
    BY <1>5, <2>1, AppendAt
<1>7. adj' \in [Spots -> Seq(Spots \X Nat)]
  <2>1. PICK e \in Spots \X Nat : e = <<x, c>>
    OBVIOUS
  <2> HIDE DEF once
  <2> QED
    BY <1>2, <1>6, <2>1, AppendAt
<1>8. ASSUME NEW u \in Spots, NEW v \in Spots, NEW w \in Nat
      PROVE  <<u, v, w>> \in DK!Roads' <=> \E j \in DOMAIN adj'[u] : adj'[u][j] = <<v, w>>
  <2>1. <<u, v, w>> \in DK!Roads' <=> \/ <<u, v, w>> \in DK!Roads
                                      \/ <<u, v, w>> = <<x, y, c>>
                                      \/ <<u, v, w>> = <<y, x, c>>
    <3>1. <<u, v, w>> \in DK!Roads' <=> \/ <<u, v, w>> \in given'
                                        \/ \E e \in given' : <<u, v, w>> = <<e[2], e[1], e[3]>>
      BY DEF DK!Roads
    <3>2. <<u, v, w>> \in DK!Roads <=> \/ <<u, v, w>> \in given
                                       \/ \E e \in given : <<u, v, w>> = <<e[2], e[1], e[3]>>
      BY DEF DK!Roads
    <3>3. (\E e \in given' : <<u, v, w>> = <<e[2], e[1], e[3]>>)
            <=> \/ \E e \in given : <<u, v, w>> = <<e[2], e[1], e[3]>>
                \/ <<u, v, w>> = <<y, x, c>>
      <4> DEFINE t == <<x, y, c>>
      <4>1. t[1] = x /\ t[2] = y /\ t[3] = c
        OBVIOUS
      <4> HIDE DEF t
      <4>2. \A e : e \in given' <=> e \in given \/ e = t
        BY <1>2 DEF t
      <4> QED
        BY <4>1, <4>2, Zenon
    <3> QED
      BY <3>1, <3>2, <3>3, <1>2
  <2>2. <<u, v, w>> \in DK!Roads <=> \E j \in DOMAIN adj[u] : adj[u][j] = <<v, w>>
    BY <1>5 DEF ListsAreRoads
  <2>3. (\E j \in DOMAIN once[u] : once[u][j] = <<v, w>>)
          <=> \/ u = x /\ <<v, w>> = <<y, c>>
              \/ \E j \in DOMAIN adj[u] : adj[u][j] = <<v, w>>
    <3>1. CASE u = x
      <4>1. once[u] = Append(adj[u], <<y, c>>) /\ adj[u] \in Seq(Spots \X Nat)
        BY <1>5, <3>1
      <4>2. PICK e \in Spots \X Nat, f \in Spots \X Nat : e = <<y, c>> /\ f = <<v, w>>
        OBVIOUS
      <4>3. (\E j \in DOMAIN Append(adj[u], e) : Append(adj[u], e)[j] = f)
              <=> (f = e \/ \E j \in DOMAIN adj[u] : adj[u][j] = f)
        <5> DEFINE V == Spots \X Nat
        <5>1. adj[u] \in Seq(V) /\ e \in V /\ f \in V
          BY <4>1
        <5> HIDE DEF V, once
        <5>2. \A l \in Seq(V), g \in V, k \in V :
                (\E j \in DOMAIN Append(l, g) : Append(l, g)[j] = k)
                  <=> (k = g \/ \E j \in DOMAIN l : l[j] = k)
          BY ONLY AppendedLinks
        <5> QED
          BY <5>1, <5>2
      <4> HIDE DEF once
      <4> QED
        BY <4>1, <4>2, <4>3, <3>1
    <3>2. CASE u # x
      BY <3>2, <1>5
    <3> QED
      BY <3>1, <3>2
  <2>4. (\E j \in DOMAIN adj'[u] : adj'[u][j] = <<v, w>>)
          <=> \/ u = y /\ <<v, w>> = <<x, c>>
              \/ \E j \in DOMAIN once[u] : once[u][j] = <<v, w>>
    <3> HIDE DEF once
    <3>1. CASE u = y
      <4>1. adj'[u] = Append(once[u], <<x, c>>) /\ once[u] \in Seq(Spots \X Nat)
        BY <1>2, <1>6, <3>1
      <4>2. PICK e \in Spots \X Nat, f \in Spots \X Nat : e = <<x, c>> /\ f = <<v, w>>
        OBVIOUS
      <4>3. (\E j \in DOMAIN Append(once[u], e) : Append(once[u], e)[j] = f)
              <=> (f = e \/ \E j \in DOMAIN once[u] : once[u][j] = f)
        <5> DEFINE V == Spots \X Nat
        <5>1. once[u] \in Seq(V) /\ e \in V /\ f \in V
          BY <4>1
        <5> HIDE DEF V, once
        <5>2. \A l \in Seq(V), g \in V, k \in V :
                (\E j \in DOMAIN Append(l, g) : Append(l, g)[j] = k)
                  <=> (k = g \/ \E j \in DOMAIN l : l[j] = k)
          BY ONLY AppendedLinks
        <5> QED
          BY <5>1, <5>2
      <4> QED
        BY <4>1, <4>2, <4>3, <3>1
    <3>2. CASE u # y
      BY <3>2, <1>2, <1>6
    <3> QED
      BY <3>1, <3>2
  <2>5. /\ <<u, v, w>> = <<x, y, c>> <=> u = x /\ <<v, w>> = <<y, c>>
        /\ <<u, v, w>> = <<y, x, c>> <=> u = y /\ <<v, w>> = <<x, c>>
    OBVIOUS
  <2> HIDE DEF once
  <2> QED
    BY <2>1, <2>2, <2>3, <2>4, <2>5
<1>9. ListsAreRoads'
  BY <1>3, <1>8 DEF ListsAreRoads
<1> QED
  BY <1>3, <1>4, <1>7, <1>9 DEF Built

LEMMA DijkstraStarts ==
  ASSUME Built, NotAsked, DK!ShortestPath
  PROVE  SearchInv'
<1>1. /\ size' = size /\ adj' = adj /\ given' = given /\ todo' = todo
      /\ dist' = [v \in Spots |-> IF v = 0 THEN 0 ELSE DK!INF]
      /\ pq' = {<<0, 0>>} /\ top' = 0 /\ links' = <<>> /\ todo = <<>>
  BY SpotsAreVertices DEF DK!ShortestPath, NotAsked
<1>2. size \in Nat \ {0} /\ adj \in [Spots -> Seq(Spots \X Nat)] /\ Spots' = Spots
  BY <1>1 DEF Built, Spots
<1>3. 0 \in Spots
  BY <1>2, ZeroIsSpot
<1>4. Built'
  BY <1>1, BuiltStays
<1>5. DijkstraTypes'
  BY <1>1, <1>2, <1>3, <1>4, INFIsNat DEF DijkstraTypes
<1>6. LinksAreTheRest'
  <2>1. adj'[top'] \in Seq(Spots \X Nat) /\ Len(links') = 0
    BY <1>1, <1>2, <1>3
  <2> QED
    BY <2>1 DEF LinksAreTheRest
<1>7. DOMAIN dist' = Spots /\ \A v \in Spots : dist'[v] # DK!INF => v = 0
  BY <1>1
<1>8. DK!NothingForgotten'
  <2>1. dist'[0] = 0 /\ <<0, 0>> \in pq'
    BY <1>1, <1>3
  <2>2. \A u \in DOMAIN dist' : dist'[u] # DK!INF => <<dist'[u], u>> \in pq'
    BY <1>7, <2>1
  <2> QED
    BY <2>2, Zenon DEF DK!NothingForgotten
<1>9. Walked'
  <2>1. DK!Walks' [0] = {<<0, 0>>}
    BY <1>1, WalksFrom, WalksStay
  <2> QED
    BY <2>1, <1>1, <1>2, <1>3, <1>7 DEF Walked
<1> QED
  BY <1>5, <1>6, <1>8, <1>9 DEF SearchInv

(* The queue has a top. *)
LEMMA TopIs ==
  ASSUME DijkstraTypes, pq # {}
  PROVE  DK!Top \in pq
<1>0. pq \in SUBSET (Nat \X Spots)
  BY DEF DijkstraTypes
<1> DEFINE D == {x \in Nat : \E q \in pq : q[1] = x}
<1>1. D # {} /\ D \in SUBSET Nat
  BY <1>0
<1>2. PICK x \in D : \A y \in D : x <= y
  BY <1>1, Smallest
<1> DEFINE W == {v \in Nat : \E q \in pq : q[1] = x /\ q[2] = v}
<1>3. W # {} /\ W \in SUBSET Nat
  <2>1. PICK q \in pq : q[1] = x
    BY <1>2
  <2>2. q[2] \in Nat
    BY <1>0 DEF Spots
  <2> QED
    BY <2>1, <2>2
<1>4. PICK v \in W : \A y \in W : v <= y
  BY <1>3, Smallest
<1>5. PICK q \in pq : q[1] = x /\ q[2] = v
  BY <1>4
<1>6. ASSUME NEW r \in pq
      PROVE  DK!Before(q, r)
  <2>1. r[1] \in Nat /\ r[2] \in Nat
    BY <1>0 DEF Spots
  <2>2. r[1] \in D /\ x <= r[1]
    BY <2>1, <1>2
  <2>3. CASE r[1] = x
    <3>1. r[2] \in W
      BY <2>1, <2>3
    <3>2. v <= r[2]
      BY <3>1, <1>4
    <3> QED
      BY <1>5, <2>3, <3>2 DEF DK!Before
  <2>4. CASE r[1] # x
    BY <1>2, <1>5, <2>1, <2>2, <2>4 DEF DK!Before
  <2> QED
    BY <2>3, <2>4
<1> QED
  BY <1>6 DEF DK!Top

LEMMA DijkstraPops ==
  ASSUME SearchInv, DK!Pop
  PROVE  SearchInv'
<1>0. DijkstraTypes
  BY DEF SearchInv
<1>1. PICK q \in pq : q = DK!Top
  BY <1>0, TopIs DEF DK!Pop
<1>2. /\ links = <<>> /\ top' = q[2] /\ pq' = pq \ {q} /\ links' = adj[q[2]]
      /\ size' = size /\ adj' = adj /\ dist' = dist /\ given' = given /\ todo' = todo
  BY <1>1 DEF DK!Pop
<1>3. q \in Nat \X Spots /\ q[2] \in Spots /\ q = <<q[1], q[2]>>
  BY <1>0, <1>1 DEF DijkstraTypes
<1>4. adj[q[2]] \in Seq(Spots \X Nat)
  BY <1>0, <1>3 DEF DijkstraTypes
<1>5. Spots' = Spots
  BY <1>2 DEF Spots
<1>6. DijkstraTypes'
  <2>1. Built'
    BY <1>0, <1>2, BuiltStays DEF DijkstraTypes
  <2> QED
    BY <1>0, <1>2, <1>3, <1>4, <1>5, <2>1 DEF DijkstraTypes
<1>7. LinksAreTheRest'
  BY <1>2, <1>4 DEF LinksAreTheRest
<1>8. DK!NothingForgotten'
  <2> SUFFICES ASSUME NEW u \in Spots, dist[u] # DK!INF, NEW j \in DOMAIN adj[u],
                      dist[adj[u][j][1]] > dist[u] + adj[u][j][2]
               PROVE  <<dist[u], u>> \in pq' \/ (u = top' /\ j > Len(adj[u]) - Len(links'))
    BY <1>0, <1>2, DistOnSpots DEF DK!NothingForgotten
  <2>1. <<dist[u], u>> \in pq \/ (u = top /\ j > Len(adj[u]) - Len(links))
    BY <1>0, DistOnSpots DEF SearchInv, DK!NothingForgotten
  <2>2. adj[u] \in Seq(Spots \X Nat) /\ j \in 1..Len(adj[u]) /\ Len(adj[u]) \in Nat
    <3>1. adj \in [Spots -> Seq(Spots \X Nat)]
      BY <1>0 DEF DijkstraTypes
    <3> QED
      BY <3>1
  <2>3. Len(links) = 0
    BY <1>2
  <2>4. <<dist[u], u>> \in pq
    BY <2>1, <2>2, <2>3
  <2>5. CASE <<dist[u], u>> = q
    <3>1. u = top' /\ links' = adj[u]
      BY <2>5, <1>2
    <3>2. j > Len(adj[u]) - Len(adj[u])
      BY <2>2
    <3> QED
      BY <3>1, <3>2
  <2>6. CASE <<dist[u], u>> # q
    BY <2>4, <2>6, <1>2
  <2> QED
    BY <2>5, <2>6
<1>9. Walked'
  BY <1>2, <1>5, WalksStay DEF SearchInv, Walked
<1> QED
  BY <1>6, <1>7, <1>8, <1>9 DEF SearchInv

LEMMA DijkstraRelaxes ==
  ASSUME SearchInv, DK!Relax
  PROVE  SearchInv'
<1>0. DijkstraTypes
  BY DEF SearchInv
<1>1. PICK v, w : v = Head(links)[1] /\ w = Head(links)[2]
  OBVIOUS
<1> DEFINE through == dist[top] + w
<1>2. /\ links # <<>> /\ links' = Tail(links)
      /\ size' = size /\ adj' = adj /\ top' = top /\ given' = given /\ todo' = todo
      /\ IF dist[v] > through
           THEN dist' = [dist EXCEPT ![v] = through] /\ pq' = pq \cup {<<through, v>>}
           ELSE dist' = dist /\ pq' = pq
  BY <1>1 DEF DK!Relax
<1>3. links \in Seq(Spots \X Nat) /\ Len(links) \in Nat /\ Len(links) > 0 /\ Head(links) = links[1]
  BY <1>0, <1>2 DEF DijkstraTypes
<1>4. v \in Spots /\ w \in Nat /\ Tail(links) \in Seq(Spots \X Nat) /\ Len(Tail(links)) = Len(links) - 1
  BY <1>1, <1>3
<1>5. Spots' = Spots
  BY <1>2 DEF Spots
<1>6. dist \in [Spots -> Nat] /\ top \in Spots /\ dist[top] \in Nat /\ through \in Nat /\ dist[0] = 0
      /\ \A x \in Spots : dist[x] <= DK!INF
  BY <1>0, <1>4 DEF DijkstraTypes
<1>7. adj \in [Spots -> Seq(Spots \X Nat)] /\ Len(adj[top]) \in Nat
  BY <1>0, <1>6 DEF DijkstraTypes
<1>8. /\ dist' \in [Spots -> Nat]
      /\ \A x \in Spots : dist'[x] <= dist[x]
      /\ \A x \in Spots : x # v => dist'[x] = dist[x]
      /\ dist'[v] <= through
  <2> HIDE DEF through
  <2>1. dist[v] \in Nat /\ \A x \in Spots : dist[x] \in Nat
    BY <1>4, <1>6
  <2>2. CASE dist[v] > through
    <3>1. dist' = [x \in Spots |-> IF x = v THEN through ELSE dist[x]]
      BY <2>2, <1>2, <1>4, <1>6
    <3>2. dist' \in [Spots -> Nat]
      BY <3>1, <2>1, <1>6
    <3>3. \A x \in Spots : dist'[x] = IF x = v THEN through ELSE dist[x]
      BY <3>1
    <3>4. through \in Nat /\ v \in Spots
      BY <1>4, <1>6
    <3>5. \A x \in Spots : dist'[x] <= dist[x]
      BY <3>3, <3>4, <2>1, <2>2
    <3>6. \A x \in Spots : x # v => dist'[x] = dist[x]
      BY <3>3
    <3>7. dist'[v] <= through
      BY <3>3, <3>4
    <3> QED
      BY <3>2, <3>5, <3>6, <3>7
  <2>3. CASE ~(dist[v] > through)
    BY <2>1, <2>3, <1>2, <1>4, <1>6
  <2> QED
    BY <2>2, <2>3
<1>9. DijkstraTypes'
  <2>1. \A x \in Spots : dist'[x] <= DK!INF
    BY <1>6, <1>8, INFIsNat
  <2>2. dist'[0] = 0
    <3>1. 0 \in Spots
      BY <1>0, ZeroIsSpot DEF DijkstraTypes
    <3>2. dist'[0] \in Nat /\ dist'[0] <= 0
      BY <3>1, <1>6, <1>8
    <3> QED
      BY <3>2
  <2>3. pq' \in SUBSET (Nat \X Spots)
    <3>1. <<through, v>> \in Nat \X Spots
      BY <1>4, <1>6
    <3>2. pq \in SUBSET (Nat \X Spots)
      BY <1>0 DEF DijkstraTypes
    <3> QED
      BY <1>2, <3>1, <3>2
  <2>4. Built'
    BY <1>0, <1>2, BuiltStays DEF DijkstraTypes
  <2> QED
    BY <1>0, <1>2, <1>4, <1>5, <1>8, <2>1, <2>2, <2>3, <2>4 DEF DijkstraTypes
<1>10. LinksAreTheRest
  BY DEF SearchInv
<1>11. LinksAreTheRest'
  <2>1. Len(links) <= Len(adj[top]) /\ \A j \in 1..Len(links) : links[j] = adj[top][Len(adj[top]) - Len(links) + j]
    BY <1>10 DEF LinksAreTheRest
  <2>2. \A j \in 1..Len(links) - 1 : Tail(links)[j] = links[j + 1] /\ j + 1 \in 1..Len(links)
    BY <1>3
  <2>3. ASSUME NEW j \in 1..Len(links) - 1
        PROVE  Tail(links)[j] = adj[top][Len(adj[top]) - (Len(links) - 1) + j]
    <3>0. Len(adj[top]) \in Int /\ Len(links) \in Int /\ j \in Int
      BY <1>3, <1>7
    <3>1. Len(adj[top]) - (Len(links) - 1) + j = Len(adj[top]) - Len(links) + (j + 1)
      <4>1. \A k, l, m \in Int : k - (l - 1) + m = k - l + (m + 1)
        OBVIOUS
      <4> QED
        BY ONLY <3>0, <4>1
    <3> QED
      BY <2>1, <2>2, <3>1
  <2> QED
    BY <1>2, <1>3, <1>4, <1>7, <2>1, <2>3 DEF LinksAreTheRest
<1>12. DK!NothingForgotten'
  <2> SUFFICES ASSUME NEW u \in Spots, dist'[u] # DK!INF, NEW j \in DOMAIN adj[u],
                      dist'[adj[u][j][1]] > dist'[u] + adj[u][j][2]
               PROVE  <<dist'[u], u>> \in pq' \/ (u = top /\ j > Len(adj[u]) - Len(links'))
    BY <1>2, <1>8 DEF DK!NothingForgotten
  <2>1. adj[u] \in Seq(Spots \X Nat) /\ j \in 1..Len(adj[u]) /\ Len(adj[u]) \in Nat
    BY <1>7
  <2>2. adj[u][j][1] \in Spots /\ adj[u][j][2] \in Nat
    BY <1>7, LinkTyped
  <2>3. CASE dist'[u] # dist[u]
    <3>1. u = v /\ dist[v] > through /\ dist'[v] = through /\ <<through, v>> \in pq'
      BY <2>3, <1>2, <1>6, <1>8
    <3> QED
      BY <3>1
  <2>4. CASE dist'[u] = dist[u]
    <3> PICK y, x : y = adj[u][j][1] /\ x = adj[u][j][2]
      OBVIOUS
    <3>1. dist[y] > dist[u] + x
      BY <1>6, <1>8, <2>2, <2>4
    <3>2. <<dist[u], u>> \in pq \/ (u = top /\ j > Len(adj[u]) - Len(links))
      BY <3>1, <2>4, <1>0, DistOnSpots DEF SearchInv, DK!NothingForgotten
    <3>3. CASE <<dist[u], u>> \in pq
      BY <1>2, <2>4, <3>3
    <3>4. CASE u = top /\ j > Len(adj[u]) - Len(links)
      <4>1. CASE j = Len(adj[u]) - Len(links) + 1
        <5>1. links[1] = adj[u][j]
          BY <1>3, <1>10, <3>4, <4>1 DEF LinksAreTheRest
        <5>2. y = v /\ x = w
          BY <5>1, <1>1, <1>3
        <5>3. dist'[v] <= dist[u] + w
          BY <1>8, <3>4
        <5>4. dist'[v] > dist[u] + w
          BY <5>2, <2>4
        <5>5. dist'[v] \in Nat /\ dist[u] \in Nat
          BY <1>4, <1>6, <1>8
        <5> QED
          BY <5>3, <5>4, <5>5, <1>4
      <4>2. CASE j # Len(adj[u]) - Len(links) + 1
        BY <1>2, <1>3, <1>4, <2>1, <3>4, <4>2
      <4> QED
        BY <4>1, <4>2
    <3> QED
      BY <3>2, <3>3, <3>4
  <2> QED
    BY <2>3, <2>4
<1>13. Walked'
  <2>0. DK!Walks' = DK!Walks
    BY <1>2, WalksStay
  <2> SUFFICES ASSUME NEW u \in Spots, dist'[u] # DK!INF
               PROVE  \E k \in Nat : <<u, dist'[u]>> \in DK!Walks[k]
    BY <1>5, <2>0 DEF Walked
  <2>1. CASE dist'[u] = dist[u]
    BY <2>1 DEF SearchInv, Walked
  <2>2. CASE dist'[u] # dist[u]
    <3>1. u = v /\ dist[v] > through /\ dist'[v] = through
      BY <2>2, <1>2, <1>6, <1>8
    <3>2. dist[top] # DK!INF
      <4>1. dist[v] <= DK!INF /\ dist[v] \in Nat
        BY <1>4, <1>6
      <4> QED
        BY <3>1, <4>1, <1>4, <1>6, INFIsNat
    <3>3. PICK k \in Nat : <<top, dist[top]>> \in DK!Walks[k]
      BY <3>2, <1>6 DEF SearchInv, Walked
    <3>4. PICK j \in DOMAIN adj[top] : adj[top][j] = links[1]
      <4>1. Len(adj[top]) - Len(links) + 1 \in 1..Len(adj[top]) /\ 1 \in 1..Len(links)
        BY <1>3, <1>7, <1>10 DEF LinksAreTheRest
      <4>2. DOMAIN adj[top] = 1..Len(adj[top])
        BY <1>6, <1>7
      <4> QED
        BY <4>1, <4>2, <1>10 DEF LinksAreTheRest
    <3>5. PICK r \in DK!Walks[k] : r = <<top, dist[top]>>
      BY <3>3
    <3>6. r[1] = top /\ r[2] = dist[top] /\ adj[top][j][1] = v /\ adj[top][j][2] = w
      BY <3>4, <3>5, <1>1, <1>3
    <3>7. <<v, through>> \in Further(DK!Walks[k])
      BY <3>5, <3>6 DEF Further
    <3>8. <<v, through>> \in DK!Walks[k + 1]
      BY <3>7, <1>0, WalksAre
    <3> QED
      BY <3>1, <3>8
  <2> QED
    BY <2>1, <2>2
<1> QED
  BY <1>9, <1>11, <1>12, <1>13 DEF SearchInv

LEMMA DijkstraNext ==
  ASSUME DijkstraInv, DK!Next
  PROVE  DijkstraInv'
<1>1. CASE NotAsked
  <2>1. ~DK!Pop /\ ~DK!Relax
    BY <1>1 DEF NotAsked, DK!Pop, DK!Relax
  <2>2. CASE DK!AddEdge
    BY <2>2, <1>1, DijkstraAdds DEF DijkstraInv
  <2>3. CASE DK!ShortestPath
    <3>1. SearchInv'
      BY <2>3, <1>1, DijkstraStarts DEF DijkstraInv
    <3> QED
      BY <3>1 DEF DijkstraInv, SearchInv, DijkstraTypes
  <2> QED
    BY <2>1, <2>2, <2>3 DEF DK!Next
<1>2. CASE SearchInv
  <2>1. ~DK!AddEdge /\ ~DK!ShortestPath
    <3>1. 0 \in Spots /\ DOMAIN dist = Spots /\ todo = <<>>
      BY <1>2, ZeroIsSpot DEF SearchInv, DijkstraTypes
    <3>2. dist # <<>>
      BY <3>1
    <3> QED
      BY <3>1, <3>2 DEF DK!AddEdge, DK!ShortestPath
  <2>2. SearchInv'
    BY <1>2, <2>1, DijkstraPops, DijkstraRelaxes DEF DK!Next
  <2> QED
    BY <2>2 DEF DijkstraInv, SearchInv, DijkstraTypes
<1> QED
  BY <1>1, <1>2 DEF DijkstraInv

LEMMA DijkstraStutters ==
  ASSUME DijkstraInv, UNCHANGED dijkstraVars
  PROVE  DijkstraInv'
<1>1. /\ size' = size /\ adj' = adj /\ dist' = dist /\ pq' = pq /\ top' = top /\ links' = links
      /\ given' = given /\ todo' = todo
  BY DEF dijkstraVars
<1>2. Spots' = Spots /\ DK!Walks' = DK!Walks /\ Built'
  BY <1>1, WalksStay, BuiltStays DEF Spots, DijkstraInv
<1>3. NotAsked => NotAsked'
  BY <1>1 DEF NotAsked
<1>4. SearchInv => SearchInv'
  BY <1>1, <1>2 DEF SearchInv, DijkstraTypes, LinksAreTheRest, DK!NothingForgotten, Walked
<1> QED
  BY <1>2, <1>3, <1>4 DEF DijkstraInv

-----------------------------------------------------------------------------
(* Walks of fewer edges than there are vertices are enough. *)
LEMMA WalksGrow ==
  ASSUME DijkstraTypes
  PROVE  \A k, l \in Nat : k <= l => DK!Walks[k] \subseteq DK!Walks[l]
<1> TAKE k \in Nat
<1> DEFINE B == {l \in Nat : k <= l /\ ~(DK!Walks[k] \subseteq DK!Walks[l])}
<1> SUFFICES ASSUME B # {} PROVE FALSE
  OBVIOUS
<1>1. PICK l \in B : \A j \in B : l <= j
  BY Smallest
<1>2. l # k
  BY <1>1
<1>3. l - 1 \in Nat /\ k <= l - 1 /\ l - 1 \notin B /\ (l - 1) + 1 = l
  BY <1>1, <1>2
<1>4. DK!Walks[k] \subseteq DK!Walks[l - 1]
  BY <1>3
<1>5. DK!Walks[l] = DK!Walks[l - 1] \cup Further(DK!Walks[l - 1])
  BY <1>3, WalksAre
<1> QED
  BY <1>1, <1>4, <1>5

LEMMA LongerByOne ==
  ASSUME DijkstraTypes, NEW k \in Nat, NEW v \in Spots, NEW x \in Nat, <<v, x>> \in DK!Walks[k],
         NEW j \in DOMAIN adj[v]
  PROVE  <<adj[v][j][1], x + adj[v][j][2]>> \in DK!Walks[k + 1]
<1>1. PICK q \in DK!Walks[k] : q = <<v, x>>
  OBVIOUS
<1>2. q[1] = v /\ q[2] = x
  BY <1>1
<1>3. <<adj[q[1]][j][1], q[2] + adj[q[1]][j][2]>> \in Further(DK!Walks[k])
  BY <1>2 DEF Further
<1>4. DK!Walks[k + 1] = DK!Walks[k] \cup Further(DK!Walks[k])
  BY WalksAre
<1> QED
  BY <1>2, <1>3, <1>4

LEMMA ShortWalksSuffice ==
  ASSUME DijkstraTypes, NEW k \in Nat, NEW v \in Spots, NEW x \in Nat, <<v, x>> \in DK!Walks[k]
  PROVE  \E y \in Nat : y <= x /\ <<v, y>> \in DK!Walks[size - 1]
<1> DEFINE Lengths(u) == {y \in Nat : \E l \in Nat : <<u, y>> \in DK!Walks[l]}
           R == {u \in Spots : Lengths(u) # {}}
           m == [u \in R |-> Lowest(Lengths(u))]
           Hops(u) == {l \in Nat : <<u, m[u]>> \in DK!Walks[l]}
           h == [u \in R |-> Lowest(Hops(u))]
<1>1. ASSUME NEW u \in R
      PROVE  /\ m[u] \in Nat
             /\ \A y \in Nat, l \in Nat : <<u, y>> \in DK!Walks[l] => m[u] <= y
             /\ h[u] \in Nat
             /\ <<u, m[u]>> \in DK!Walks[h[u]]
             /\ \A l \in Nat : <<u, m[u]>> \in DK!Walks[l] => h[u] <= l
  <2>1. Lengths(u) \in SUBSET Nat /\ Lengths(u) # {} /\ m[u] = Lowest(Lengths(u))
    OBVIOUS
  <2>2. m[u] \in Lengths(u) /\ \A y \in Lengths(u) : m[u] <= y
    <3> HIDE DEF Lengths, m, R
    <3> QED
      BY <2>1, LowestIs
  <2>3. h[u] = Lowest(Hops(u))
    OBVIOUS
  <2>4. Hops(u) \in SUBSET Nat /\ Hops(u) # {}
    <3>1. PICK l \in Nat : <<u, m[u]>> \in DK!Walks[l]
      <4> HIDE DEF m, R
      <4> QED
        BY <2>2
    <3> HIDE DEF m, R
    <3> QED
      BY <3>1
  <2>5. h[u] \in Hops(u) /\ \A l \in Hops(u) : h[u] <= l
    <3> HIDE DEF Hops, h, R
    <3> QED
      BY <2>3, <2>4, LowestIs
  <2> HIDE DEF m, h, R
  <2> QED
    BY <2>2, <2>5
<1>2. ASSUME NEW u \in R, h[u] > 0
      PROVE  \E w \in R : h[w] = h[u] - 1
  <2> DEFINE l == h[u] - 1
  <2>1. /\ m[u] \in Nat /\ h[u] \in Nat /\ l \in Nat /\ l + 1 = h[u]
        /\ <<u, m[u]>> \in DK!Walks[h[u]] /\ <<u, m[u]>> \notin DK!Walks[l]
    <3> HIDE DEF m, h, R
    <3>1. m[u] \in Nat /\ h[u] \in Nat /\ <<u, m[u]>> \in DK!Walks[h[u]]
      BY <1>1
    <3>2. l \in Nat /\ l + 1 = h[u] /\ ~(h[u] <= l)
      BY <3>1, <1>2
    <3> HIDE DEF l
    <3> QED
      BY <1>1, <3>1, <3>2
  <2> HIDE DEF l, m, h
  <2>2. DK!Walks[h[u]] = DK!Walks[l] \cup Further(DK!Walks[l]) /\ DK!Walks[l] \in SUBSET (Spots \X Nat)
    BY <2>1, WalksAre
  <2>3. <<u, m[u]>> \in Further(DK!Walks[l])
    BY <2>1, <2>2
  <2>q. PICK q \in DK!Walks[l] : \E j \in DOMAIN adj[q[1]] : <<u, m[u]>> = <<adj[q[1]][j][1], q[2] + adj[q[1]][j][2]>>
    BY <2>3 DEF Further
  <2>4. PICK j \in DOMAIN adj[q[1]] : <<u, m[u]>> = <<adj[q[1]][j][1], q[2] + adj[q[1]][j][2]>>
    BY <2>q
  <2>5. PICK w \in Spots, y \in Nat : q = <<w, y>>
    BY <2>2
  <2>6. <<w, y>> \in DK!Walks[l] /\ j \in DOMAIN adj[w] /\ u = adj[w][j][1] /\ m[u] = y + adj[w][j][2]
    BY <2>4, <2>5
  <2>7. w \in R
    BY <2>1, <2>6
  <2> HIDE DEF R
  <2>8. PICK z \in Nat : z = adj[w][j][2]
    BY <2>6, LinkTyped DEF DijkstraTypes
  <2>9. m[w] = y
    <3>1. m[w] \in Nat /\ m[w] <= y /\ h[w] \in Nat /\ <<w, m[w]>> \in DK!Walks[h[w]]
      BY <1>1, <2>1, <2>6, <2>7
    <3>2. <<u, m[w] + z>> \in DK!Walks[h[w] + 1]
      BY <3>1, <2>6, <2>8, LongerByOne
    <3>3. m[u] <= m[w] + z
      <4>1. m[w] + z \in Nat /\ h[w] + 1 \in Nat
        BY <3>1
      <4>2. \A t \in Nat, k2 \in Nat : <<u, t>> \in DK!Walks[k2] => m[u] <= t
        BY <1>1
      <4> QED
        BY <3>2, <4>1, <4>2
    <3> QED
      BY <3>1, <3>3, <2>6, <2>8
  <2>10. h[w] \in Nat /\ h[w] <= l
    BY <1>1, <2>1, <2>6, <2>7, <2>9
  <2>11. h[w] + 1 >= h[u]
    <3>1. <<w, m[w]>> \in DK!Walks[h[w]] /\ m[w] \in Nat
      BY <1>1, <2>7
    <3>2. <<u, m[w] + z>> \in DK!Walks[h[w] + 1]
      BY <3>1, <2>6, <2>8, <2>10, LongerByOne
    <3>3. <<u, m[u]>> \in DK!Walks[h[w] + 1]
      BY <3>2, <2>6, <2>8, <2>9
    <3>4. h[w] + 1 \in Nat
      BY <2>10
    <3> QED
      BY <3>3, <3>4, <1>1
  <2> QED
    BY <2>1, <2>7, <2>10, <2>11 DEF l
<1>3. IsFiniteSet(Spots) /\ Cardinality(Spots) = size
  BY FS_Interval DEF DijkstraTypes, Spots
<1>4. h \in [R -> Nat] /\ R \in SUBSET Spots
  <2>1. h = [u \in R |-> h[u]]
    OBVIOUS
  <2> HIDE DEF h, m
  <2> QED
    BY <2>1, <1>1
<1>5. v \in R
  OBVIOUS
<1> HIDE DEF h, R, m
<1>6. h[v] < size
  BY <1>2, <1>3, <1>4, <1>5, LevelsAreFew
<1>7. m[v] <= x /\ m[v] \in Nat /\ <<v, m[v]>> \in DK!Walks[h[v]] /\ h[v] \in Nat
  BY <1>1, <1>5
<1>8. size - 1 \in Nat /\ h[v] <= size - 1
  BY <1>6, <1>7 DEF DijkstraTypes
<1>9. <<v, m[v]>> \in DK!Walks[size - 1]
  BY <1>7, <1>8, WalksGrow
<1> QED
  BY <1>7, <1>9

(* When the search is over, no walk is shorter than the distance. *)
LEMMA NoWalkIsShorter ==
  ASSUME SearchInv, DK!Done, NEW l \in Nat
  PROVE  \A q \in DK!Walks[l] : dist[q[1]] <= q[2]
<1>0. DijkstraTypes
  BY DEF SearchInv
<1> DEFINE B == {k \in Nat : ~ \A q \in DK!Walks[k] : dist[q[1]] <= q[2]}
<1> SUFFICES ASSUME B # {} PROVE FALSE
  OBVIOUS
<1>1. PICK k \in B : \A j \in B : k <= j
  BY Smallest
<1>2. \A k1 \in Nat : DK!Walks[k1] \in SUBSET (Spots \X Nat)
  BY <1>0, WalksAre
<1>3. PICK q \in DK!Walks[k] : ~(dist[q[1]] <= q[2])
  BY <1>1
<1>4. k # 0
  <2>1. dist[0] <= 0
    BY <1>0 DEF DijkstraTypes
  <2> QED
    BY <2>1, <1>0, <1>3, WalksAre
<1>5. k - 1 \in Nat /\ k - 1 \notin B /\ (k - 1) + 1 = k
  BY <1>1, <1>4
<1>6. \A r \in DK!Walks[k - 1] : dist[r[1]] <= r[2]
  BY <1>5
<1>7. q \in Further(DK!Walks[k - 1])
  BY <1>0, <1>3, <1>5, <1>6, WalksAre
<1>r. PICK r \in DK!Walks[k - 1] : \E j \in DOMAIN adj[r[1]] : q = <<adj[r[1]][j][1], r[2] + adj[r[1]][j][2]>>
  BY <1>7 DEF Further
<1>8. PICK j \in DOMAIN adj[r[1]] : q = <<adj[r[1]][j][1], r[2] + adj[r[1]][j][2]>>
  BY <1>r
<1>9. PICK u \in Spots, x \in Nat : r = <<u, x>>
  BY <1>2, <1>5
<1>10. PICK v \in Spots, w \in Nat : v = adj[u][j][1] /\ w = adj[u][j][2]
  BY <1>0, <1>8, <1>9, LinkTyped DEF DijkstraTypes
<1>11. q[1] = v /\ q[2] = x + w /\ j \in DOMAIN adj[u]
  BY <1>8, <1>9, <1>10
<1>12. dist[u] <= x
  BY <1>6, <1>9
<1>13. dist[u] \in Nat /\ dist[v] \in Nat /\ dist[v] <= DK!INF
  BY <1>0 DEF DijkstraTypes
<1>14. CASE dist[u] = DK!INF
  BY <1>3, <1>11, <1>12, <1>13, <1>14, INFIsNat
<1>15. CASE dist[u] # DK!INF
  <2>1. pq = {} /\ links = <<>> /\ Len(links) = 0
    BY DEF DK!Done
  <2>2. ~(dist[v] > dist[u] + w)
    <3>1. adj[u] \in Seq(Spots \X Nat)
      BY <1>0 DEF DijkstraTypes
    <3>2. Len(adj[u]) \in Nat /\ j \in 1..Len(adj[u])
      BY <3>1, <1>11
    <3>3. ~(j > Len(adj[u]) - Len(links))
      BY <3>2, <2>1
    <3>4. dist[adj[u][j][1]] > dist[u] + adj[u][j][2] =>
            \/ <<dist[u], u>> \in pq
            \/ u = top /\ j > Len(adj[u]) - Len(links)
      BY <1>11, <1>15, <1>0, DistOnSpots DEF SearchInv, DK!NothingForgotten
    <3> QED
      BY <3>3, <3>4, <2>1, <1>10
  <2> QED
    BY <2>2, <1>3, <1>11, <1>12, <1>13
<1> QED
  BY <1>14, <1>15

LEMMA MinIs ==
  ASSUME NEW U \in SUBSET Nat, U # {}
  PROVE  DK!Min(U) \in U /\ \A y \in U : DK!Min(U) <= y
BY Smallest DEF DK!Min

LEMMA DijkstraShortest ==
  ASSUME SearchInv
  PROVE  DK!Shortest
<1>0. DijkstraTypes
  BY DEF SearchInv
<1> DEFINE W == DK!Walks[size - 1]
           distance(v) == DK!Min({q[2] : q \in {r \in W : r[1] = v}} \cup {DK!INF})
<1>1. ASSUME NEW v \in Spots
      PROVE  dist[v] >= distance(v) /\ (DK!Done => dist[v] = distance(v))
  <2> DEFINE U == {q[2] : q \in {r \in W : r[1] = v}} \cup {DK!INF}
  <2>1. size - 1 \in Nat /\ W \in SUBSET (Spots \X Nat)
    BY <1>0, WalksAre DEF DijkstraTypes
  <2>2. U \in SUBSET Nat /\ DK!INF \in U
    BY <2>1, INFIsNat
  <2>3. distance(v) \in U /\ \A y \in U : distance(v) <= y
    BY <2>2, MinIs
  <2>4. dist[v] \in Nat /\ dist[v] <= DK!INF
    BY <1>0 DEF DijkstraTypes
  <2>5. dist[v] >= distance(v)
    <3>1. CASE dist[v] = DK!INF
      BY <2>2, <2>3, <2>4, <3>1
    <3>2. CASE dist[v] # DK!INF
      <4>1. PICK k \in Nat : <<v, dist[v]>> \in DK!Walks[k]
        BY <3>2 DEF SearchInv, Walked
      <4>2. PICK y \in Nat : y <= dist[v] /\ <<v, y>> \in W
        BY <4>1, <2>4, <1>0, ShortWalksSuffice
      <4>3. y \in U
        <5>1. PICK r \in W : r = <<v, y>>
          BY <4>2
        <5>2. r[1] = v /\ r[2] = y
          BY <5>1
        <5> QED
          BY <5>2
      <4>4. distance(v) <= y /\ distance(v) \in Nat
        BY <4>3, <2>2, <2>3
      <4> HIDE DEF distance
      <4> QED
        BY <4>2, <4>4, <2>4
    <3> QED
      BY <3>1, <3>2
  <2>6. DK!Done => dist[v] = distance(v)
    <3> SUFFICES ASSUME DK!Done PROVE dist[v] <= distance(v)
      <4>1. distance(v) \in Nat
        BY <2>2, <2>3
      <4> HIDE DEF distance
      <4> QED
        BY <4>1, <2>4, <2>5
    <3>1. \A q \in W : dist[q[1]] <= q[2]
      BY <2>1, NoWalkIsShorter
    <3>2. \A y \in U : dist[v] <= y
      BY <3>1, <2>4
    <3> HIDE DEF distance, U
    <3> QED
      BY <3>2, <2>3
  <2> QED
    BY <2>5, <2>6
<1> QED
  BY <1>0, <1>1, DistOnSpots DEF DK!Shortest

(* Before the search there are no distances. *)
LEMMA DijkstraImplies ==
  ASSUME DijkstraInv
  PROVE  DK!NothingForgotten /\ DK!Shortest
<1>1. CASE SearchInv
  BY <1>1, DijkstraShortest DEF SearchInv
<1>2. CASE NotAsked
  <2>1. DOMAIN dist = {}
    BY <1>2 DEF NotAsked
  <2> QED
    BY <2>1 DEF DK!NothingForgotten, DK!Shortest
<1> QED
  BY <1>1, <1>2 DEF DijkstraInv

-----------------------------------------------------------------------------
(* StoreGraph and MCMF: the stores of edges.                               *)

(* The numbers of a set in order. *)
Sorted(q, S) == /\ q \in Seq(Int)
                /\ {q[k] : k \in DOMAIN q} = S
                /\ \A k \in DOMAIN q, l \in DOMAIN q : k < l => q[k] < q[l]

LEMMA AppendHigher ==
  ASSUME NEW q, NEW S, Sorted(q, S), NEW v \in Int, \A y \in S : y < v
  PROVE  Sorted(Append(q, v), S \cup {v})
<1> DEFINE r == Append(q, v)
<1>1. q \in Seq(Int) /\ {q[k] : k \in DOMAIN q} = S
  BY DEF Sorted
<1>2. /\ r \in Seq(Int) /\ DOMAIN q = 1..Len(q) /\ DOMAIN r = 1..Len(q) + 1 /\ Len(q) \in Nat
      /\ \A k \in 1..Len(q) : r[k] = q[k]
      /\ r[Len(q) + 1] = v
  BY <1>1
<1>3. \A k \in DOMAIN q : q[k] \in S /\ q[k] < v
  BY <1>1
<1>4. {r[k] : k \in DOMAIN r} = S \cup {v}
  <2>1. \A x : (\E k \in DOMAIN r : x = r[k]) <=> (\E k \in DOMAIN q : x = q[k]) \/ x = v
    <3> TAKE x
    <3>1. \A k \in DOMAIN r : k \in DOMAIN q \/ k = Len(q) + 1
      BY <1>2
    <3>2. \A k \in DOMAIN q : k \in DOMAIN r /\ r[k] = q[k]
      BY <1>2
    <3>3. Len(q) + 1 \in DOMAIN r
      BY <1>2
    <3> HIDE DEF r
    <3> QED
      BY <3>1, <3>2, <3>3, <1>2
  <2> HIDE DEF r
  <2> QED
    BY <2>1, <1>1
<1>5. \A k \in DOMAIN r, l \in DOMAIN r : k < l => r[k] < r[l]
  <2> SUFFICES ASSUME NEW k \in DOMAIN r, NEW l \in DOMAIN r, k < l PROVE r[k] < r[l]
    OBVIOUS
  <2>1. k \in DOMAIN q
    BY <1>2
  <2>2. CASE l = Len(q) + 1
    BY <1>2, <1>3, <2>1, <2>2
  <2>3. CASE l # Len(q) + 1
    <3>1. l \in DOMAIN q
      BY <1>2, <2>3
    <3>2. q[k] < q[l]
      BY <2>1, <3>1 DEF Sorted
    <3>3. r[k] = q[k] /\ r[l] = q[l]
      BY <1>2, <2>1, <3>1
    <3> QED
      BY <3>2, <3>3
  <2> QED
    BY <2>2, <2>3
<1> HIDE DEF r
<1>6. Sorted(r, S \cup {v})
  BY <1>2, <1>4, <1>5 DEF Sorted
<1> QED
  BY <1>6 DEF r

Joints == 0..VertexCount - 1
Pairs == [x : Joints, y : Joints, cap : {0, 1}, cost : Int]
LeavingPairs(x) == {k - 1 : k \in {j \in DOMAIN pairs : pairs[j].x = x}}

VectorsInv ==
  /\ n \in Int
  /\ pairs \in Seq(Pairs)
  /\ G \in [Joints -> Seq(Int)]
  /\ added \in [lists : Seq(Joints \X Joints), ready : BOOLEAN, vectors : Seq(Joints \X Joints)]
  /\ Len(pairs) = 2 * Len(added.vectors)
  /\ \A x \in Joints : x < n => Sorted(G[x], LeavingPairs(x))
  /\ \A k \in DOMAIN added.vectors : pairs[2 * k].y = added.vectors[k][1] /\ pairs[2 * k].x = added.vectors[k][2]

LEMMA VectorsChange ==
  ASSUME NEW L, NEW V, NEW r \in [lists : L, ready : BOOLEAN, vectors : V], NEW v \in V
  PROVE  /\ [r EXCEPT !.vectors = v] \in [lists : L, ready : BOOLEAN, vectors : V]
         /\ [r EXCEPT !.vectors = v].vectors = v /\ r.vectors \in V
OBVIOUS

LEMMA JointsAreVertices == ES!Vertex = Joints
BY DEF ES!Vertex, Joints

LEMMA VectorsImply ==
  ASSUME VectorsInv
  PROVE  ES!VectorsAreEdges
<1>1. ASSUME NEW x \in Joints, x < n
      PROVE  /\ ES!Range(G[x]) = LeavingPairs(x)
             /\ \A k \in DOMAIN G[x], l \in DOMAIN G[x] : k < l => G[x][k] < G[x][l]
  BY <1>1 DEF VectorsInv, Sorted, ES!Range
<1>2. ASSUME NEW k \in DOMAIN added.vectors
      PROVE  <<pairs[2 * k].y, pairs[2 * k].x>> = added.vectors[k]
  <2>1. added.vectors \in Seq(Joints \X Joints)
    BY DEF VectorsInv
  <2>2. added.vectors[k] \in Joints \X Joints
    BY <2>1
  <2>3. added.vectors[k] = <<added.vectors[k][1], added.vectors[k][2]>>
    BY <2>2
  <2>4. pairs[2 * k].y = added.vectors[k][1] /\ pairs[2 * k].x = added.vectors[k][2]
    BY DEF VectorsInv
  <2> QED
    BY <2>3, <2>4
<1> QED
  BY <1>1, <1>2, JointsAreVertices DEF ES!VectorsAreEdges, LeavingPairs

LEMMA VectorsInit ==
  ASSUME ES!Init
  PROVE  VectorsInv
<1>1. /\ n = 0 /\ G = [x \in Joints |-> <<>>] /\ pairs = <<>>
      /\ added = [lists |-> <<>>, ready |-> FALSE, vectors |-> <<>>]
  BY JointsAreVertices DEF ES!Init
<1>2. \A x \in Joints : ~(x < 0)
  BY DEF Joints
<1> QED
  BY <1>1, <1>2 DEF VectorsInv

LEMMA NothingSorted ==
  Sorted(<<>>, {})
BY DEF Sorted

LEMMA VectorsCleared ==
  ASSUME VectorsInv, NEW k \in 0..VertexCount, ES!InitVectors(k)
  PROVE  VectorsInv'
<1>0. added \in [lists : Seq(Joints \X Joints), ready : BOOLEAN, vectors : Seq(Joints \X Joints)]
  BY DEF VectorsInv
<1>1. /\ n' = k /\ G' = [x \in Joints |-> IF x < k THEN <<>> ELSE G[x]]
      /\ pairs' = <<>> /\ added' = [added EXCEPT !.vectors = <<>>]
  BY JointsAreVertices DEF ES!InitVectors
<1>2. /\ added' \in [lists : Seq(Joints \X Joints), ready : BOOLEAN, vectors : Seq(Joints \X Joints)]
      /\ added'.vectors = <<>>
  <2>1. <<>> \in Seq(Joints \X Joints)
    OBVIOUS
  <2> QED
    BY <1>0, <1>1, <2>1, VectorsChange
<1>3. Len(pairs') = 0 /\ pairs' \in Seq(Pairs) /\ Len(added'.vectors) = 0
  BY <1>1, <1>2
<1>4. G' \in [Joints -> Seq(Int)]
  BY <1>1 DEF VectorsInv
<1>5. \A x \in Joints : x < n' => Sorted(G'[x], LeavingPairs(x)')
  <2>1. \A x \in Joints : LeavingPairs(x)' = {}
    BY <1>1 DEF LeavingPairs
  <2> QED
    BY <1>1, <2>1, NothingSorted
<1> QED
  BY <1>1, <1>2, <1>3, <1>4, <1>5 DEF VectorsInv

LEMMA VectorsGrow ==
  ASSUME VectorsInv, NEW x \in Joints, NEW y \in Joints, ES!AddPair(x, y, 1)
  PROVE  VectorsInv'
<1> DEFINE m == Len(pairs) + 2
           one == [x |-> x, y |-> y, cap |-> 1, cost |-> 1]
           two == [x |-> y, y |-> x, cap |-> 0, cost |-> -1]
           first == [G EXCEPT ![x] = Append(@, m - 2)]
<1>1. /\ x < n /\ y < n /\ n' = n
      /\ pairs' = pairs \o <<one, two>>
      /\ G' = [first EXCEPT ![y] = Append(@, m - 1)]
      /\ added' = [added EXCEPT !.vectors = Append(@, <<x, y>>)]
  BY DEF ES!AddPair
<1>2. /\ n \in Int
      /\ pairs \in Seq(Pairs)
      /\ G \in [Joints -> Seq(Int)]
      /\ added \in [lists : Seq(Joints \X Joints), ready : BOOLEAN, vectors : Seq(Joints \X Joints)]
      /\ Len(pairs) = 2 * Len(added.vectors)
      /\ \A z \in Joints : z < n => Sorted(G[z], LeavingPairs(z))
      /\ \A k \in DOMAIN added.vectors : pairs[2 * k].y = added.vectors[k][1] /\ pairs[2 * k].x = added.vectors[k][2]
  BY DEF VectorsInv
<1>3. one \in Pairs /\ two \in Pairs /\ one.x = x /\ two.x = y /\ two.y = x
  BY DEF Pairs
<1> HIDE DEF one, two
<1>4. /\ pairs' \in Seq(Pairs) /\ Len(pairs') = m /\ Len(pairs) \in Nat /\ m \in Nat
      /\ DOMAIN pairs = 1..m - 2 /\ DOMAIN pairs' = 1..m
      /\ \A k \in 1..m - 2 : pairs'[k] = pairs[k]
      /\ pairs'[m - 1] = one /\ pairs'[m] = two
  <2>1. /\ pairs' \in Seq(Pairs)
        /\ Len(pairs) \in Nat /\ DOMAIN pairs = 1..Len(pairs)
        /\ Len(pairs') = Len(pairs) + 2 /\ DOMAIN pairs' = 1..Len(pairs) + 2
        /\ \A k \in 1..Len(pairs) : pairs'[k] = pairs[k]
        /\ pairs'[Len(pairs) + 1] = one /\ pairs'[Len(pairs) + 2] = two
    <3>1. PICK q \in Seq(Pairs), v \in Pairs, w \in Pairs : q = pairs /\ v = one /\ w = two
      BY <1>2, <1>3
    <3>2. /\ q \o <<v, w>> \in Seq(Pairs)
          /\ Len(q) \in Nat /\ DOMAIN q = 1..Len(q)
          /\ Len(q \o <<v, w>>) = Len(q) + 2 /\ DOMAIN (q \o <<v, w>>) = 1..Len(q) + 2
          /\ \A k \in 1..Len(q) : (q \o <<v, w>>)[k] = q[k]
          /\ (q \o <<v, w>>)[Len(q) + 1] = v /\ (q \o <<v, w>>)[Len(q) + 2] = w
      BY TwoMore
    <3>3. pairs' = q \o <<v, w>>
      BY <1>1, <3>1
    <3> QED
      BY <3>1, <3>2, <3>3, Zenon
  <2>2. m - 2 = Len(pairs) /\ m - 1 = Len(pairs) + 1 /\ m \in Nat
    BY <2>1
  <2> HIDE DEF m
  <2>3. m = Len(pairs) + 2
    BY DEF m
  <2> QED
    BY <2>1, <2>2, <2>3
<1>5. first \in [Joints -> Seq(Int)] /\ G' \in [Joints -> Seq(Int)]
  <2>1. m - 2 \in Int /\ m - 1 \in Int
    BY <1>4
  <2> HIDE DEF m
  <2>2. first \in [Joints -> Seq(Int)]
    BY <1>2, <2>1, AppendAt
  <2> HIDE DEF first
  <2> QED
    BY <1>1, <2>1, <2>2, AppendAt
<1>6. /\ added' \in [lists : Seq(Joints \X Joints), ready : BOOLEAN, vectors : Seq(Joints \X Joints)]
      /\ added'.vectors = Append(added.vectors, <<x, y>>)
  <2>1. added.vectors \in Seq(Joints \X Joints)
    BY <1>2
  <2>2. Append(added.vectors, <<x, y>>) \in Seq(Joints \X Joints)
    BY <2>1
  <2> QED
    BY <1>1, <1>2, <2>2, VectorsChange
<1>7. /\ added.vectors \in Seq(Joints \X Joints) /\ Len(added.vectors) \in Nat
      /\ DOMAIN added.vectors = 1..Len(added.vectors)
      /\ DOMAIN added'.vectors = 1..Len(added.vectors) + 1
      /\ Len(added'.vectors) = Len(added.vectors) + 1
      /\ \A k \in 1..Len(added.vectors) : added'.vectors[k] = added.vectors[k]
      /\ added'.vectors[Len(added.vectors) + 1] = <<x, y>>
  BY <1>2, <1>6
<1>8. Len(pairs') = 2 * Len(added'.vectors)
  BY <1>2, <1>4, <1>7
<1>9. ASSUME NEW z \in Joints, z < n'
      PROVE  Sorted(G'[z], LeavingPairs(z)')
  <2>1. Sorted(G[z], LeavingPairs(z))
    BY <1>1, <1>2, <1>9
  <2> DEFINE S1 == IF z = x THEN LeavingPairs(z) \cup {m - 2} ELSE LeavingPairs(z)
             S2 == IF z = y THEN S1 \cup {m - 1} ELSE S1
  <2>2. \A k \in LeavingPairs(z) : k \in Int /\ k < m - 2
    BY <1>4 DEF LeavingPairs
  <2>3. Sorted(first[z], S1)
    <3>1. CASE z = x
      <4>1. first[z] = Append(G[z], m - 2)
        BY <3>1, <1>2
      <4>2. m - 2 \in Int
        BY <1>4
      <4> HIDE DEF first, m
      <4> QED
        BY <2>1, <2>2, <3>1, <4>1, <4>2, AppendHigher
    <3>2. CASE z # x
      BY <2>1, <3>2, <1>2
    <3> QED
      BY <3>1, <3>2
  <2>4. \A k \in S1 : k \in Int /\ k < m - 1
    BY <2>2, <1>4
  <2>5. Sorted(G'[z], S2)
    <3>1. CASE z = y
      <4>1. G'[z] = Append(first[z], m - 1)
        BY <3>1, <1>1, <1>5
      <4>2. m - 1 \in Int
        BY <1>4
      <4> HIDE DEF first, m, S1
      <4> QED
        BY <2>3, <2>4, <3>1, <4>1, <4>2, AppendHigher
    <3>2. CASE z # y
      <4>1. G'[z] = first[z]
        BY <3>2, <1>1, <1>5
      <4> QED
        BY <2>3, <3>2, <4>1
    <3> QED
      BY <3>1, <3>2
  <2>6. LeavingPairs(z)' = S2
    <3>1. \A k : (\E j \in 1..m : pairs'[j].x = z /\ k = j - 1)
                   <=> (\E j \in 1..m - 2 : pairs[j].x = z /\ k = j - 1) \/ (z = x /\ k = m - 2) \/ (z = y /\ k = m - 1)
      <4>1. \A j \in 1..m : j \in 1..m - 2 \/ j = m - 1 \/ j = m
        BY <1>4
      <4>2. m - 1 \in 1..m /\ m \in 1..m /\ \A j \in 1..m - 2 : j \in 1..m
        BY <1>4
      <4>3. (m - 1) - 1 = m - 2
        BY <1>4
      <4>4. pairs'[m - 1].x = x /\ pairs'[m].x = y /\ \A j \in 1..m - 2 : pairs'[j].x = pairs[j].x
        BY <1>3, <1>4
      <4> HIDE DEF m
      <4> QED
        BY <4>1, <4>2, <4>3, <4>4
    <3> HIDE DEF m
    <3> QED
      BY <3>1, <1>4 DEF LeavingPairs
  <2> HIDE DEF S2
  <2> QED
    BY <2>5, <2>6
<1>10. ASSUME NEW k \in DOMAIN added'.vectors
       PROVE  pairs'[2 * k].y = added'.vectors[k][1] /\ pairs'[2 * k].x = added'.vectors[k][2]
  <2>1. CASE k \in DOMAIN added.vectors
    <3>1. 2 * k \in 1..m - 2 /\ k \in 1..Len(added.vectors)
      <4>1. m = 2 * Len(added.vectors) + 2 /\ k \in 1..Len(added.vectors)
        BY <1>2, <1>7, <2>1
      <4> HIDE DEF m
      <4> QED
        BY <4>1, <1>7
    <3> QED
      BY <3>1, <2>1, <1>2, <1>4, <1>7
  <2>2. CASE k \notin DOMAIN added.vectors
    <3>1. k = Len(added.vectors) + 1 /\ 2 * k = m
      BY <1>2, <1>7, <2>2
    <3>2. added'.vectors[k][1] = x /\ added'.vectors[k][2] = y
      BY <1>7, <3>1
    <3> QED
      BY <3>1, <3>2, <1>3, <1>4
  <2> QED
    BY <2>1, <2>2
<1> HIDE DEF first, m
<1> QED
  BY <1>1, <1>2, <1>4, <1>5, <1>6, <1>8, <1>9, <1>10 DEF VectorsInv

LEMMA VectorsNext ==
  ASSUME VectorsInv, ES!Vectors
  PROVE  VectorsInv'
BY VectorsCleared, VectorsGrow, JointsAreVertices DEF ES!Vectors

LEMMA VectorsStutter ==
  ASSUME VectorsInv, UNCHANGED storeVars
  PROVE  VectorsInv'
BY DEF storeVars, VectorsInv, LeavingPairs
-----------------------------------------------------------------------------
(* StoreGraph. h is the last of the first m edges in l that leaves x. *)
IsLast(l, h, x, m) ==
  /\ h = -1 \/ (h \in 0..m - 1 /\ l[h + 1][1] = x)
  /\ \A k \in 1..m : l[k][1] = x => k - 1 <= h

StoredEdges == [x : Joints, y : Joints, head : Int, weight : {0, 1}]

ListsInv ==
  /\ added \in [lists : Seq(Joints \X Joints), ready : BOOLEAN, vectors : Seq(Joints \X Joints)]
  /\ store \in Seq(StoredEdges)
  /\ nodeHead \in [Joints -> Int]
  /\ nodePointer \in Nat /\ nodePointer <= Len(store) /\ Len(added.lists) = nodePointer
  /\ \A k \in 1..nodePointer : store[k].x = added.lists[k][1] /\ store[k].y = added.lists[k][2]
  /\ added.ready =>
       /\ \A x \in Joints : IsLast(added.lists, nodeHead[x], x, nodePointer)
       /\ \A k \in 1..nodePointer : IsLast(added.lists, store[k].head, store[k].x, k - 1)
  /\ ~added.ready =>
       /\ nodePointer = Len(store)
       /\ \A x \in Joints : nodeHead[x] \in Nat /\ (nodeHead[x] = 0 \/ nodeHead[x] < nodePointer)
       /\ \A k \in 1..nodePointer : store[k].head \in 0..nodePointer - 1

LEMMA ListsChange ==
  ASSUME NEW L, NEW V, NEW r \in [lists : L, ready : BOOLEAN, vectors : V], NEW v \in L
  PROVE  /\ [r EXCEPT !.lists = v] \in [lists : L, ready : BOOLEAN, vectors : V]
         /\ [r EXCEPT !.lists = v].lists = v /\ [r EXCEPT !.lists = v].ready = r.ready
         /\ [r EXCEPT !.lists = v, !.ready = TRUE] \in [lists : L, ready : BOOLEAN, vectors : V]
         /\ [r EXCEPT !.lists = v, !.ready = TRUE].lists = v
         /\ [r EXCEPT !.lists = v, !.ready = TRUE].ready = TRUE
         /\ r.lists \in L /\ r.ready \in BOOLEAN
OBVIOUS

LEMMA ListsInit ==
  ASSUME ES!Init
  PROVE  ListsInv
<1>1. /\ nodeHead = [x \in Joints |-> 0] /\ nodePointer = 0 /\ store = <<>>
      /\ added = [lists |-> <<>>, ready |-> FALSE, vectors |-> <<>>]
  BY JointsAreVertices DEF ES!Init
<1>2. /\ added.lists = <<>> /\ added.ready = FALSE
      /\ added \in [lists : Seq(Joints \X Joints), ready : BOOLEAN, vectors : Seq(Joints \X Joints)]
  BY <1>1
<1> QED
  BY <1>1, <1>2 DEF ListsInv

LEMMA ListsCleared ==
  ASSUME ListsInv, ES!InitGraph
  PROVE  ListsInv'
<1>1. /\ nodeHead' = [x \in Joints |-> -1] /\ nodePointer' = 0 /\ store' = store
      /\ added' = [added EXCEPT !.lists = <<>>, !.ready = TRUE]
  BY JointsAreVertices DEF ES!InitGraph
<1>2. /\ added \in [lists : Seq(Joints \X Joints), ready : BOOLEAN, vectors : Seq(Joints \X Joints)]
      /\ store \in Seq(StoredEdges)
  BY DEF ListsInv
<1>3. /\ added' \in [lists : Seq(Joints \X Joints), ready : BOOLEAN, vectors : Seq(Joints \X Joints)]
      /\ added'.lists = <<>> /\ added'.ready = TRUE
  <2>1. <<>> \in Seq(Joints \X Joints)
    OBVIOUS
  <2> QED
    BY <1>1, <1>2, <2>1, ListsChange
<1>4. \A x \in Joints : IsLast(<<>>, nodeHead'[x], x, 0)
  BY <1>1 DEF IsLast
<1>5. nodeHead' \in [Joints -> Int] /\ Len(store') \in Nat /\ Len(<<>>) = 0
  BY <1>1, <1>2
<1> QED
  BY <1>1, <1>2, <1>3, <1>4, <1>5 DEF ListsInv

LEMMA ListsGrow ==
  ASSUME ListsInv, NEW x \in Joints, NEW y \in Joints, NEW w \in {0, 1}, ES!AddToList(x, y, w)
  PROVE  ListsInv'
<1> DEFINE e == [x |-> x, y |-> y, head |-> nodeHead[x], weight |-> w]
<1>1. /\ store' = ES!Stored(e)
      /\ nodeHead' = [nodeHead EXCEPT ![x] = nodePointer]
      /\ nodePointer' = nodePointer + 1
      /\ added' = [added EXCEPT !.lists = Append(@, <<x, y>>)]
  BY DEF ES!AddToList
<1>2. /\ added \in [lists : Seq(Joints \X Joints), ready : BOOLEAN, vectors : Seq(Joints \X Joints)]
      /\ store \in Seq(StoredEdges)
      /\ nodeHead \in [Joints -> Int]
      /\ nodePointer \in Nat /\ nodePointer <= Len(store) /\ Len(added.lists) = nodePointer
      /\ \A k \in 1..nodePointer : store[k].x = added.lists[k][1] /\ store[k].y = added.lists[k][2]
  BY DEF ListsInv
<1>3. e \in StoredEdges /\ e.x = x /\ e.y = y /\ e.head = nodeHead[x]
  BY <1>2 DEF StoredEdges
<1> HIDE DEF e
<1>4. /\ store' \in Seq(StoredEdges) /\ nodePointer + 1 <= Len(store')
      /\ \A k \in 1..nodePointer : store'[k] = store[k]
      /\ store'[nodePointer + 1] = e
      /\ nodePointer = Len(store) => Len(store') = nodePointer + 1
  <2>1. CASE nodePointer < Len(store)
    <3>1. store' = [store EXCEPT ![nodePointer + 1] = e]
      BY <1>1, <2>1 DEF ES!Stored
    <3>2. nodePointer + 1 \in 1..Len(store) /\ Len(store) \in Nat
      BY <1>2, <2>1
    <3> QED
      BY <3>1, <3>2, <1>2, <1>3, <2>1
  <2>2. CASE ~(nodePointer < Len(store))
    <3>1. store' = Append(store, e) /\ nodePointer = Len(store)
      BY <1>1, <1>2, <2>2 DEF ES!Stored
    <3> QED
      BY <3>1, <1>2, <1>3
  <2> QED
    BY <2>1, <2>2
<1>5. PICK l \in Seq(Joints \X Joints) : l = added.lists
  BY <1>2, ListsChange
<1>6. PICK l2 \in Seq(Joints \X Joints) : l2 = Append(l, <<x, y>>)
  <2>1. Append(l, <<x, y>>) \in Seq(Joints \X Joints)
    OBVIOUS
  <2> QED
    BY <2>1
<1>n. nodePointer \in Nat
  BY <1>2
<1>7. /\ added' \in [lists : Seq(Joints \X Joints), ready : BOOLEAN, vectors : Seq(Joints \X Joints)]
      /\ added'.lists = l2 /\ added'.ready = added.ready
  <2>1. added' = [added EXCEPT !.lists = l2]
    BY <1>1, <1>5, <1>6
  <2> QED
    BY <1>2, <2>1, ListsChange
<1>8. /\ Len(l) = nodePointer /\ Len(l2) = nodePointer + 1
      /\ \A k \in 1..nodePointer : l2[k] = l[k]
      /\ l2[nodePointer + 1] = <<x, y>>
  BY <1>2, <1>5, <1>6
<1>9. ASSUME NEW k \in 1..nodePointer + 1
      PROVE  store'[k].x = l2[k][1] /\ store'[k].y = l2[k][2]
  <2>1. CASE k = nodePointer + 1
    BY <2>1, <1>3, <1>4, <1>8
  <2>2. CASE k # nodePointer + 1
    <3>1. k \in 1..nodePointer
      BY <1>2, <2>2
    <3> QED
      BY <3>1, <1>2, <1>4, <1>5, <1>8
  <2> QED
    BY <2>1, <2>2
<1>10. nodeHead' \in [Joints -> Int] /\ nodeHead'[x] = nodePointer /\ \A z \in Joints : z # x => nodeHead'[z] = nodeHead[z]
  BY <1>1, <1>2
<1>11. ASSUME NEW h, NEW z, NEW m \in 0..nodePointer, IsLast(l, h, z, m)
       PROVE  IsLast(l2, h, z, m)
  <2>0. \A k \in 1..m : k \in 1..nodePointer
    BY <1>n
  <2>1. \A k \in 1..m : k \in 1..nodePointer /\ l2[k] = l[k]
    BY <2>0, <1>8
  <2>2. h \in 0..m - 1 => h + 1 \in 1..m
    BY <1>2
  <2> QED
    BY <1>11, <2>1, <2>2 DEF IsLast
<1>14. /\ added' \in [lists : Seq(Joints \X Joints), ready : BOOLEAN, vectors : Seq(Joints \X Joints)]
       /\ store' \in Seq(StoredEdges)
       /\ nodeHead' \in [Joints -> Int]
       /\ nodePointer' \in Nat /\ nodePointer' <= Len(store') /\ Len(added'.lists) = nodePointer'
       /\ \A k \in 1..nodePointer' : store'[k].x = added'.lists[k][1] /\ store'[k].y = added'.lists[k][2]
  BY <1>n, <1>1, <1>4, <1>7, <1>8, <1>9, <1>10
<1>12. CASE added.ready
  <2>1. /\ \A z \in Joints : IsLast(l, nodeHead[z], z, nodePointer)
        /\ \A k \in 1..nodePointer : IsLast(l, store[k].head, store[k].x, k - 1)
    BY <1>12, <1>5 DEF ListsInv
  <2>2. ASSUME NEW z \in Joints
        PROVE  IsLast(l2, nodeHead'[z], z, nodePointer + 1)
    <3>1. CASE z = x
      <4>1. l2[nodePointer + 1][1] = x /\ nodePointer \in 0..(nodePointer + 1) - 1
        BY <1>2, <1>8
      <4>2. \A k \in 1..nodePointer + 1 : k - 1 <= nodePointer
        BY <1>2
      <4> QED
        BY <3>1, <4>1, <4>2, <1>10 DEF IsLast
    <3>2. CASE z # x
      <4>1. nodePointer \in 0..nodePointer
        BY <1>2
      <4>2. IsLast(l2, nodeHead[z], z, nodePointer)
        BY <2>1, <1>11, <4>1
      <4>3. l2[nodePointer + 1][1] # z
        BY <1>8, <3>2
      <4>4. \A k \in 1..nodePointer + 1 : k \in 1..nodePointer \/ k = nodePointer + 1
        BY <1>2
      <4>5. \A h \in 0..nodePointer - 1 : h \in 0..(nodePointer + 1) - 1
        BY <1>2
      <4> QED
        BY <4>2, <4>3, <4>4, <4>5, <3>2, <1>10 DEF IsLast
    <3> QED
      BY <3>1, <3>2
  <2>3. ASSUME NEW k \in 1..nodePointer + 1
        PROVE  IsLast(l2, store'[k].head, store'[k].x, k - 1)
    <3>1. k - 1 \in 0..nodePointer
      BY <1>2
    <3>2. CASE k = nodePointer + 1
      <4>1. IsLast(l, nodeHead[x], x, k - 1)
        BY <2>1, <3>2, <1>2
      <4> QED
        BY <4>1, <3>1, <3>2, <1>3, <1>4, <1>11
    <3>3. CASE k # nodePointer + 1
      <4>1. k \in 1..nodePointer
        BY <1>2, <3>3
      <4> QED
        BY <4>1, <3>1, <2>1, <1>4, <1>11
    <3> QED
      BY <3>2, <3>3
  <2> QED
    BY <1>1, <1>14, <1>7, <1>12, <2>2, <2>3 DEF ListsInv
<1>13. CASE ~added.ready
  <2>1. /\ nodePointer = Len(store)
        /\ \A z \in Joints : nodeHead[z] \in Nat /\ (nodeHead[z] = 0 \/ nodeHead[z] < nodePointer)
        /\ \A k \in 1..nodePointer : store[k].head \in 0..nodePointer - 1
    BY <1>13 DEF ListsInv
  <2>2. ASSUME NEW z \in Joints
        PROVE  nodeHead'[z] \in Nat /\ (nodeHead'[z] = 0 \/ nodeHead'[z] < nodePointer + 1)
    <3>1. CASE z = x
      BY <3>1, <1>n, <1>10
    <3>2. CASE z # x
      <4>1. nodeHead'[z] = nodeHead[z] /\ nodeHead[z] \in Nat /\ (nodeHead[z] = 0 \/ nodeHead[z] < nodePointer)
        BY <3>2, <2>1, <1>10
      <4> QED
        BY <4>1, <1>n
    <3> QED
      BY <3>1, <3>2
  <2>3. ASSUME NEW k \in 1..nodePointer + 1
        PROVE  store'[k].head \in 0..(nodePointer + 1) - 1
    <3>1. CASE k = nodePointer + 1
      <4>1. store'[k].head = nodeHead[x] /\ nodeHead[x] \in Nat /\ (nodeHead[x] = 0 \/ nodeHead[x] < nodePointer)
        BY <3>1, <2>1, <1>3, <1>4
      <4> QED
        BY <4>1, <1>n
    <3>2. CASE k # nodePointer + 1
      <4>1. k \in 1..nodePointer
        BY <1>n, <3>2
      <4>2. store'[k].head = store[k].head /\ store[k].head \in 0..nodePointer - 1
        BY <4>1, <2>1, <1>4
      <4> QED
        BY <4>2, <1>n
    <3> QED
      BY <3>1, <3>2
  <2> QED
    <3>1. nodePointer' = Len(store')
      BY <1>1, <1>4, <2>1
    <3> QED
      BY <1>1, <1>14, <1>7, <1>13, <3>1, <2>2, <2>3 DEF ListsInv
<1> QED
  BY <1>12, <1>13

LEMMA ListsNext ==
  ASSUME ListsInv, ES!Lists
  PROVE  ListsInv'
BY ListsCleared, ListsGrow, JointsAreVertices DEF ES!Lists

LEMMA ListsStutter ==
  ASSUME ListsInv, UNCHANGED storeVars
  PROVE  ListsInv'
BY DEF storeVars, ListsInv

(* The walk along a list, while it stays inside T. *)
LEMMA WalkIs ==
  ASSUME NEW x, NEW T, nodeHead[x] \in T, \A i1 \in T : i1 # -1 => store[i1 + 1].head \in T
  PROVE  /\ ES!Walk(x)[0] = nodeHead[x]
         /\ \A k \in Nat : /\ ES!Walk(x)[k] \in T
                           /\ ES!Walk(x)[k + 1] = IF ES!Walk(x)[k] = -1 THEN -1 ELSE store[ES!Walk(x)[k] + 1].head
<1> DEFINE b == nodeHead[x]
           g == [j \in T |-> IF j = -1 THEN -1 ELSE store[j + 1].head]
           Is(f) == f = [k \in Nat |-> IF k = 0 THEN nodeHead[x]
                                       ELSE IF f[k - 1] = -1 THEN -1 ELSE store[f[k - 1] + 1].head]
<1>1. b \in T /\ \A t \in T : g[t] \in T /\ g[t] = IF t = -1 THEN -1 ELSE store[t + 1].head
  OBVIOUS
<1> HIDE DEF g
<1>2. PICK f : Repeats(f, b, g) /\ \A k \in Nat : f[k] \in T
  BY <1>1, RepeatsTyped
<1>3. Is(f)
  <2>1. ASSUME NEW k \in Nat
        PROVE  f[k] = IF k = 0 THEN nodeHead[x] ELSE IF f[k - 1] = -1 THEN -1 ELSE store[f[k - 1] + 1].head
    <3>1. f[k] = IF k = 0 THEN b ELSE g[f[k - 1]]
      BY <1>2 DEF Repeats
    <3>2. CASE k = 0
      BY <3>1, <3>2
    <3>3. CASE k # 0
      <4>1. f[k - 1] \in T
        BY <1>2, <3>3
      <4> QED
        BY <3>1, <3>3, <4>1, <1>1
    <3> QED
      BY <3>2, <3>3
  <2>2. f = [k \in Nat |-> f[k]]
    BY <1>2, Zenon DEF Repeats
  <2> QED
    BY <2>1, <2>2, Zenon
<1>4. PICK h : h = ES!Walk(x)
  OBVIOUS
<1>5. Is(h)
  <2>1. h = CHOOSE h1 : Is(h1)
    BY <1>4, Zenon DEF ES!Walk
  <2> QED
    BY <2>1, <1>3, Zenon
<1>6. \A k \in Nat : h[k] = IF k = 0 THEN nodeHead[x] ELSE IF h[k - 1] = -1 THEN -1 ELSE store[h[k - 1] + 1].head
  BY <1>5, Zenon
<1>7. h[0] = b
  BY <1>6
<1>8. \A k \in Nat \ {0} : h[k - 1] \in T => h[k] = g[h[k - 1]]
  BY <1>1, <1>6
<1>9. \A k \in Nat : h[k] \in T /\ h[k + 1] = g[h[k]]
  <2> HIDE DEF b
  <2> QED
    BY <1>1, <1>7, <1>8, RepeatsIn
<1> QED
  BY <1>1, <1>4, <1>7, <1>9
LEMMA UnreadyListsCycle ==
  ASSUME ListsInv, ~added.ready, store # <<>>, NEW x \in Joints, NEW k \in Nat
  PROVE  ES!Walk(x)[k] # -1
<1> DEFINE T == 0..nodePointer - 1
<1>0. store \in Seq(StoredEdges)
  BY DEF ListsInv
<1>1. /\ nodePointer = Len(store) /\ nodePointer \in Nat
      /\ nodeHead[x] \in Nat /\ (nodeHead[x] = 0 \/ nodeHead[x] < nodePointer)
      /\ \A j \in 1..nodePointer : store[j].head \in 0..nodePointer - 1
  BY DEF ListsInv
<1>2. nodePointer > 0
  <2>1. Len(store) \in Nat /\ Len(store) # 0
    BY <1>0
  <2> QED
    BY <1>1, <2>1
<1>3. nodeHead[x] \in T
  BY <1>1, <1>2
<1>4. \A i1 \in T : i1 # -1 => store[i1 + 1].head \in T
  <2>1. \A i1 \in T : i1 + 1 \in 1..nodePointer
    BY <1>1
  <2> QED
    BY <2>1, <1>1
<1>5. -1 \notin T
  OBVIOUS
<1> HIDE DEF T
<1>6. ES!Walk(x)[k] \in T
  BY <1>3, <1>4, WalkIs
<1> QED
  BY <1>5, <1>6

LEMMA ReadyListsAreEdges ==
  ASSUME ListsInv, added.ready, NEW x \in Joints
  PROVE  /\ ES!Walk(x)[nodePointer] = -1
         /\ \A k \in 1..nodePointer : ES!Walk(x)[k - 1] # -1 => ES!Walk(x)[k] < ES!Walk(x)[k - 1]
         /\ {ES!Walk(x)[k] : k \in 0..nodePointer} \ {-1}
              = {k - 1 : k \in {j \in DOMAIN added.lists : added.lists[j][1] = x}}
<1>1. PICK l \in Seq(Joints \X Joints) : l = added.lists
  BY ListsChange DEF ListsInv
<1> DEFINE I == {j \in 0..nodePointer - 1 : l[j + 1][1] = x}
           T == I \cup {-1}
<1>2. /\ nodePointer \in Nat /\ Len(l) = nodePointer
      /\ IsLast(l, nodeHead[x], x, nodePointer)
      /\ \A k \in 1..nodePointer : IsLast(l, store[k].head, store[k].x, k - 1) /\ store[k].x = l[k][1]
  BY <1>1 DEF ListsInv
<1>3. ASSUME NEW j \in I
      PROVE  IsLast(l, store[j + 1].head, x, j)
  <2>1. j + 1 \in 1..nodePointer /\ (j + 1) - 1 = j /\ l[j + 1][1] = x
    BY <1>2
  <2>2. IsLast(l, store[j + 1].head, store[j + 1].x, (j + 1) - 1) /\ store[j + 1].x = l[j + 1][1]
    BY <1>2, <2>1
  <2> QED
    BY <2>1, <2>2
<1>4. nodeHead[x] \in T
  BY <1>2 DEF IsLast
<1>5. ASSUME NEW j \in I
      PROVE  store[j + 1].head \in T /\ store[j + 1].head < j
  <2>1. j \in 0..nodePointer - 1
    OBVIOUS
  <2>2. store[j + 1].head = -1 \/ (store[j + 1].head \in 0..j - 1 /\ l[store[j + 1].head + 1][1] = x)
    BY <1>3 DEF IsLast
  <2>3. \A m \in 0..j - 1 : m \in 0..nodePointer - 1 /\ m < j
    BY <2>1, <1>2
  <2> QED
    BY <2>1, <2>2, <2>3
<1>6. \A j \in T : j # -1 => store[j + 1].head \in T
  BY <1>5
<1>7. PICK h : h = ES!Walk(x)
  OBVIOUS
<1>8. /\ h[0] = nodeHead[x]
      /\ \A k \in Nat : h[k] \in T /\ h[k + 1] = IF h[k] = -1 THEN -1 ELSE store[h[k] + 1].head
  <2> HIDE DEF T, I
  <2> QED
    BY <1>4, <1>6, <1>7, WalkIs
<1>9. \A k \in Nat : h[k] \in Int /\ h[k] >= -1 /\ h[k] < nodePointer /\ (h[k] # -1 => h[k] \in I)
  <2>1. nodePointer \in Nat
    BY <1>2
  <2>2. \A t \in T : t \in Int /\ t >= -1 /\ t < nodePointer /\ (t # -1 => t \in I)
    BY <2>1
  <2> HIDE DEF T, I
  <2> QED
    BY <2>2, <1>8
<1>10. \A k \in Nat : h[k] # -1 => h[k + 1] < h[k]
  <2> HIDE DEF I, T
  <2> QED
    BY <1>5, <1>8, <1>9
<1>11. \A k \in Nat : h[k] <= nodePointer - 1 - k \/ h[k] = -1
  <2> DEFINE B == {k \in Nat : ~(h[k] <= nodePointer - 1 - k \/ h[k] = -1)}
  <2> SUFFICES ASSUME B # {} PROVE FALSE
    OBVIOUS
  <2>1. PICK k \in B : \A j \in B : k <= j
    BY Smallest
  <2>2. k # 0
    BY <2>1, <1>9, <1>2
  <2>3. k - 1 \in Nat /\ k - 1 \notin B /\ (k - 1) + 1 = k
    BY <2>1, <2>2
  <2>4. h[k - 1] <= nodePointer - 1 - (k - 1) \/ h[k - 1] = -1
    BY <2>3
  <2>5. CASE h[k - 1] = -1
    BY <2>1, <2>3, <2>5, <1>8
  <2>6. CASE h[k - 1] # -1
    <3>1. h[k] < h[k - 1] /\ h[k] \in Int /\ h[k - 1] \in Int
      BY <2>1, <2>3, <2>6, <1>9, <1>10
    <3>2. h[k] <= nodePointer - 1 - k
      BY <3>1, <2>4, <2>6, <2>3, <1>2
    <3> QED
      BY <3>2, <2>1
  <2> QED
    BY <2>5, <2>6
<1>12. h[nodePointer] = -1
  <2>1. h[nodePointer] <= nodePointer - 1 - nodePointer \/ h[nodePointer] = -1
    BY <1>2, <1>11
  <2>2. h[nodePointer] \in Int /\ h[nodePointer] >= -1
    BY <1>2, <1>9
  <2> QED
    BY <2>1, <2>2, <1>2
<1>13. \A k \in 1..nodePointer : h[k - 1] # -1 => h[k] < h[k - 1]
  <2> TAKE k \in 1..nodePointer
  <2>1. k - 1 \in Nat /\ (k - 1) + 1 = k
    OBVIOUS
  <2> QED
    BY <2>1, <1>10
<1>14. ASSUME NEW v \in I
       PROVE  \E k \in 0..nodePointer : h[k] = v
  <2> DEFINE B == {k \in Nat : h[k] < v}
  <2>0. v \in 0..nodePointer - 1 /\ l[v + 1][1] = x
    OBVIOUS
  <2>1. nodePointer \in B
    BY <1>2, <1>12, <2>0
  <2>2. PICK k \in B : \A j \in B : k <= j
    BY <2>1, Smallest
  <2>3. k <= nodePointer /\ k \in Nat /\ h[k] < v
    BY <2>1, <2>2
  <2>4. k # 0
    <3>1. v + 1 \in 1..nodePointer /\ (v + 1) - 1 = v
      BY <2>0, <1>2
    <3>2. v <= nodeHead[x]
      BY <3>1, <2>0, <1>2 DEF IsLast
    <3>3. v <= h[0]
      BY <3>2, <1>8
    <3>4. v \in Int
      BY <2>0
    <3>5. h[0] \in Int
      BY <1>9
    <3> QED
      BY ONLY <3>3, <3>4, <3>5, <2>3
  <2>5. k - 1 \in Nat /\ k - 1 \notin B /\ (k - 1) + 1 = k /\ k - 1 \in 0..nodePointer
    BY <2>2, <2>3, <2>4, <1>2
  <2>6. h[k - 1] >= v
    BY <2>5, <2>0, <1>9
  <2>7. CASE h[k - 1] > v
    <3>0. h[k - 1] # -1
      <4>1. v \in Nat /\ h[k - 1] > v
        BY <2>0, <2>7
      <4> QED
        BY ONLY <4>1
    <3>1. h[k - 1] \in I /\ h[k] = store[h[k - 1] + 1].head
      <4> HIDE DEF I, T, B
      <4> QED
        BY <2>5, <3>0, <1>8, <1>9
    <3>2. IsLast(l, h[k], x, h[k - 1])
      BY <3>1, <1>3
    <3>3. v + 1 \in 1..h[k - 1] /\ (v + 1) - 1 = v
      BY <2>0, <2>7, <3>1
    <3>4. v <= h[k]
      BY <3>2, <3>3, <2>0 DEF IsLast
    <3> QED
      BY <3>4, <2>0, <2>3, <1>9
  <2> QED
    BY <2>0, <2>5, <2>6, <2>7, <1>9
<1>15. {h[k] : k \in 0..nodePointer} \ {-1} = I
  <2>1. \A k \in 0..nodePointer : k \in Nat
    OBVIOUS
  <2>2. -1 \notin I
    OBVIOUS
  <2> HIDE DEF I
  <2> QED
    BY <2>1, <2>2, <1>9, <1>14
<1>16. I = {k - 1 : k \in {j \in DOMAIN l : l[j][1] = x}}
  <2>1. DOMAIN l = 1..nodePointer
    BY <1>2
  <2>2. ASSUME NEW j \in I
        PROVE  \E k \in DOMAIN l : l[k][1] = x /\ j = k - 1
    <3>1. j + 1 \in 1..nodePointer /\ (j + 1) - 1 = j /\ l[j + 1][1] = x
      BY <1>2
    <3> QED
      BY <3>1, <2>1
  <2>3. ASSUME NEW k \in DOMAIN l, l[k][1] = x
        PROVE  k - 1 \in I
    <3>0. nodePointer \in Nat /\ k \in 1..nodePointer
      BY <1>2, <2>1
    <3>1. k - 1 \in 0..nodePointer - 1 /\ (k - 1) + 1 = k
      BY ONLY <3>0
    <3> QED
      BY <3>1, <2>3
  <2> HIDE DEF I
  <2> QED
    BY <2>2, <2>3
<1> HIDE DEF I, T
<1>17. {h[k] : k \in 0..nodePointer} \ {-1} = {k - 1 : k \in {j \in DOMAIN l : l[j][1] = x}}
  BY <1>15, <1>16, Zenon
<1> QED
  BY <1>1, <1>7, <1>12, <1>13, <1>17, Zenon

LEMMA ListsImply ==
  ASSUME ListsInv
  PROVE  ES!ListsAreEdges
<1>1. PICK l \in Seq(Joints \X Joints) : l = added.lists
  BY ListsChange DEF ListsInv
<1>2. Len(added.lists) = nodePointer /\ nodePointer \in Nat
  BY DEF ListsInv
<1>3. CASE added.ready
  <2>1. ASSUME NEW k \in DOMAIN added.lists
        PROVE  <<store[k].x, store[k].y>> = added.lists[k]
    <3>1. k \in 1..nodePointer /\ l[k] \in Joints \X Joints
      BY <1>1, <1>2
    <3>2. store[k].x = l[k][1] /\ store[k].y = l[k][2]
      BY <3>1, <1>1 DEF ListsInv
    <3>3. l[k] = <<l[k][1], l[k][2]>>
      BY <3>1
    <3> QED
      BY <3>2, <3>3, <1>1
  <2> QED
    BY <1>2, <1>3, <2>1, ReadyListsAreEdges, JointsAreVertices DEF ES!ListsAreEdges
<1>4. CASE ~added.ready
  <2>1. store # <<>> => \A x \in Joints : \A k \in 0..Len(store) : ES!Walk(x)[k] # -1
    <3> SUFFICES ASSUME store # <<>>, NEW x \in Joints, NEW k \in 0..Len(store) PROVE ES!Walk(x)[k] # -1
      OBVIOUS
    <3>1. k \in Nat
      OBVIOUS
    <3> QED
      BY <3>1, <1>4, UnreadyListsCycle
  <2> QED
    BY <1>4, <2>1, JointsAreVertices DEF ES!ListsAreEdges
<1> QED
  BY <1>3, <1>4

-----------------------------------------------------------------------------
(* The longest increasing subsequence.                                     *)

Rising(f, S) == \A j, k \in S : j < k => f[j] < f[k]
EndsAt(S, x) == x \in S /\ \A y \in S : y <= x

Places(t, N) == t \in [0..N - 1 -> 0..N - 1]

(* The tails t of the l best subsequences of the first m elements of f. *)
Ordered(f, t, l) == \A j, k \in 0..l - 1 : j < k => f[t[j]] < f[t[k]]
Attained(f, t, l, m) ==
  \A k \in 0..l - 1 : /\ t[k] \in 0..m - 1
                      /\ \E S \in SUBSET (0..m - 1) : Rising(f, S) /\ EndsAt(S, t[k]) /\ Cardinality(S) = k + 1
Unbeaten(f, t, l, m) ==
  \A S \in SUBSET (0..m - 1) : \A x \in 0..m - 1 :
    Rising(f, S) /\ EndsAt(S, x) => Cardinality(S) <= l /\ f[t[Cardinality(S) - 1]] <= f[x]

(* What there is to say of putting the element m at place q of the tails. *)
Fits(f, t, l, m, q) ==
  /\ q \in 0..l
  /\ q < l => f[m] <= f[t[q]]
  /\ q > 0 => f[t[q - 1]] < f[m]

LEMMA OrderedGrows ==
  ASSUME NEW N \in Nat, NEW f \in [0..N - 1 -> Int], NEW t, Places(t, N),
         NEW m \in 1..N - 1, NEW l \in 1..m, NEW q, Fits(f, t, l, m, q), Ordered(f, t, l),
         NEW r, r = IF q < l THEN l ELSE l + 1, NEW u, u = [t EXCEPT ![q] = m]
  PROVE  Ordered(f, u, r)
<1>0. q \in 0..l /\ q \in 0..N - 1 /\ m \in 0..N - 1 /\ u[q] = m /\ l \in 1..N - 1 /\ r \in Nat
      /\ \A k \in 0..N - 1 : k # q => u[k] = t[k]
  <2>1. q \in 0..l
    BY DEF Fits
  <2>2. q \in 0..N - 1 /\ m \in 0..N - 1 /\ l \in 1..N - 1 /\ r \in Nat
    BY <2>1
  <2>3. DOMAIN t = 0..N - 1
    BY DEF Places
  <2>4. u[q] = m /\ \A k \in 0..N - 1 : k # q => u[k] = t[k]
    BY <2>2, <2>3
  <2> QED
    BY <2>1, <2>2, <2>4
<1> SUFFICES ASSUME NEW j \in 0..r - 1, NEW k \in 0..r - 1, j < k
             PROVE  f[u[j]] < f[u[k]]
  BY DEF Ordered
<1>1. \A y \in 0..N - 1 : f[t[y]] \in Int /\ f[m] \in Int
  BY <1>0 DEF Places
<1>2. j \in 0..N - 1 /\ k \in 0..N - 1 /\ (j # q => j \in 0..l - 1) /\ (k # q => k \in 0..l - 1)
  BY <1>0
<1>3. CASE k = q
  <2>1. q - 1 \in 0..l - 1 /\ q > 0 /\ j \in 0..q - 1 /\ q - 1 \in 0..N - 1 /\ u[j] = t[j] /\ u[k] = m
    BY <1>0, <1>2, <1>3
  <2>2. f[t[q - 1]] < f[m]
    BY <2>1 DEF Fits
  <2>3. j = q - 1 \/ f[t[j]] < f[t[q - 1]]
    <3>1. j \in 0..l - 1 /\ (j = q - 1 \/ j < q - 1)
      BY <1>2, <2>1
    <3> QED
      BY <3>1, <2>1 DEF Ordered
  <2>4. f[t[j]] \in Int /\ f[t[q - 1]] \in Int /\ f[m] \in Int
    BY <1>1, <1>2, <2>1
  <2>5. f[t[j]] < f[m]
    BY ONLY <2>2, <2>3, <2>4
  <2> QED
    BY <2>1, <2>5
<1>4. CASE j = q
  <2>1. k # q /\ k \in 0..l - 1 /\ q < l /\ u[k] = t[k] /\ u[j] = m /\ q \in 0..l - 1
    BY <1>0, <1>2, <1>4
  <2>2. f[m] <= f[t[q]] /\ f[t[q]] < f[t[k]]
    BY <2>1, <1>4 DEF Fits, Ordered
  <2>3. f[m] \in Int /\ f[t[q]] \in Int /\ f[t[k]] \in Int
    BY <1>0, <1>1, <1>2
  <2>4. f[m] < f[t[k]]
    BY ONLY <2>2, <2>3
  <2> QED
    BY <2>1, <2>4
<1>5. CASE j # q /\ k # q
  BY <1>0, <1>2, <1>5 DEF Ordered
<1> QED
  BY <1>3, <1>4, <1>5

LEMMA OneMore ==
  ASSUME NEW m \in Nat, NEW S \in SUBSET (0..m - 1)
  PROVE  /\ IsFiniteSet(S) /\ Cardinality(S) \in Nat
         /\ S \cup {m} \in SUBSET (0..m) /\ Cardinality(S \cup {m}) = Cardinality(S) + 1
<1>1. IsFiniteSet(0..m - 1) /\ m \notin S
  BY FS_Interval
<1>2. IsFiniteSet(S)
  BY <1>1, FS_Subset
<1>3. S \cup {m} \in SUBSET (0..m)
  OBVIOUS
<1> QED
  BY <1>1, <1>2, <1>3, FS_AddElement, FS_CardinalityType

LEMMA AttainedGrows ==
  ASSUME NEW N \in Nat, NEW f \in [0..N - 1 -> Int], NEW t, Places(t, N),
         NEW m \in 1..N - 1, NEW l \in 1..m, NEW q, Fits(f, t, l, m, q), Attained(f, t, l, m),
         NEW r, r = IF q < l THEN l ELSE l + 1, NEW u, u = [t EXCEPT ![q] = m]
  PROVE  Attained(f, u, r, m + 1)
<1>0. q \in 0..l /\ q \in 0..N - 1 /\ m \in 0..N - 1 /\ u[q] = m /\ l \in 1..N - 1 /\ r \in Nat
      /\ \A k \in 0..N - 1 : k # q => u[k] = t[k]
  <2>1. q \in 0..l
    BY DEF Fits
  <2>2. q \in 0..N - 1 /\ m \in 0..N - 1 /\ l \in 1..N - 1 /\ r \in Nat
    BY <2>1
  <2>3. DOMAIN t = 0..N - 1
    BY DEF Places
  <2>4. u[q] = m /\ \A k \in 0..N - 1 : k # q => u[k] = t[k]
    BY <2>2, <2>3
  <2> QED
    BY <2>1, <2>2, <2>4
<1> SUFFICES ASSUME NEW k \in 0..r - 1
             PROVE  /\ u[k] \in 0..m
                    /\ \E S \in SUBSET (0..m) : Rising(f, S) /\ EndsAt(S, u[k]) /\ Cardinality(S) = k + 1
  <2>1. (m + 1) - 1 = m
    OBVIOUS
  <2> QED
    BY <2>1 DEF Attained
<1>1. CASE k # q
  <2>1. k \in 0..l - 1 /\ k \in 0..N - 1 /\ u[k] = t[k]
    BY <1>0, <1>1
  <2>2. PICK S \in SUBSET (0..m - 1) : Rising(f, S) /\ EndsAt(S, t[k]) /\ Cardinality(S) = k + 1
    BY <2>1 DEF Attained
  <2>3. t[k] \in 0..m - 1
    BY <2>1 DEF Attained
  <2>4. S \in SUBSET (0..m) /\ t[k] \in 0..m
    BY <2>3
  <2> QED
    BY <2>1, <2>2, <2>4
<1>2. CASE k = q /\ q = 0
  <2>1. {m} \in SUBSET (0..m) /\ Rising(f, {m}) /\ EndsAt({m}, m)
    BY DEF Rising, EndsAt
  <2>2. Cardinality({m}) = 1
    BY FS_Singleton
  <2> QED
    BY <1>0, <1>2, <2>1, <2>2
<1>3. CASE k = q /\ q # 0
  <2>1. q - 1 \in 0..l - 1 /\ q > 0 /\ (q - 1) + 1 = q /\ q - 1 \in 0..N - 1 /\ u[k] = m /\ k = q
    BY <1>0, <1>3
  <2>2. PICK S \in SUBSET (0..m - 1) : Rising(f, S) /\ EndsAt(S, t[q - 1]) /\ Cardinality(S) = (q - 1) + 1
    BY <2>1 DEF Attained
  <2>3. f[t[q - 1]] < f[m]
    BY <2>1 DEF Fits
  <2>4. \A y \in S : y < m /\ y \in 0..N - 1 /\ f[y] \in Int
    BY <1>0
  <2>5. t[q - 1] \in S /\ f[t[q - 1]] \in Int /\ f[m] \in Int
    BY <2>2, <2>4, <1>0 DEF EndsAt
  <2>6. \A y \in S : f[y] < f[m]
    <3> TAKE y \in S
    <3>1. y = t[q - 1] \/ y < t[q - 1]
      <4>0. \A z \in S : z <= t[q - 1]
        BY <2>2 DEF EndsAt
      <4>1. y \in Int
        BY <2>4
      <4>2. t[q - 1] \in Int
        <5>1. PICK z \in S : z = t[q - 1]
          BY <2>5
        <5> QED
          BY <5>1, <2>4
      <4>3. y <= t[q - 1]
        BY <4>0
      <4> QED
        BY ONLY <4>1, <4>2, <4>3
    <3>2. f[y] = f[t[q - 1]] \/ f[y] < f[t[q - 1]]
      BY <3>1, <2>2, <2>5 DEF Rising
    <3> QED
      BY <3>2, <2>3, <2>4, <2>5
  <2>7. Rising(f, S \cup {m})
    <3> SUFFICES ASSUME NEW y \in S \cup {m}, NEW z \in S \cup {m}, y < z PROVE f[y] < f[z]
      BY DEF Rising
    <3>1. CASE z = m
      BY <3>1, <2>6
    <3>2. CASE z # m
      <4>1. z \in S /\ z < m
        BY <3>2, <2>4
      <4>2. y \in S
        BY <4>1, <2>4
      <4> QED
        BY <4>1, <4>2, <2>2 DEF Rising
    <3> QED
      BY <3>1, <3>2
  <2>8. EndsAt(S \cup {m}, m)
    BY <2>4 DEF EndsAt
  <2>9. S \cup {m} \in SUBSET (0..m) /\ Cardinality(S \cup {m}) = k + 1
    <3>1. m \in Nat
      BY <1>0
    <3>2. S \cup {m} \in SUBSET (0..m) /\ Cardinality(S \cup {m}) = Cardinality(S) + 1
      BY <3>1, OneMore
    <3> QED
      BY <2>1, <2>2, <3>2
  <2> QED
    BY <2>1, <2>7, <2>8, <2>9
<1> QED
  BY <1>1, <1>2, <1>3

LEMMA UnbeatenGrows ==
  ASSUME NEW N \in Nat, NEW f \in [0..N - 1 -> Int], NEW t, Places(t, N),
         NEW m \in 1..N - 1, NEW l \in 1..m, NEW q, Fits(f, t, l, m, q), Unbeaten(f, t, l, m), Ordered(f, t, l),
         NEW r, r = IF q < l THEN l ELSE l + 1, NEW u, u = [t EXCEPT ![q] = m]
  PROVE  Unbeaten(f, u, r, m + 1)
<1>0. q \in 0..l /\ q \in 0..N - 1 /\ m \in 0..N - 1 /\ u[q] = m /\ l \in 1..N - 1 /\ r \in Nat
      /\ r >= l /\ (q = l => r = l + 1) /\ \A k \in 0..N - 1 : k # q => u[k] = t[k]
  <2>1. q \in 0..l
    BY DEF Fits
  <2>2. q \in 0..N - 1 /\ m \in 0..N - 1 /\ l \in 1..N - 1 /\ r \in Nat /\ r >= l /\ (q = l => r = l + 1)
    BY <2>1
  <2>3. DOMAIN t = 0..N - 1
    BY DEF Places
  <2>4. u[q] = m /\ \A k \in 0..N - 1 : k # q => u[k] = t[k]
    BY <2>2, <2>3
  <2> QED
    BY <2>1, <2>2, <2>4
<1>m. m \in Nat
  BY <1>0
<1>1. \A y \in 0..N - 1 : f[t[y]] \in Int /\ f[y] \in Int
  BY DEF Places
<1> SUFFICES ASSUME NEW S \in SUBSET (0..m), NEW x \in 0..m, Rising(f, S), EndsAt(S, x)
             PROVE  Cardinality(S) <= r /\ f[u[Cardinality(S) - 1]] <= f[x]
  <2>1. (m + 1) - 1 = m
    OBVIOUS
  <2> QED
    BY <2>1 DEF Unbeaten
<1>2. CASE x # m
  <2>1. x \in 0..m - 1 /\ S \in SUBSET (0..m - 1)
    BY <1>2 DEF EndsAt
  <2>2. PICK c \in Nat : c = Cardinality(S)
    BY <2>1, <1>m, OneMore
  <2>3. c <= l /\ f[t[c - 1]] <= f[x]
    BY <2>1, <2>2 DEF Unbeaten
  <2>4. c > 0
    <3>0. S # {}
      BY DEF EndsAt
    <3>1. IsFiniteSet(S) /\ S # {}
      BY <2>1, <1>m, <3>0, OneMore
    <3> QED
      BY <3>1, <2>2, FS_EmptySet
  <2>5. c - 1 \in 0..l - 1 /\ c - 1 \in 0..N - 1 /\ x \in 0..N - 1
    BY <2>3, <2>4, <2>1, <1>0
  <2>6. CASE c - 1 = q
    <3>1. f[m] <= f[t[q]]
      BY <2>5, <2>6 DEF Fits
    <3>2. f[m] \in Int /\ f[t[q]] \in Int /\ f[x] \in Int
      BY <2>5, <1>0, <1>1
    <3>3. f[t[q]] <= f[x]
      BY <2>3, <2>6
    <3>4. f[m] <= f[x]
      BY ONLY <3>1, <3>2, <3>3
    <3>5. c <= r
      BY <2>3, <1>0
    <3> QED
      BY <2>2, <2>6, <3>4, <3>5, <1>0
  <2>7. CASE c - 1 # q
    BY <2>2, <2>3, <2>5, <2>7, <1>0
  <2> QED
    BY <2>6, <2>7
<1>3. CASE x = m
  <2> DEFINE Q == S \ {m}
  <2>1. m \in S /\ Q \in SUBSET (0..m - 1) /\ S = Q \cup {m}
    BY <1>3 DEF EndsAt
  <2> HIDE DEF Q
  <2>2. PICK c \in Nat : c = Cardinality(Q)
    BY <2>1, <1>m, OneMore
  <2>3. Cardinality(S) = c + 1 /\ IsFiniteSet(Q)
    BY <2>1, <2>2, <1>m, OneMore
  <2>4. CASE Q = {}
    <3>1. c = 0
      BY <2>2, <2>4, FS_EmptySet
    <3>2. CASE q = 0
      BY <3>1, <3>2, <2>3, <1>0, <1>1, <1>3
    <3>3. CASE q # 0
      <4>1. q - 1 \in 0..l - 1 /\ q > 0 /\ q - 1 \in 0..N - 1 /\ 0 \in 0..l - 1 /\ 0 \in 0..N - 1 /\ u[0] = t[0]
        BY <3>3, <1>0
      <4>2. f[t[q - 1]] < f[m]
        BY <4>1 DEF Fits
      <4>3. q - 1 = 0 \/ f[t[0]] < f[t[q - 1]]
        <5>1. q - 1 = 0 \/ 0 < q - 1
          BY <1>0, <4>1
        <5> QED
          BY <5>1, <4>1 DEF Ordered
      <4>4. f[t[0]] \in Int /\ f[t[q - 1]] \in Int /\ f[m] \in Int
        BY <4>1, <1>0, <1>1
      <4>5. f[t[0]] <= f[m]
        BY <4>2, <4>3, <4>4
      <4> QED
        BY <4>1, <4>5, <3>1, <2>3, <1>0, <1>3
    <3> QED
      BY <3>2, <3>3
  <2>5. CASE Q # {}
    <3>1. PICK y \in Q : \A z \in Q : z <= y
      <4>1. m \in Int /\ Q \in SUBSET Int /\ \A z \in Q : z <= m
        BY <2>1
      <4>2. Highest(Q) \in Q /\ \A z \in Q : Highest(Q) >= z
        BY <4>1, <2>5, HighestIs
      <4>3. \A z \in Q : z \in Int
        BY <4>1
      <4> QED
        BY <4>2, <4>3
    <3>2. Rising(f, Q) /\ EndsAt(Q, y) /\ y \in 0..m - 1
      BY <3>1, <2>1 DEF Rising, EndsAt
    <3>3. c <= l /\ f[t[c - 1]] <= f[y]
      BY <3>2, <2>1, <2>2 DEF Unbeaten
    <3>4. f[y] < f[m]
      BY <3>2, <2>1 DEF Rising
    <3>5. c > 0
      BY <2>2, <2>3, <2>5, FS_EmptySet
    <3>6. c - 1 \in 0..l - 1 /\ c - 1 \in 0..N - 1 /\ y \in 0..N - 1 /\ c \in 0..N - 1
      BY <3>2, <3>3, <3>5, <1>0
    <3>7. f[t[c - 1]] < f[m]
      <4>1. f[t[c - 1]] \in Int /\ f[y] \in Int /\ f[m] \in Int
        BY <3>6, <1>0, <1>1
      <4> QED
        BY <4>1, <3>3, <3>4
    <3>8. c <= q
      <4> SUFFICES ASSUME q < c PROVE FALSE
        BY <1>0
      <4>1. q \in 0..l - 1 /\ f[m] <= f[t[q]]
        BY <1>0, <3>6 DEF Fits
      <4>2. q = c - 1 \/ f[t[q]] < f[t[c - 1]]
        <5>1. q = c - 1 \/ q < c - 1
          BY <1>0
        <5> QED
          BY <5>1, <4>1, <3>6 DEF Ordered
      <4>3. f[t[c - 1]] \in Int /\ f[t[q]] \in Int /\ f[m] \in Int
        BY <3>6, <1>0, <1>1
      <4> QED
        BY ONLY <4>1, <4>2, <4>3, <3>7
    <3>9. c + 1 <= r
      BY <3>3, <3>8, <1>0
    <3>10. CASE c = q
      BY <3>9, <3>10, <2>3, <1>0, <1>1, <1>3
    <3>11. CASE c # q
      <4>1. q - 1 \in 0..l - 1 /\ q > 0 /\ q - 1 \in 0..N - 1 /\ c \in 0..l - 1 /\ c <= q - 1 /\ u[c] = t[c]
        BY <3>6, <3>8, <3>11, <1>0
      <4>2. f[t[q - 1]] < f[m]
        BY <4>1 DEF Fits
      <4>3. q - 1 = c \/ f[t[c]] < f[t[q - 1]]
        <5>1. q - 1 = c \/ c < q - 1
          BY <4>1
        <5> QED
          BY <5>1, <4>1 DEF Ordered
      <4>4. f[t[c]] \in Int /\ f[t[q - 1]] \in Int /\ f[m] \in Int
        BY <4>1, <3>6, <1>0, <1>1
      <4>5. f[t[c]] <= f[m]
        BY <4>2, <4>3, <4>4
      <4> QED
        BY <4>1, <4>5, <3>9, <2>3, <1>0, <1>3
    <3> QED
      BY <3>10, <3>11
  <2> QED
    BY <2>4, <2>5
<1> QED
  BY <1>2, <1>3


-----------------------------------------------------------------------------
(* A recursion that only goes on, and ends since h falls. *)
GoesOn(f, W, e, b, g) == f = [w \in W |-> IF e[w] THEN b[w] ELSE f[g[w]]]

LEMMA GoingOnEnds ==
  ASSUME NEW W, NEW m \in Nat, NEW h \in [W -> 0..m], NEW e, NEW b, NEW g,
         \A w \in W : ~e[w] => g[w] \in W /\ h[g[w]] < h[w]
  PROVE  \E f : GoesOn(f, W, e, b, g)
<1> DEFINE U(k) == {w \in W : h[w] <= k}
           T == {k \in Nat : ~ \E f : GoesOn(f, U(k), e, b, g)}
<1>0. \A w \in W : h[w] \in Nat /\ h[w] <= m
  OBVIOUS
<1>1. T = {}
  <2> SUFFICES ASSUME T # {} PROVE FALSE
    OBVIOUS
  <2>1. PICK k \in T : \A j \in T : k <= j
    BY Smallest
  <2>2. CASE k = 0
    <3>1. \A w \in U(0) : e[w]
      BY <1>0
    <3>2. GoesOn([w \in U(0) |-> b[w]], U(0), e, b, g)
      BY <3>1 DEF GoesOn
    <3> QED
      BY <2>1, <2>2, <3>2
  <2>3. CASE k # 0
    <3>1. k - 1 \in Nat /\ k - 1 \notin T
      <4>1. k \in Nat /\ \A j \in T : k <= j
        BY <2>1
      <4> HIDE DEF T
      <4> QED
        BY <4>1, <2>3
    <3>2. PICK f : GoesOn(f, U(k - 1), e, b, g)
      BY <3>1
    <3> DEFINE r == [w \in U(k) |-> IF e[w] THEN b[w] ELSE f[g[w]]]
    <3>3. ASSUME NEW w \in U(k), ~e[w]
          PROVE  r[g[w]] = f[g[w]]
      <4>1. w \in W /\ g[w] \in W /\ h[g[w]] < h[w] /\ h[w] <= k
        BY <3>3
      <4>2. g[w] \in U(k - 1) /\ g[w] \in U(k)
        BY <4>1, <1>0, <3>1
      <4> QED
        BY <4>2, <3>2 DEF GoesOn
    <3>4. r = [w \in U(k) |-> IF e[w] THEN b[w] ELSE r[g[w]]]
      BY <3>3
    <3> QED
      BY <2>1, <3>4 DEF GoesOn
  <2> QED
    BY <2>2, <2>3
<1>2. U(m) = W
  BY <1>0
<1> QED
  BY <1>1, <1>2

(* The half of the interval w that is searched next, given where g holds. *)
Half(w) == w[1] + (w[2] - w[1]) \div 2

LEMMA HalfIs ==
  ASSUME NEW K \in Nat, NEW w \in (-1..K) \X (0..K), w[2] - w[1] > 1
  PROVE  /\ Half(w) \in 0..K /\ w[1] < Half(w) /\ Half(w) < w[2]
         /\ w[1] \in Int /\ w[2] \in Int
<1>1. PICK j \in -1..K, k \in 0..K : w = <<j, k>>
  OBVIOUS
<1>2. k - j > 1 /\ Half(w) = j + (k - j) \div 2 /\ w[1] = j /\ w[2] = k
  BY <1>1 DEF Half
<1>3. PICK x \in Int : x = (k - j) \div 2
  OBVIOUS
<1>4. x > 0 /\ x < k - j
  BY <1>2, <1>3
<1> QED
  BY <1>2, <1>3, <1>4

LEMMA CeilIs ==
  ASSUME NEW N \in Nat, LI!n = N, len \in 1..N, NEW x \in Int,
         \A k \in 0..len - 1 : arr[tailIndices[k]] \in Int,
         x <= arr[tailIndices[len - 1]]
  PROVE  /\ LI!GetCeilIndex(x) \in 0..len - 1
         /\ x <= arr[tailIndices[LI!GetCeilIndex(x)]]
         /\ LI!GetCeilIndex(x) > 0 => arr[tailIndices[LI!GetCeilIndex(x) - 1]] < x
<1> DEFINE W == (-1..N) \X (0..N)
           Is(f) == f = [w \in W |->
                           IF w[2] - w[1] > 1
                             THEN IF arr[tailIndices[Half(w)]] >= x THEN f[<<w[1], Half(w)>>] ELSE f[<<Half(w), w[2]>>]
                             ELSE w[2]]
           e == [w \in W |-> ~(w[2] - w[1] > 1)]
           b == [w \in W |-> w[2]]
           g == [w \in W |-> IF arr[tailIndices[Half(w)]] >= x THEN <<w[1], Half(w)>> ELSE <<Half(w), w[2]>>]
           h == [w \in W |-> IF w[2] - w[1] > 1 THEN w[2] - w[1] ELSE 0]
<1>1. \E f : Is(f)
  <2>1. N + 1 \in Nat /\ h \in [W -> 0..N + 1]
    OBVIOUS
  <2>2. ASSUME NEW w \in W, ~e[w]
        PROVE  g[w] \in W /\ h[g[w]] < h[w]
    <3>1. w[2] - w[1] > 1
      BY <2>2
    <3>2. PICK m \in Int : m = Half(w)
      BY <3>1, HalfIs
    <3>3. m \in 0..N /\ w[1] < m /\ m < w[2] /\ w[1] \in -1..N /\ w[2] \in 0..N
      BY <3>1, <3>2, HalfIs
    <3>4. g[w] = <<w[1], m>> \/ g[w] = <<m, w[2]>>
      BY <3>2
    <3>5. m \in -1..N
      BY <3>3
    <3>6. ASSUME NEW v, v = <<w[1], m>> \/ v = <<m, w[2]>>
          PROVE  v \in W /\ v[2] - v[1] < w[2] - w[1] /\ v[1] \in Int /\ v[2] \in Int
      BY <3>3, <3>5, <3>6
    <3>7. g[w] \in W /\ g[w][2] - g[w][1] < w[2] - w[1] /\ g[w][1] \in Int /\ g[w][2] \in Int
      <4> HIDE DEF g, W
      <4> QED
        BY <3>4, <3>6
    <3>8. PICK v \in W : v = g[w]
      BY <3>7
    <3>9. h[v] < h[w]
      BY <3>1, <3>3, <3>7, <3>8
    <3> QED
      BY <3>8, <3>9
  <2>3. PICK f : GoesOn(f, W, e, b, g)
    <3> HIDE DEF W, e, b, g, h
    <3> QED
      BY <2>1, <2>2, GoingOnEnds
  <2>4. f = [w \in W |-> IF e[w] THEN b[w] ELSE f[g[w]]]
    BY <2>3, Zenon DEF GoesOn
  <2>5. ASSUME NEW w \in W
        PROVE  f[w] = IF w[2] - w[1] > 1
                        THEN IF arr[tailIndices[Half(w)]] >= x THEN f[<<w[1], Half(w)>>] ELSE f[<<Half(w), w[2]>>]
                        ELSE w[2]
    <3>1. f[w] = IF e[w] THEN b[w] ELSE f[g[w]]
      BY <2>4
    <3> QED
      BY <3>1
  <2>6. f = [w \in W |-> f[w]]
    BY <2>4, Zenon
  <2>7. Is(f)
    BY <2>5, <2>6, Zenon
  <2> QED
    BY <2>7
<1>2. PICK f : f = CHOOSE r : Is(r)
  OBVIOUS
<1>3. Is(f)
  <2> HIDE DEF Is
  <2> QED
    BY <1>1, <1>2
<1>4. LI!GetCeilIndex(x) = f[<<-1, len - 1>>]
  BY <1>2, Zenon DEF LI!GetCeilIndex, Half
<1>5. \A w \in W : f[w] = IF w[2] - w[1] > 1
                            THEN IF arr[tailIndices[Half(w)]] >= x THEN f[<<w[1], Half(w)>>] ELSE f[<<Half(w), w[2]>>]
                            ELSE w[2]
  BY <1>3, Zenon
<1> DEFINE V == {w \in W : /\ w[1] < w[2] /\ w[2] <= len - 1
                           /\ w[1] = -1 \/ arr[tailIndices[w[1]]] < x
                           /\ x <= arr[tailIndices[w[2]]]}
           Fine(r) == /\ r \in 0..len - 1 /\ x <= arr[tailIndices[r]]
                      /\ r > 0 => arr[tailIndices[r - 1]] < x
           B == {k \in Nat : \E w \in V : w[2] - w[1] = k /\ ~Fine(f[w])}
<1>6. \A w \in V : Fine(f[w])
  <2> SUFFICES ASSUME B # {} PROVE FALSE
    <3>1. \A w \in V : w[2] - w[1] \in Nat
      OBVIOUS
    <3> HIDE DEF V, Fine
    <3> QED
      BY <3>1
  <2>1. PICK k \in B : \A j \in B : k <= j
    BY Smallest
  <2>2. PICK w \in V : w[2] - w[1] = k /\ ~Fine(f[w])
    BY <2>1
  <2>3. /\ w \in W /\ w[1] \in Int /\ w[2] \in 0..N /\ w[1] >= -1 /\ w[1] < w[2] /\ w[2] <= len - 1
        /\ w[1] = -1 \/ arr[tailIndices[w[1]]] < x
        /\ x <= arr[tailIndices[w[2]]]
    BY <2>2
  <2>4. CASE ~(w[2] - w[1] > 1)
    <3>1. f[w] = w[2]
      BY <2>3, <2>4, <1>5
    <3>2. w[1] = w[2] - 1 /\ w[2] \in 0..len - 1
      BY <2>3, <2>4
    <3>3. Fine(w[2])
      BY <2>3, <3>2
    <3> QED
      BY <2>2, <3>1, <3>3
  <2>5. CASE w[2] - w[1] > 1
    <3>1. PICK m \in Int : m = Half(w)
      BY <2>3, <2>5, HalfIs
    <3>2. m \in 0..N /\ w[1] < m /\ m < w[2] /\ m \in 0..len - 1 /\ m \in -1..N
      BY <2>3, <2>5, <3>1, HalfIs
    <3>3. ASSUME NEW v \in V, v[2] - v[1] < w[2] - w[1], f[w] = f[v]
          PROVE  FALSE
      <4>1. v[2] - v[1] \in Nat /\ v[2] - v[1] < k
        BY <2>2, <3>3
      <4>2. ~Fine(f[v])
        <5> HIDE DEF Fine
        <5> QED
          BY <2>2, <3>3
      <4>3. v[2] - v[1] \in B
        <5> HIDE DEF Fine, V
        <5> QED
          BY <4>1, <4>2
      <4>4. k <= v[2] - v[1] /\ k \in Nat
        <5> HIDE DEF B
        <5> QED
          BY <2>1, <4>3 DEF B
      <4> QED
        BY <4>1, <4>4
    <3>4. arr[tailIndices[m]] \in Int
      BY <3>2
    <3>5. CASE arr[tailIndices[m]] >= x
      <4>1. f[w] = f[<<w[1], m>>]
        BY <2>3, <2>5, <3>1, <3>5, <1>5
      <4>2. PICK v : v = <<w[1], m>>
        OBVIOUS
      <4>3. v \in W /\ v[1] = w[1] /\ v[2] = m
        BY <4>2, <2>3, <3>2
      <4>4. v \in V
        BY <4>3, <2>3, <3>2, <3>4, <3>5
      <4>5. v[2] - v[1] < w[2] - w[1]
        BY <4>3, <2>3, <3>2
      <4> HIDE DEF V
      <4> QED
        BY <4>1, <4>2, <4>4, <4>5, <3>3
    <3>6. CASE ~(arr[tailIndices[m]] >= x)
      <4>1. f[w] = f[<<m, w[2]>>]
        BY <2>3, <2>5, <3>1, <3>6, <1>5
      <4>2. PICK v : v = <<m, w[2]>>
        OBVIOUS
      <4>3. v \in W /\ v[1] = m /\ v[2] = w[2]
        BY <4>2, <2>3, <3>2
      <4>4. v \in V
        BY <4>3, <2>3, <3>2, <3>4, <3>6
      <4>5. v[2] - v[1] < w[2] - w[1]
        BY <4>3, <2>3, <3>2
      <4> HIDE DEF V
      <4> QED
        BY <4>1, <4>2, <4>4, <4>5, <3>3
    <3> QED
      BY <3>5, <3>6
  <2> QED
    BY <2>4, <2>5
<1>7. <<-1, len - 1>> \in V
  OBVIOUS
<1>8. Fine(f[<<-1, len - 1>>])
  <2> HIDE DEF Fine, V
  <2> QED
    BY <1>6, <1>7
<1> QED
  BY <1>4, <1>8

-----------------------------------------------------------------------------
(* Where each element was put when it was met, and what came before it. *)
Depths(f, t, v, l, m, g) ==
  /\ \A k \in 0..l - 1 : g[t[k]] = k
  /\ \A k \in 0..m - 1 : IF g[k] = 0 THEN v[k] = -1
                         ELSE v[k] \in 0..m - 1 /\ g[v[k]] = g[k] - 1 /\ f[v[k]] < f[k]

Deep(N, f, t, v, l, m) == \E g \in [0..N - 1 -> Nat] : Depths(f, t, v, l, m, g)

(* How far the chain that is printed has come, with the depths g. *)
Printed(f, v, l, m, c, w, g) ==
  /\ Len(c) \in 1..l
  /\ \A k \in 1..Len(c) - 1 : c[k] > c[k + 1]
  /\ \E k \in 0..m - 1 : c[Len(c)] = f[k] /\ w = v[k] /\ g[k] = l - Len(c)

LISTypes(N) ==
  /\ N \in Nat \ {0} /\ arr \in [0..N - 1 -> Int] /\ LI!n = N
  /\ Places(tailIndices, N)
  /\ prevIndices \in [0..N - 1 -> -1..N - 1]
  /\ next \in 1..N /\ len \in 1..next
  /\ astray \in BOOLEAN
  /\ chain \in Seq(Int) /\ at \in -1..N - 1

LISInv ==
  /\ arr \in Arrays
  /\ \E N \in Nat :
       /\ LISTypes(N)
       /\ Ordered(arr, tailIndices, len)
       /\ Attained(arr, tailIndices, len, next)
       /\ Unbeaten(arr, tailIndices, len, next)
       /\ \A k \in next..N - 1 : prevIndices[k] = -1
       /\ chain # <<>> => next = N
       /\ ~astray => \E g \in [0..N - 1 -> Nat] :
            /\ Depths(arr, tailIndices, prevIndices, len, next, g)
            /\ chain # <<>> => Printed(arr, prevIndices, len, next, chain, at, g)

LEMMA ArraysAre ==
  ASSUME arr \in Arrays
  PROVE  \E N \in Nat \ {0} : arr \in [0..N - 1 -> Int] /\ LI!n = N
<1>1. PICK N \in Nat \ {0} : arr \in [0..N - 1 -> Int]
  <2>1. IsFiniteSet(DOMAIN arr) /\ DOMAIN arr # {} /\ arr \in [0..Cardinality(DOMAIN arr) - 1 -> Int]
    BY ArraysOfNumbers
  <2>2. Cardinality(DOMAIN arr) \in Nat \ {0}
    BY <2>1, FS_CardinalityType, FS_EmptySet
  <2> QED
    BY <2>1, <2>2
<1>2. Cardinality(0..N - 1) = N
  <2>1. 0 \in Int /\ N - 1 \in Int /\ 0 <= N - 1
    BY <1>1
  <2> QED
    BY <2>1, FS_Interval
<1>3. DOMAIN arr = 0..N - 1
  BY <1>1
<1>4. LI!n = Cardinality(DOMAIN arr)
  BY Zenon DEF LI!n, LI!Cardinality, Cardinality
<1> QED
  BY <1>1, <1>2, <1>3, <1>4

LEMMA LISInit ==
  ASSUME LI!Init
  PROVE  LISInv
<1>0. arr \in Arrays
  BY DEF LI!Init
<1>1. PICK N \in Nat \ {0} : arr \in [0..N - 1 -> Int] /\ LI!n = N
  BY <1>0, ArraysAre
<1>2. DOMAIN arr = 0..N - 1
  BY <1>1
<1>3. /\ tailIndices = [k \in 0..N - 1 |-> 0] /\ prevIndices = [k \in 0..N - 1 |-> -1]
      /\ len = 1 /\ next = 1 /\ at = -1 /\ chain = <<>> /\ astray = FALSE
  BY <1>2 DEF LI!Init
<1>4. 0 \in 0..N - 1 /\ -1 \in -1..N - 1
  BY <1>1
<1>5. LISTypes(N)
  <2>1. Places(tailIndices, N)
    BY <1>3, <1>4 DEF Places
  <2>2. prevIndices \in [0..N - 1 -> -1..N - 1]
    BY <1>3, <1>4
  <2>3. chain \in Seq(Int)
    BY <1>3
  <2>4. next \in 1..N /\ len \in 1..next
    BY <1>3, <1>1
  <2> QED
    BY <2>1, <2>2, <2>3, <2>4, <1>1, <1>3, <1>4 DEF LISTypes
<1>6. tailIndices[0] = 0 /\ prevIndices[0] = -1
  BY <1>3, <1>4
<1>7. Ordered(arr, tailIndices, len)
  BY <1>3 DEF Ordered
<1>8. Attained(arr, tailIndices, len, next)
  <2>1. {0} \in SUBSET (0..next - 1) /\ Rising(arr, {0}) /\ EndsAt({0}, 0)
    BY <1>3 DEF Rising, EndsAt
  <2>2. Cardinality({0}) = 0 + 1
    BY FS_Singleton
  <2>3. \A k \in 0..len - 1 : k = 0
    BY <1>3
  <2>4. 0 \in 0..next - 1
    BY <1>3
  <2> QED
    BY <2>1, <2>2, <2>3, <2>4, <1>6 DEF Attained
<1>9. Unbeaten(arr, tailIndices, len, next)
  <2> SUFFICES ASSUME NEW S \in SUBSET (0..next - 1), NEW x \in 0..next - 1, EndsAt(S, x)
               PROVE  Cardinality(S) <= len /\ arr[tailIndices[Cardinality(S) - 1]] <= arr[x]
    BY DEF Unbeaten
  <2>1. S = {0} /\ x = 0
    BY <1>3 DEF EndsAt
  <2>2. Cardinality(S) = 1 /\ 1 - 1 = 0
    <3>1. Cardinality({0}) = 1
      BY FS_Singleton
    <3> QED
      BY <2>1, <3>1
  <2>3. arr[0] \in Int
    BY <1>1, <1>4
  <2> QED
    BY <2>1, <2>2, <2>3, <1>3, <1>6
<1>10. \A k \in next..N - 1 : prevIndices[k] = -1
  <2>1. \A k \in next..N - 1 : k \in 0..N - 1
    BY <1>3
  <2> QED
    BY <2>1, <1>3
<1>11. \E g \in [0..N - 1 -> Nat] : Depths(arr, tailIndices, prevIndices, len, next, g)
  <2> DEFINE g == [k \in 0..N - 1 |-> 0]
  <2>1. g \in [0..N - 1 -> Nat] /\ g[0] = 0
    BY <1>4
  <2>2. \A k \in 0..len - 1 : k = 0
    BY <1>3
  <2>3. \A k \in 0..next - 1 : k = 0
    BY <1>3
  <2> HIDE DEF g
  <2>4. Depths(arr, tailIndices, prevIndices, len, next, g)
    BY <2>1, <2>2, <2>3, <1>6 DEF Depths
  <2> QED
    BY <2>1, <2>4
<1> QED
  BY <1>0, <1>1, <1>3, <1>5, <1>7, <1>8, <1>9, <1>10, <1>11 DEF LISInv

-----------------------------------------------------------------------------
(* An element is put where it fits, and what ends the tail before comes    *)
(* before it: unless it is put first with what is known of no element.     *)
LEMMA DepthsGrow ==
  ASSUME NEW N \in Nat, NEW f \in [0..N - 1 -> Int], NEW t, Places(t, N),
         NEW v, DOMAIN v = 0..N - 1,
         NEW m \in 1..N - 1, NEW l \in 1..m, NEW q, Fits(f, t, l, m, q), Attained(f, t, l, m),
         NEW r, r = IF q < l THEN l ELSE l + 1, NEW u, u = [t EXCEPT ![q] = m],
         NEW z, z = [v EXCEPT ![m] = IF q = 0 THEN -1 ELSE t[q - 1]],
         NEW g \in [0..N - 1 -> Nat], Depths(f, t, v, l, m, g)
  PROVE  Deep(N, f, u, z, r, m + 1)
<1>1. q \in 0..l /\ q \in 0..N - 1 /\ m \in 0..N - 1 /\ r \in Nat /\ l \in 1..N - 1
  BY DEF Fits
<1>2. u[q] = m /\ \A k \in 0..N - 1 : k # q => u[k] = t[k]
  <2>1. DOMAIN t = 0..N - 1
    BY DEF Places
  <2> QED
    BY <1>1, <2>1
<1>3. z[m] = (IF q = 0 THEN -1 ELSE t[q - 1]) /\ \A k \in 0..m - 1 : z[k] = v[k]
  BY <1>1
<1> DEFINE h == [g EXCEPT ![m] = q]
<1>4. h \in [0..N - 1 -> Nat] /\ h[m] = q /\ \A k \in 0..m - 1 : h[k] = g[k]
  <2>1. q \in Nat
    BY <1>1
  <2>2. h \in [0..N - 1 -> Nat] /\ h[m] = q
    BY <2>1, <1>1
  <2>3. \A k \in 0..m - 1 : k \in 0..N - 1 /\ k # m
    BY <1>1
  <2> QED
    BY <2>2, <2>3
<1> HIDE DEF h
<1>5. ASSUME NEW k \in 0..r - 1
      PROVE  h[u[k]] = k
  <2>1. CASE k = q
    BY <2>1, <1>2, <1>4
  <2>2. CASE k # q
    <3>1. k \in 0..l - 1 /\ k \in 0..N - 1
      <4>1. k < r /\ k \in Nat /\ (r = l \/ (r = l + 1 /\ q = l))
        BY <1>1
      <4> QED
        BY <4>1, <2>2, <1>1
    <3>2. u[k] = t[k] /\ t[k] \in 0..m - 1 /\ g[t[k]] = k
      BY <3>1, <2>2, <1>2 DEF Attained, Depths
    <3> QED
      BY <3>2, <1>4
  <2> QED
    BY <2>1, <2>2
<1>6. ASSUME NEW k \in 0..m
      PROVE  IF h[k] = 0 THEN z[k] = -1
             ELSE z[k] \in 0..m /\ h[z[k]] = h[k] - 1 /\ f[z[k]] < f[k]
  <2>1. CASE k = m /\ q = 0
    BY <2>1, <1>3, <1>4
  <2>2. CASE k = m /\ q # 0
    <3>1. q - 1 \in 0..l - 1 /\ q > 0
      BY <1>1, <2>2
    <3>2. z[m] = t[q - 1] /\ f[t[q - 1]] < f[m]
      BY <3>1, <2>2, <1>3 DEF Fits
    <3>3. g[t[q - 1]] = q - 1
      BY <3>1 DEF Depths
    <3>4. PICK y \in 0..m - 1 : y = t[q - 1]
      BY <3>1 DEF Attained
    <3>5. y \in 0..m /\ h[y] = g[y]
      BY <1>4
    <3> QED
      BY <2>2, <3>2, <3>3, <3>4, <3>5, <1>4
  <2>3. CASE k # m
    <3>1. k \in 0..m - 1
      BY <2>3
    <3>2. h[k] = g[k] /\ z[k] = v[k]
      BY <3>1, <1>3, <1>4
    <3>3. CASE g[k] = 0
      BY <3>1, <3>2, <3>3 DEF Depths
    <3>4. CASE g[k] # 0
      <4>1. v[k] \in 0..m - 1 /\ g[v[k]] = g[k] - 1 /\ f[v[k]] < f[k]
        BY <3>1, <3>4 DEF Depths
      <4>2. v[k] \in 0..m /\ h[v[k]] = g[v[k]]
        <5>1. PICK y \in 0..m - 1 : y = v[k]
          BY <4>1
        <5>2. y \in 0..m /\ h[y] = g[y]
          BY <1>4
        <5> QED
          BY <5>1, <5>2
      <4> QED
        BY <3>2, <3>4, <4>1, <4>2
    <3> QED
      BY <3>3, <3>4
  <2> QED
    BY <2>1, <2>2, <2>3
<1>7. (m + 1) - 1 = m
  BY <1>1
<1>8. Depths(f, u, z, r, m + 1, h)
  BY <1>5, <1>6, <1>7 DEF Depths
<1> QED
  BY <1>4, <1>8 DEF Deep

(* What the three branches of the loop do. *)
Puts(q) ==
  /\ Fits(arr, tailIndices, len, next, q)
  /\ tailIndices' = [tailIndices EXCEPT ![q] = next]
  /\ len' = IF q < len THEN len ELSE len + 1
  /\ next' = next + 1
  /\ (astray' = astray /\ prevIndices' = [prevIndices EXCEPT ![next] = IF q = 0 THEN -1 ELSE tailIndices[q - 1]])
       \/ (astray' /\ \E k \in -1..LI!n - 1 : prevIndices' = [prevIndices EXCEPT ![next] = k])
  /\ arr' = arr /\ at' = at /\ chain' = chain

LEMMA LISPuts ==
  ASSUME LISInv, next < LI!n, NEW q, Puts(q)
  PROVE  LISInv'
<1>1. PICK N \in Nat :
        /\ LISTypes(N)
        /\ Ordered(arr, tailIndices, len)
        /\ Attained(arr, tailIndices, len, next)
        /\ Unbeaten(arr, tailIndices, len, next)
        /\ \A k \in next..N - 1 : prevIndices[k] = -1
        /\ chain # <<>> => next = N
        /\ ~astray => \E g \in [0..N - 1 -> Nat] :
             /\ Depths(arr, tailIndices, prevIndices, len, next, g)
             /\ chain # <<>> => Printed(arr, prevIndices, len, next, chain, at, g)
  BY DEF LISInv
<1>2. PICK f : f = arr
  OBVIOUS
<1>3. PICK t : t = tailIndices
  OBVIOUS
<1>4. PICK v : v = prevIndices
  OBVIOUS
<1>5. PICK m : m = next
  OBVIOUS
<1>6. PICK l : l = len
  OBVIOUS
<1>7. PICK u : u = tailIndices'
  OBVIOUS
<1>8. PICK r : r = len'
  OBVIOUS
<1>9. PICK z : z = prevIndices'
  OBVIOUS
<1>10. /\ f \in [0..N - 1 -> Int] /\ Places(t, N) /\ v \in [0..N - 1 -> -1..N - 1]
       /\ m \in 1..N /\ l \in 1..m /\ N = LI!n /\ N \in Nat \ {0}
       /\ chain \in Seq(Int) /\ at \in -1..N - 1 /\ astray \in BOOLEAN
  BY <1>1, <1>2, <1>3, <1>4, <1>5, <1>6 DEF LISTypes
<1>11. m \in 1..N - 1 /\ m \in 0..N - 1 /\ m < N
  BY <1>5, <1>10
<1>12. Fits(f, t, l, m, q) /\ u = [t EXCEPT ![q] = m] /\ r = IF q < l THEN l ELSE l + 1
  BY <1>2, <1>3, <1>5, <1>6, <1>7, <1>8 DEF Puts
<1>13. Ordered(f, t, l) /\ Attained(f, t, l, m) /\ Unbeaten(f, t, l, m)
  BY <1>1, <1>2, <1>3, <1>5, <1>6
<1>14. Ordered(f, u, r) /\ Attained(f, u, r, m + 1) /\ Unbeaten(f, u, r, m + 1)
  BY <1>10, <1>11, <1>12, <1>13, OrderedGrows, AttainedGrows, UnbeatenGrows
<1>15. q \in 0..l /\ q \in 0..N - 1 /\ r \in 1..m + 1
  <2>1. q \in 0..l
    BY <1>12 DEF Fits
  <2> QED
    BY <2>1, <1>10, <1>11, <1>12
<1>16. Places(u, N)
  BY <1>10, <1>11, <1>12, <1>15 DEF Places
<1>17. chain = <<>>
  BY <1>1, <1>5, <1>11
<1>18. \E k \in -1..N - 1 : z = [v EXCEPT ![m] = k]
  <2>1. CASE q = 0 /\ z = [v EXCEPT ![m] = -1]
    <3>1. -1 \in -1..N - 1
      BY <1>10
    <3> QED
      BY <2>1, <3>1
  <2>2. CASE q # 0 /\ z = [v EXCEPT ![m] = t[q - 1]]
    <3>1. q - 1 \in 0..N - 1
      BY <2>2, <1>15
    <3>2. t[q - 1] \in 0..N - 1
      BY <3>1, <1>10 DEF Places
    <3>3. t[q - 1] \in -1..N - 1
      BY <3>2
    <3> QED
      BY <2>2, <3>3
  <2>3. CASE \E k \in -1..LI!n - 1 : z = [v EXCEPT ![m] = k]
    BY <2>3, <1>10
  <2> QED
    BY <2>1, <2>2, <2>3, <1>3, <1>4, <1>5, <1>9 DEF Puts
<1>19. z \in [0..N - 1 -> -1..N - 1] /\ \A k \in m + 1..N - 1 : z[k] = v[k]
  <2>1. PICK k \in -1..N - 1 : z = [v EXCEPT ![m] = k]
    BY <1>18
  <2>2. \A j \in m + 1..N - 1 : j # m /\ j \in 0..N - 1
    BY <1>11
  <2> QED
    BY <2>1, <2>2, <1>10, <1>11
<1>20. \A k \in m + 1..N - 1 : z[k] = -1
  <2>1. \A k \in m + 1..N - 1 : k \in m..N - 1
    BY <1>11
  <2> QED
    BY <2>1, <1>19, <1>1, <1>4, <1>5
<1>21. arr' = f /\ tailIndices' = u /\ prevIndices' = z /\ len' = r /\ next' = m + 1 /\ chain' = <<>>
       /\ at' = at /\ astray' \in BOOLEAN /\ arr' = arr
  BY <1>2, <1>5, <1>7, <1>8, <1>9, <1>10, <1>17 DEF Puts
<1>22. ASSUME ~astray'
       PROVE  Deep(N, f, u, z, r, m + 1)
  <2>1. ~astray /\ z = [v EXCEPT ![m] = IF q = 0 THEN -1 ELSE t[q - 1]]
    BY <1>22, <1>3, <1>4, <1>5, <1>9 DEF Puts
  <2>2. PICK g \in [0..N - 1 -> Nat] : Depths(f, t, v, l, m, g)
    BY <2>1, <1>1, <1>2, <1>3, <1>4, <1>5, <1>6
  <2>3. DOMAIN v = 0..N - 1
    BY <1>10
  <2> QED
    BY <2>1, <2>2, <2>3, <1>10, <1>11, <1>12, <1>13, DepthsGrow
<1>23. LISTypes(N)'
  <2>1. LI!n' = N
    BY <1>21, <1>10 DEF LI!n
  <2>2. m + 1 \in 1..N
    BY <1>11
  <2>3. chain' \in Seq(Int)
    BY <1>21
  <2> QED
    BY <2>1, <2>2, <2>3, <1>10, <1>15, <1>16, <1>19, <1>21 DEF LISTypes
<1>24. arr' \in Arrays
  BY <1>21 DEF LISInv
<1> QED
  BY <1>1, <1>14, <1>20, <1>21, <1>22, <1>23, <1>24 DEF LISInv, Deep

LEMMA LISSmallest ==
  ASSUME LISInv, LI!Smallest
  PROVE  LISInv'
<1>1. PICK N \in Nat : LISTypes(N) /\ \A k \in next..N - 1 : prevIndices[k] = -1
  BY DEF LISInv
<1>2. next < LI!n /\ next \in 1..N - 1 /\ len \in 1..next /\ next \in 0..N - 1
  BY <1>1 DEF LISTypes, LI!Smallest
<1>3. arr[next] \in Int /\ arr[tailIndices[0]] \in Int
  <2>1. 0 \in 0..N - 1
    BY <1>2
  <2>2. PICK k \in 0..N - 1 : k = tailIndices[0]
    BY <1>1, <2>1 DEF LISTypes, Places
  <2> QED
    BY <2>2, <1>1, <1>2 DEF LISTypes
<1>4. Fits(arr, tailIndices, len, next, 0)
  BY <1>2, <1>3 DEF Fits, LI!Smallest
<1>5. prevIndices' = [prevIndices EXCEPT ![next] = -1]
  <2>1. prevIndices[next] = -1
    <3>1. next \in next..N - 1
      BY <1>2
    <3> QED
      BY <3>1, <1>1
  <2>2. prevIndices = [prevIndices EXCEPT ![next] = prevIndices[next]]
    <3>1. prevIndices = [k \in 0..N - 1 |-> prevIndices[k]]
      BY <1>1 DEF LISTypes
    <3> QED
      BY <3>1, Zenon
  <2> QED
    BY <2>1, <2>2 DEF LI!Smallest
<1>6. Puts(0)
  <2>1. 0 < len
    BY <1>2
  <2>2. /\ tailIndices' = [tailIndices EXCEPT ![0] = next] /\ len' = len /\ next' = next + 1
        /\ arr' = arr /\ at' = at /\ chain' = chain /\ astray' = astray
    BY DEF LI!Smallest
  <2> QED
    BY <2>1, <2>2, <1>4, <1>5, Zenon DEF Puts
<1> QED
  BY <1>2, <1>6, LISPuts

LEMMA LISExtend ==
  ASSUME LISInv, LI!Extend
  PROVE  LISInv'
<1>1. PICK N \in Nat : LISTypes(N)
  BY DEF LISInv
<1>2. next < LI!n /\ len \in 1..next /\ len \in Nat /\ len # 0 /\ ~(len < len)
  BY <1>1 DEF LISTypes, LI!Extend
<1>3. len \in 0..len
  BY <1>2
<1>4. Fits(arr, tailIndices, len, next, len)
  <2>1. arr[next] > arr[tailIndices[len - 1]]
    BY DEF LI!Extend
  <2>2. arr[next] \in Int /\ arr[tailIndices[len - 1]] \in Int
    <3>1. next \in 0..N - 1 /\ len - 1 \in 0..N - 1
      BY <1>1, <1>2 DEF LISTypes
    <3>2. PICK k \in 0..N - 1 : k = tailIndices[len - 1]
      BY <1>1, <3>1 DEF LISTypes, Places
    <3> QED
      BY <3>1, <3>2, <1>1 DEF LISTypes
  <2>3. arr[tailIndices[len - 1]] < arr[next]
    BY <2>1, <2>2
  <2> QED
    BY <2>3, <1>2, <1>3 DEF Fits
<1>5. Puts(len)
  BY <1>2, <1>4 DEF Puts, LI!Extend
<1> QED
  BY <1>2, <1>5, LISPuts

LEMMA LISReplace ==
  ASSUME LISInv, LI!Replace
  PROVE  LISInv'
<1>1. PICK N \in Nat : LISTypes(N)
  BY DEF LISInv
<1>2. /\ next < LI!n /\ LI!n = N /\ len \in 1..next /\ len \in 1..N /\ next \in 0..N - 1 /\ astray \in BOOLEAN
      /\ arr \in [0..N - 1 -> Int]
  BY <1>1 DEF LISTypes, LI!Replace
<1>3. ASSUME NEW k \in 0..len - 1
      PROVE  arr[tailIndices[k]] \in Int
  <2>1. k \in 0..N - 1
    BY <1>2
  <2>2. PICK y \in 0..N - 1 : y = tailIndices[k]
    BY <1>1, <2>1 DEF LISTypes, Places
  <2> QED
    BY <2>2, <1>2
<1>4. arr[next] \in Int
  BY <1>2
<1>5. arr[next] <= arr[tailIndices[len - 1]]
  BY DEF LI!Replace
<1>6. PICK q : q = LI!GetCeilIndex(arr[next])
  OBVIOUS
<1>7. q \in 0..len - 1 /\ arr[next] <= arr[tailIndices[q]] /\ (q > 0 => arr[tailIndices[q - 1]] < arr[next])
  BY <1>2, <1>3, <1>4, <1>5, <1>6, CeilIs
<1>8. Fits(arr, tailIndices, len, next, q) /\ q < len
  BY <1>2, <1>7 DEF Fits
<1>9. /\ \E k \in IF q = 0 THEN -1..LI!n - 1 ELSE {tailIndices[q - 1]} :
           prevIndices' = [prevIndices EXCEPT ![next] = k]
      /\ tailIndices' = [tailIndices EXCEPT ![q] = next]
      /\ astray' = (astray \/ q = 0)
      /\ next' = next + 1 /\ len' = len /\ arr' = arr /\ at' = at /\ chain' = chain
  BY <1>6, Zenon DEF LI!Replace
<1>10. CASE q = 0
  <2>1. astray' /\ \E k \in -1..LI!n - 1 : prevIndices' = [prevIndices EXCEPT ![next] = k]
    BY <1>9, <1>10
  <2> QED
    BY <2>1, <1>2, <1>8, <1>9, LISPuts DEF Puts
<1>11. CASE q # 0
  <2>1. astray' = astray /\ prevIndices' = [prevIndices EXCEPT ![next] = IF q = 0 THEN -1 ELSE tailIndices[q - 1]]
    BY <1>2, <1>9, <1>11
  <2> QED
    BY <2>1, <1>2, <1>8, <1>9, LISPuts DEF Puts
<1> QED
  BY <1>10, <1>11

LEMMA LISPrintLast ==
  ASSUME LISInv, LI!PrintLast
  PROVE  LISInv'
<1>1. PICK N \in Nat :
        /\ LISTypes(N)
        /\ Ordered(arr, tailIndices, len)
        /\ Attained(arr, tailIndices, len, next)
        /\ Unbeaten(arr, tailIndices, len, next)
        /\ \A k \in next..N - 1 : prevIndices[k] = -1
        /\ chain # <<>> => next = N
        /\ ~astray => \E g \in [0..N - 1 -> Nat] :
             /\ Depths(arr, tailIndices, prevIndices, len, next, g)
             /\ chain # <<>> => Printed(arr, prevIndices, len, next, chain, at, g)
  BY DEF LISInv
<1>2. /\ next >= LI!n /\ chain' = <<arr[tailIndices[len - 1]]>> /\ at' = prevIndices[tailIndices[len - 1]]
      /\ arr' = arr /\ tailIndices' = tailIndices /\ prevIndices' = prevIndices /\ len' = len
      /\ next' = next /\ astray' = astray
  BY DEF LI!PrintLast
<1>3. next = N /\ len \in 1..N /\ len - 1 \in 0..N - 1 /\ len - 1 \in 0..len - 1 /\ LI!n = N
  BY <1>1, <1>2 DEF LISTypes
<1>4. PICK k \in 0..N - 1 : k = tailIndices[len - 1]
  BY <1>1, <1>3 DEF LISTypes, Places
<1>5. arr[k] \in Int /\ prevIndices[k] \in -1..N - 1
  BY <1>1 DEF LISTypes
<1>6. PICK c \in Seq(Int) : c = <<arr[k]>> /\ Len(c) = 1 /\ c[1] = arr[k]
  <2>1. PICK y \in Int : y = arr[k]
    BY <1>5
  <2>2. <<y>> \in Seq(Int) /\ Len(<<y>>) = 1 /\ <<y>>[1] = y
    OBVIOUS
  <2> QED
    BY <2>1, <2>2
<1>7. chain' = c /\ at' = prevIndices[k]
  BY <1>2, <1>4, <1>6
<1>8. LISTypes(N)'
  BY <1>1, <1>2, <1>3, <1>5, <1>6, <1>7 DEF LISTypes, LI!n
<1>9. ASSUME ~astray
      PROVE  \E g \in [0..N - 1 -> Nat] :
               /\ Depths(arr, tailIndices, prevIndices, len, next, g)
               /\ Printed(arr, prevIndices, len, next, c, prevIndices[k], g)
  <2>1. PICK g \in [0..N - 1 -> Nat] : Depths(arr, tailIndices, prevIndices, len, next, g)
    BY <1>1, <1>9
  <2>2. g[k] = len - Len(c)
    BY <2>1, <1>3, <1>4, <1>6 DEF Depths
  <2>3. Len(c) \in 1..len /\ k \in 0..next - 1 /\ c[Len(c)] = arr[k]
    BY <1>3, <1>6
  <2>4. \A j \in 1..Len(c) - 1 : c[j] > c[j + 1]
    BY <1>6
  <2> QED
    BY <2>1, <2>2, <2>3, <2>4 DEF Printed
<1> QED
  BY <1>1, <1>2, <1>3, <1>7, <1>8, <1>9 DEF LISInv

LEMMA LISPrintNext ==
  ASSUME LISInv, LI!PrintNext
  PROVE  LISInv'
<1>1. PICK N \in Nat :
        /\ LISTypes(N)
        /\ Ordered(arr, tailIndices, len)
        /\ Attained(arr, tailIndices, len, next)
        /\ Unbeaten(arr, tailIndices, len, next)
        /\ \A k \in next..N - 1 : prevIndices[k] = -1
        /\ chain # <<>> => next = N
        /\ ~astray => \E g \in [0..N - 1 -> Nat] :
             /\ Depths(arr, tailIndices, prevIndices, len, next, g)
             /\ chain # <<>> => Printed(arr, prevIndices, len, next, chain, at, g)
  BY DEF LISInv
<1>2. /\ chain # <<>> /\ at >= 0 /\ chain' = Append(chain, arr[at]) /\ at' = prevIndices[at]
      /\ arr' = arr /\ tailIndices' = tailIndices /\ prevIndices' = prevIndices /\ len' = len
      /\ next' = next /\ astray' = astray
  BY DEF LI!PrintNext
<1>3. next = N /\ len \in 1..N /\ LI!n = N /\ at \in 0..N - 1
  BY <1>1, <1>2 DEF LISTypes
<1>4. PICK x \in 0..N - 1 : x = at
  BY <1>3
<1>5. arr[x] \in Int /\ prevIndices[x] \in -1..N - 1
  BY <1>1 DEF LISTypes
<1>6. PICK b \in Seq(Int) : b = chain
  BY <1>1 DEF LISTypes
<1>7. PICK c \in Seq(Int) : c = Append(b, arr[x])
  <2>1. PICK y \in Int : y = arr[x]
    BY <1>5
  <2>2. Append(b, y) \in Seq(Int)
    OBVIOUS
  <2> QED
    BY <2>1, <2>2
<1>8. /\ Len(b) \in Nat /\ Len(c) = Len(b) + 1 /\ c[Len(b) + 1] = arr[x]
      /\ \A j \in 1..Len(b) : c[j] = b[j]
  BY <1>5, <1>7
<1>9. chain' = c /\ at' = prevIndices[x] /\ c # <<>>
  BY <1>2, <1>4, <1>6, <1>7, <1>8
<1>10. LISTypes(N)'
  BY <1>1, <1>2, <1>3, <1>5, <1>9 DEF LISTypes, LI!n
<1>11. ASSUME ~astray
       PROVE  \E g \in [0..N - 1 -> Nat] :
                /\ Depths(arr, tailIndices, prevIndices, len, next, g)
                /\ Printed(arr, prevIndices, len, next, c, prevIndices[x], g)
  <2>1. PICK g \in [0..N - 1 -> Nat] :
          /\ Depths(arr, tailIndices, prevIndices, len, next, g)
          /\ Printed(arr, prevIndices, len, next, b, x, g)
    BY <1>1, <1>2, <1>4, <1>6, <1>11
  <2>2. PICK k \in 0..next - 1 : b[Len(b)] = arr[k] /\ x = prevIndices[k] /\ g[k] = len - Len(b)
    BY <2>1 DEF Printed
  <2>3. k \in 0..N - 1 /\ x # -1
    BY <1>3
  <2>4. x \in 0..next - 1 /\ g[x] = g[k] - 1 /\ arr[x] < arr[k]
    BY <2>1, <2>2, <2>3 DEF Depths
  <2>5. Len(b) \in 1..len /\ \A j \in 1..Len(b) - 1 : b[j] > b[j + 1]
    BY <2>1 DEF Printed
  <2>6. g[k] \in Nat /\ g[x] \in Nat
    BY <2>3
  <2>7. g[x] = len - Len(c) /\ Len(c) \in 1..len
    BY <2>2, <2>4, <2>5, <2>6, <1>3, <1>8
  <2>8. ASSUME NEW j \in 1..Len(c) - 1
        PROVE  c[j] > c[j + 1]
    <3>1. j \in 1..Len(b)
      BY <1>8
    <3>2. CASE j = Len(b)
      <4>1. c[j] = arr[k] /\ c[j + 1] = arr[x]
        BY <3>1, <3>2, <1>8, <2>2
      <4>2. arr[k] \in Int /\ arr[x] \in Int
        BY <2>3, <1>1 DEF LISTypes
      <4> QED
        BY <4>1, <4>2, <2>4
    <3>3. CASE j # Len(b)
      <4>0. Len(b) \in Nat
        BY <1>8
      <4>1. j \in 1..Len(b) - 1 /\ j + 1 \in 1..Len(b)
        BY ONLY <3>1, <3>3, <4>0
      <4> QED
        BY <4>1, <3>1, <2>5, <1>8
    <3> QED
      BY <3>2, <3>3
  <2>9. c[Len(c)] = arr[x]
    BY <1>8
  <2> QED
    BY <2>1, <2>4, <2>7, <2>8, <2>9 DEF Printed
<1> QED
  BY <1>1, <1>2, <1>3, <1>9, <1>10, <1>11 DEF LISInv

LEMMA LISStutters ==
  ASSUME LISInv, UNCHANGED lisVars
  PROVE  LISInv'
BY DEF LISInv, lisVars, LISTypes, LI!n

LEMMA LISNext ==
  ASSUME LISInv, LI!Next
  PROVE  LISInv'
BY LISSmallest, LISExtend, LISReplace, LISPrintLast, LISPrintNext DEF LI!Next

-----------------------------------------------------------------------------
LEMMA LISImplies ==
  ASSUME LISInv
  PROVE  LI!BestTails /\ LI!PrintsLongest
<1>1. PICK N \in Nat :
        /\ LISTypes(N)
        /\ Ordered(arr, tailIndices, len)
        /\ Attained(arr, tailIndices, len, next)
        /\ Unbeaten(arr, tailIndices, len, next)
        /\ ~astray => \E g \in [0..N - 1 -> Nat] :
             /\ Depths(arr, tailIndices, prevIndices, len, next, g)
             /\ chain # <<>> => Printed(arr, prevIndices, len, next, chain, at, g)
  BY DEF LISInv
<1>2. /\ next \in 1..N /\ len \in 1..next /\ arr \in [0..N - 1 -> Int]
  BY <1>1 DEF LISTypes
<1>3. \A S : LI!Cardinality(S) = Cardinality(S)
  BY Zenon DEF LI!Cardinality, Cardinality
<1> DEFINE sub == LI!Increasing(next) \ {{}}
<1>4. ASSUME NEW S \in sub
      PROVE  /\ S \in SUBSET (0..next - 1) /\ Rising(arr, S) /\ S # {}
             /\ Cardinality(S) \in Nat /\ Cardinality(S) > 0
             /\ LI!Max(S) \in 0..next - 1 /\ EndsAt(S, LI!Max(S))
             /\ arr[LI!Max(S)] \in Int
  <2>1. S \in SUBSET (0..next - 1) /\ Rising(arr, S) /\ S # {}
    BY DEF LI!Increasing, Rising
  <2>2. IsFiniteSet(S) /\ Cardinality(S) \in Nat
    <3>1. next \in Nat
      BY <1>2
    <3> QED
      BY <2>1, <3>1, OneMore
  <2>3. Cardinality(S) > 0
    BY <2>1, <2>2, FS_EmptySet
  <2>4. next \in Int /\ S \in SUBSET Int /\ \A y \in S : y <= next
    BY <2>1, <1>2
  <2>5. Highest(S) \in S /\ \A y \in S : Highest(S) >= y
    BY <2>1, <2>4, HighestIs
  <2>6. LI!Max(S) = Highest(S)
    BY Zenon DEF LI!Max, Highest
  <2>7. PICK x \in S : x = LI!Max(S) /\ \A y \in S : x >= y
    BY <2>5, <2>6
  <2>8. \A y \in S : y <= x
    BY <2>4, <2>7
  <2>9. x \in 0..next - 1 /\ EndsAt(S, x)
    BY <2>1, <2>8 DEF EndsAt
  <2>10. x \in 0..N - 1
    BY <2>9, <1>2
  <2>11. arr[x] \in Int
    BY <2>10, <1>2
  <2> QED
    BY <2>1, <2>2, <2>3, <2>7, <2>9, <2>11
<1>5. ASSUME NEW k \in 0..len - 1
      PROVE  \E S \in sub : Cardinality(S) = k + 1 /\ LI!Max(S) = tailIndices[k]
  <2>1. PICK S \in SUBSET (0..next - 1) : Rising(arr, S) /\ EndsAt(S, tailIndices[k]) /\ Cardinality(S) = k + 1
    BY <1>1 DEF Attained
  <2>2. S \in sub
    BY <2>1 DEF LI!Increasing, Rising, EndsAt
  <2>3. EndsAt(S, LI!Max(S)) /\ LI!Max(S) \in Int
    <3> HIDE DEF sub
    <3> QED
      BY <1>4, <2>2
  <2>4. PICK x \in S : x = tailIndices[k] /\ \A y \in S : y <= x
    BY <2>1 DEF EndsAt
  <2>5. PICK z \in S : z = LI!Max(S) /\ \A y \in S : y <= z
    BY <2>3 DEF EndsAt
  <2>6. x = z
    <3>1. x \in Int /\ z \in Int /\ x <= z /\ z <= x
      BY <2>1, <2>4, <2>5
    <3> QED
      BY <3>1
  <2> QED
    BY <2>1, <2>2, <2>4, <2>5, <2>6
<1>6. ASSUME NEW S \in sub
      PROVE  Cardinality(S) <= len /\ arr[tailIndices[Cardinality(S) - 1]] <= arr[LI!Max(S)]
  <2> HIDE DEF sub
  <2> QED
    BY <1>4, <1>1 DEF Unbeaten
<1>7. ASSUME NEW k \in 0..len - 1
      PROVE  arr[tailIndices[k]] \in Int
  <2>1. PICK S \in sub : LI!Max(S) = tailIndices[k]
    BY <1>5
  <2> QED
    BY <2>1, <1>4
<1> HIDE DEF sub
<1>8. len = LI!Max({Cardinality(S) : S \in sub})
  <2> DEFINE U == {Cardinality(S) : S \in sub}
  <2>1. len \in U
    <3>1. len - 1 \in 0..len - 1 /\ (len - 1) + 1 = len
      BY <1>2
    <3>2. PICK S \in sub : Cardinality(S) = (len - 1) + 1
      BY <3>1, <1>5
    <3> QED
      BY <3>1, <3>2
  <2>2. \A y \in U : y <= len /\ y \in Nat
    BY <1>4, <1>6
  <2>3. len \in Nat
    BY <1>2
  <2> HIDE DEF U
  <2>4. \A x \in U : (\A y \in U : x >= y) => x = len
    BY <2>1, <2>2, <2>3
  <2>5. \A y \in U : len >= y
    BY <2>2, <2>3
  <2>6. LI!Max(U) = len
    <3>1. LI!Max(U) \in U /\ \A y \in U : LI!Max(U) >= y
      BY <2>1, <2>5, Zenon DEF LI!Max
    <3> QED
      BY <3>1, <2>4
  <2> QED
    BY <2>6 DEF U
<1>9. ASSUME NEW k \in 0..len - 1
      PROVE  arr[tailIndices[k]] = LI!Min({arr[LI!Max(S)] : S \in {T \in sub : Cardinality(T) = k + 1}})
  <2> DEFINE U == {arr[LI!Max(S)] : S \in {T \in sub : Cardinality(T) = k + 1}}
  <2>1. arr[tailIndices[k]] \in U
    <3>1. PICK S \in sub : Cardinality(S) = k + 1 /\ LI!Max(S) = tailIndices[k]
      BY <1>5
    <3> QED
      BY <3>1
  <2>2. ASSUME NEW y \in U
        PROVE  arr[tailIndices[k]] <= y /\ y \in Int
    <3>1. PICK S \in sub : Cardinality(S) = k + 1 /\ y = arr[LI!Max(S)]
      OBVIOUS
    <3>2. Cardinality(S) - 1 = k
      BY <3>1
    <3> QED
      BY <3>1, <3>2, <1>4, <1>6
  <2>3. PICK x \in Int : x = arr[tailIndices[k]]
    BY <1>7
  <2>4. x \in U /\ \A y \in U : x =< y /\ y \in Int
    BY <2>1, <2>2, <2>3
  <2> HIDE DEF U
  <2>5. LI!Min(U) \in U /\ \A y \in U : LI!Min(U) =< y
    BY <2>4, Zenon DEF LI!Min
  <2>6. LI!Min(U) = x
    <3>1. PICK z \in U : z = LI!Min(U)
      BY <2>5
    <3>2. z <= x /\ x <= z /\ z \in Int
      BY <2>4, <2>5, <3>1
    <3> QED
      BY <3>1, <3>2
  <2> QED
    BY <2>3, <2>6 DEF U
<1>10. LI!BestTails
  BY <1>3, <1>8, <1>9 DEF LI!BestTails, sub
<1>11. LI!PrintsLongest
  <2> SUFFICES ASSUME chain # <<>>, at < 0, ~astray
               PROVE  Len(chain) = len /\ \A k \in 1..len - 1 : chain[k] > chain[k + 1]
    BY DEF LI!PrintsLongest
  <2>1. PICK g \in [0..N - 1 -> Nat] :
          /\ Depths(arr, tailIndices, prevIndices, len, next, g)
          /\ Printed(arr, prevIndices, len, next, chain, at, g)
    BY <1>1
  <2>2. PICK k \in 0..next - 1 : at = prevIndices[k] /\ g[k] = len - Len(chain)
    BY <2>1 DEF Printed
  <2>3. g[k] = 0
    <3> SUFFICES ASSUME g[k] # 0 PROVE FALSE
      OBVIOUS
    <3>1. at \in 0..next - 1
      BY <2>1, <2>2 DEF Depths
    <3> QED
      BY <3>1
  <2>4. Len(chain) \in 1..len /\ \A j \in 1..Len(chain) - 1 : chain[j] > chain[j + 1]
    BY <2>1 DEF Printed
  <2>5. Len(chain) = len
    BY <2>2, <2>3, <2>4, <1>2
  <2> QED
    BY <2>4, <2>5
<1> QED
  BY <1>10, <1>11
=============================================================================
