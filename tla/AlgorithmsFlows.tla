-------------------------- MODULE AlgorithmsFlows --------------------------
(***************************************************************************)
(* Networks of any size and their flows, as Edmonds-Karp.cpp and Dinic.cpp *)
(* keep them: what adding an edge and pushing along one do to the flow out *)
(* of a vertex and across a cut, and that a flow which fills a cut is a    *)
(* maximum. Then the invariant of Edmonds-Karp.cpp.                        *)
(***************************************************************************)
EXTENDS AlgorithmsLemmas


-----------------------------------------------------------------------------
(* Networks and their flows.                                               *)

-----------------------------------------------------------------------------
(* More about sums. *)
LEMMA TotalPlus ==
  ASSUME NEW S, IsFiniteSet(S), NEW w, NEW v, \A x \in S : w[x] \in Int /\ v[x] \in Int,
         NEW z, \A x \in S : z[x] = w[x] + v[x]
  PROVE  Total(z, S) = Total(w, S) + Total(v, S)
<1>1. \A x \in S : z[x] \in Int
  OBVIOUS
<1>2. PICK f : Additive(f, w, S) /\ Total(w, S) = f[S]
  BY SumsExist, TotalIs
<1>3. PICK h : Additive(h, v, S) /\ Total(v, S) = h[S]
  BY SumsExist, TotalIs
<1> DEFINE g == [U \in SUBSET S |-> f[U] + h[U]]
<1>4. Additive(g, z, S)
  <2>1. g[{}] = 0
    BY <1>2, <1>3 DEF Additive
  <2>2. ASSUME NEW U \in SUBSET S
        PROVE  g[U] \in Int /\ \A x \in U : g[U] = g[U \ {x}] + z[x]
    <3>1. f[U] \in Int /\ h[U] \in Int /\ g[U] = f[U] + h[U]
      BY <1>2, <1>3 DEF Additive
    <3>2. ASSUME NEW x \in U
          PROVE  g[U] = g[U \ {x}] + z[x]
      <4>1. U \ {x} \in SUBSET S /\ x \in S
        OBVIOUS
      <4>2. PICK j \in Int : j = f[U \ {x}]
        BY <4>1, <1>2 DEF Additive
      <4>3. PICK k \in Int : k = h[U \ {x}]
        BY <4>1, <1>3 DEF Additive
      <4>4. f[U] = j + w[x] /\ h[U] = k + v[x]
        BY <4>1, <4>2, <4>3, <1>2, <1>3 DEF Additive
      <4>5. w[x] \in Int /\ v[x] \in Int /\ z[x] = w[x] + v[x]
        BY <4>1
      <4>6. g[U] = f[U] + h[U] /\ g[U \ {x}] = j + k
        BY <4>1, <4>2, <4>3
      <4> QED
        BY ONLY <4>4, <4>5, <4>6
    <3> HIDE DEF g
    <3>3. g[U] \in Int
      BY <3>1
    <3> QED
      BY <3>2, <3>3
  <2> HIDE DEF g
  <2> QED
    BY <2>1, <2>2 DEF Additive
<1>5. Total(z, S) = g[S]
  <2> HIDE DEF g
  <2> QED
    BY <1>1, <1>4, TotalIs
<1> QED
  BY <1>2, <1>3, <1>5

LEMMA TotalZero ==
  ASSUME NEW S, IsFiniteSet(S), NEW w, \A x \in S : w[x] = 0
  PROVE  Total(w, S) = 0
<1> DEFINE f == [U \in SUBSET S |-> 0]
<1>1. Additive(f, w, S)
  BY DEF Additive
<1>2. f[S] = 0
  OBVIOUS
<1> HIDE DEF f
<1> QED
  BY <1>1, <1>2, TotalIs

LEMMA TotalOfOne ==
  ASSUME NEW S, IsFiniteSet(S), NEW y \in S, NEW w, w[y] \in Int, \A x \in S \ {y} : w[x] = 0
  PROVE  Total(w, S) = w[y]
<1>1. \A x \in S : w[x] \in Int
  OBVIOUS
<1>2. Total(w, S) = Total(w, S \ {y}) + w[y]
  BY <1>1, TotalFacts
<1>3. Total(w, S \ {y}) = 0
  <2>1. IsFiniteSet(S \ {y})
    BY FS_RemoveElement
  <2> QED
    BY <2>1, TotalZero
<1> QED
  BY <1>2, <1>3

LEMMA TotalAtMost ==
  ASSUME NEW S, IsFiniteSet(S), NEW w, NEW v, \A x \in S : w[x] \in Int /\ v[x] \in Int /\ w[x] <= v[x]
  PROVE  Total(w, S) <= Total(v, S)
<1>1. PICK f : Additive(f, w, S) /\ Total(w, S) = f[S]
  BY SumsExist, TotalIs
<1>2. PICK h : Additive(h, v, S) /\ Total(v, S) = h[S]
  BY SumsExist, TotalIs
<1> DEFINE R == {U \in SUBSET S : f[U] <= h[U]}
<1>3. ASSUME NEW U \in SUBSET S, \A x \in U : U \ {x} \in R
      PROVE  U \in R
  <2>1. CASE U = {}
    BY <2>1, <1>1, <1>2 DEF Additive
  <2>2. CASE U # {}
    <3>1. PICK x : x \in U
      BY <2>2
    <3>2. U \ {x} \in SUBSET S /\ x \in S /\ f[U \ {x}] <= h[U \ {x}]
      BY <1>3, <3>1
    <3>3. f[U] = f[U \ {x}] + w[x] /\ f[U \ {x}] \in Int
      BY <3>1, <3>2, <1>1 DEF Additive
    <3>4. h[U] = h[U \ {x}] + v[x] /\ h[U \ {x}] \in Int
      BY <3>1, <3>2, <1>2 DEF Additive
    <3>5. w[x] \in Int /\ v[x] \in Int /\ w[x] <= v[x]
      BY <3>2
    <3>6. f[U] <= h[U]
      <4>1. f[U \ {x}] <= h[U \ {x}]
        BY <3>2
      <4> QED
        BY ONLY <4>1, <3>3, <3>4, <3>5
    <3> QED
      BY <3>6
  <2> QED
    BY <2>1, <2>2
<1>4. \A U \in SUBSET S : U \in R
  <2> HIDE DEF R
  <2> QED
    BY <1>3, SubsetInduction
<1> QED
  BY <1>1, <1>2, <1>4

(* Two sums that differ in two elements only. *)
LEMMA TotalOfTwo ==
  ASSUME NEW S, IsFiniteSet(S), NEW j \in S, NEW k \in S, j # k,
         NEW w, NEW v, \A x \in S : w[x] \in Int /\ v[x] \in Int,
         \A x \in S \ {j, k} : v[x] = w[x]
  PROVE  Total(v, S) = Total(w, S) + (v[j] - w[j]) + (v[k] - w[k])
<1> DEFINE T == S \ {j}
           U == T \ {k}
<1>1. IsFiniteSet(T) /\ IsFiniteSet(U)
  <2>1. IsFiniteSet(T)
    BY FS_RemoveElement
  <2> HIDE DEF T
  <2> QED
    BY <2>1, FS_RemoveElement
<1>2. k \in T /\ (\A x \in T : x \in S) /\ (\A x \in U : x \in S \ {j, k})
  OBVIOUS
<1>3. Total(w, S) = Total(w, T) + w[j] /\ Total(v, S) = Total(v, T) + v[j]
  BY TotalFacts
<1>4. Total(w, T) = Total(w, U) + w[k] /\ Total(v, T) = Total(v, U) + v[k]
  <2> HIDE DEF T
  <2> QED
    BY <1>1, <1>2, TotalFacts
<1>5. Total(w, U) = Total(v, U) /\ Total(w, U) \in Int
  <2> HIDE DEF U
  <2> QED
    BY <1>1, <1>2, TotalSame, TotalFacts
<1>6. w[j] \in Int /\ w[k] \in Int /\ v[j] \in Int /\ v[k] \in Int
  OBVIOUS
<1> QED
  BY ONLY <1>3, <1>4, <1>5, <1>6

(* A sum without two of its elements. *)
LEMMA TotalLessTwo ==
  ASSUME NEW S, IsFiniteSet(S), NEW j \in S, NEW k \in S, j # k,
         NEW w, \A x \in S : w[x] \in Int
  PROVE  Total(w, S) = Total(w, (S \ {j}) \ {k}) + w[k] + w[j]
<1> DEFINE T == S \ {j}
<1>1. IsFiniteSet(T) /\ k \in T /\ \A x \in T : w[x] \in Int
  BY FS_RemoveElement
<1>2. Total(w, S) = Total(w, T) + w[j]
  BY TotalFacts
<1>3. Total(w, T) = Total(w, T \ {k}) + w[k] /\ Total(w, T \ {k}) \in Int
  <2>1. IsFiniteSet(T \ {k}) /\ \A x \in T \ {k} : w[x] \in Int
    BY <1>1, FS_RemoveElement
  <2> HIDE DEF T
  <2> QED
    BY <1>1, <2>1, TotalFacts
<1>4. w[j] \in Int /\ w[k] \in Int
  OBVIOUS
<1> QED
  BY <1>2, <1>3, <1>4

(* Numbers in opposite pairs add up to nothing. *)
LEMMA PairsCancel ==
  ASSUME NEW r \in Nat, NEW w, \A k \in 1..2 * r : w[k] \in Int,
         \A k \in 1..r : w[2 * k] = -w[2 * k - 1]
  PROVE  Total(w, 1..2 * r) = 0
<1> DEFINE B == {k \in 0..r : Total(w, 1..2 * k) # 0}
<1> SUFFICES ASSUME B # {} PROVE FALSE
  <2>1. r \in 0..r
    OBVIOUS
  <2> QED
    BY <2>1
<1>0. B \in SUBSET Nat
  OBVIOUS
<1>1. PICK m \in B : \A j \in B : m <= j
  <2> HIDE DEF B
  <2> QED
    BY <1>0, Smallest
<1>2. m \in 0..r /\ Total(w, 1..2 * m) # 0
  BY <1>1
<1>3. m # 0
  <2>1. 1..2 * 0 = {}
    OBVIOUS
  <2>2. Total(w, {}) = 0
    <3>1. IsFiniteSet({})
      BY FS_EmptySet
    <3> QED
      BY <3>1, TotalFacts
  <2> QED
    BY <2>1, <2>2, <1>2
<1>4. m \in 1..r /\ m - 1 \in 0..r /\ m - 1 \notin B
  <2>1. m \in 1..r /\ m - 1 \in 0..r /\ m - 1 < m
    BY <1>2, <1>3
  <2> HIDE DEF B
  <2> QED
    BY <2>1, <1>1
<1>5. Total(w, 1..2 * (m - 1)) = 0
  BY <1>4
<1>6. PICK y \in Int : y = 2 * m
  BY <1>4
<1>7. /\ y \in 1..2 * r /\ y - 1 \in 1..2 * r
      /\ 1..2 * (m - 1) = ((1..y) \ {y}) \ {y - 1}
      /\ y \in 1..y /\ y - 1 \in 1..y /\ y # y - 1
  <2>1. m \in Int /\ 1 <= m /\ m <= r
    BY <1>4
  <2>2. y - 1 >= 1 /\ y <= 2 * r /\ 2 * (m - 1) = y - 2
    BY <1>6, <2>1
  <2>3. 1..2 * (m - 1) = 1..y - 2
    BY <2>2
  <2>4. ((1..y) \ {y}) \ {y - 1} = 1..y - 2
    BY <2>2
  <2> QED
    BY <2>2, <2>3, <2>4
<1>8. \A k \in 1..y : w[k] \in Int
  <2>1. \A k \in 1..y : k \in 1..2 * r
    BY <1>7
  <2> QED
    BY <2>1
<1>9. PICK S : S = 1..y
  OBVIOUS
<1>10. IsFiniteSet(S)
  BY <1>9, FS_Interval
<1>11. w[y] = -w[y - 1] /\ w[y - 1] \in Int
  <2>1. w[2 * m] = -w[2 * m - 1]
    BY <1>4
  <2>2. w[y] = -w[y - 1]
    BY <2>1, <1>6
  <2> QED
    BY <2>2, <1>7
<1>12. PICK z \in Int : z = y - 1
  OBVIOUS
<1>13. Total(w, S) = Total(w, (S \ {y}) \ {z}) + w[z] + w[y]
  <2>1. y \in S /\ z \in S /\ y # z /\ \A k \in S : w[k] \in Int
    BY <1>7, <1>8, <1>9, <1>12
  <2>2. PICK j \in S : j = y
    BY <2>1
  <2>3. PICK k \in S : k = z
    BY <2>1
  <2>4. j # k /\ \A x \in S : w[x] \in Int
    BY <2>1, <2>2, <2>3
  <2>5. Total(w, S) = Total(w, (S \ {j}) \ {k}) + w[k] + w[j]
    BY ONLY <2>4, <1>10, TotalLessTwo
  <2> QED
    BY ONLY <2>2, <2>3, <2>5
<1>14. Total(w, S) = 0
  <2>1. Total(w, (S \ {y}) \ {z}) = 0
    BY <1>5, <1>7, <1>9, <1>12
  <2>2. w[y] = -w[z] /\ w[z] \in Int
    BY <1>11, <1>12
  <2> QED
    BY ONLY <2>1, <2>2, <1>13
<1>15. Total(w, 1..2 * m) = 0
  BY <1>14, <1>6, <1>9
<1> QED
  BY <1>2, <1>15

FN == INSTANCE FlowNetwork

(* A fold that counts v[k] for the elements k of P. *)
Counts(f, S, P, v) ==
  f = [U \in SUBSET S |->
         IF U = {} THEN 0
         ELSE IF (CHOOSE x \in U : TRUE) \in P THEN f[U \ {CHOOSE x \in U : TRUE}] + v[CHOOSE x \in U : TRUE]
         ELSE f[U \ {CHOOSE x \in U : TRUE}]]

Counted(S, P, v) == [k \in S |-> IF k \in P THEN v[k] ELSE 0]

LEMMA CountsExist ==
  ASSUME NEW S, IsFiniteSet(S), NEW P, NEW v, \A k \in S : v[k] \in Int
  PROVE  \E f : Counts(f, S, P, v)
<1> DEFINE g == [z \in S \X Int |-> IF z[1] \in P THEN z[2] + v[z[1]] ELSE z[2]]
<1>1. \A t \in Int, k \in S : /\ g[<<k, t>>] = IF k \in P THEN t + v[k] ELSE t
                              /\ g[<<k, t>>] \in Int
  OBVIOUS
<1>2. PICK f : FoldsAny(f, S, 0, g) /\ \A U \in SUBSET S : f[U] \in Int
  <2> HIDE DEF g
  <2>1. PICK T, b : T = Int /\ b = 0
    OBVIOUS
  <2>2. b \in T /\ \A t \in T, k \in S : g[<<k, t>>] \in T
    BY <1>1, <2>1
  <2>3. \E f : FoldsAny(f, S, b, g) /\ \A U \in SUBSET S : f[U] \in T
    BY ONLY <2>2, AnyFold, IsFiniteSet(S)
  <2> QED
    BY <2>1, <2>3
<1>3. ASSUME NEW U \in SUBSET S
      PROVE  f[U] = IF U = {} THEN 0
                    ELSE IF (CHOOSE x \in U : TRUE) \in P
                           THEN f[U \ {CHOOSE x \in U : TRUE}] + v[CHOOSE x \in U : TRUE]
                    ELSE f[U \ {CHOOSE x \in U : TRUE}]
  <2> HIDE DEF g
  <2>1. f[U] = IF U = {} THEN 0 ELSE g[<<CHOOSE x \in U : TRUE, f[U \ {CHOOSE x \in U : TRUE}]>>]
    BY <1>2, Zenon DEF FoldsAny
  <2>2. CASE U = {}
    BY <2>1, <2>2, Zenon
  <2>3. CASE U # {}
    <3>1. PICK k \in U : k = CHOOSE x \in U : TRUE
      BY <2>3
    <3>2. f[U \ {k}] \in Int /\ k \in S
      BY <1>2
    <3>3. g[<<k, f[U \ {k}]>>] = IF k \in P THEN f[U \ {k}] + v[k] ELSE f[U \ {k}]
      BY <1>1, <3>2
    <3> QED
      BY <2>1, <2>3, <3>1, <3>3, Zenon
  <2> QED
    BY <2>2, <2>3
<1>4. f = [U \in SUBSET S |-> f[U]]
  BY <1>2, Zenon DEF FoldsAny
<1>5. Counts(f, S, P, v)
  <2> HIDE DEF g
  <2> QED
    BY <1>3, <1>4, Zenon DEF Counts
<1> QED
  BY <1>5

LEMMA CountsTotal ==
  ASSUME NEW S, IsFiniteSet(S), NEW P, NEW v, \A k \in S : v[k] \in Int, NEW f, Counts(f, S, P, v)
  PROVE  f[S] = Total(Counted(S, P, v), S)
<1> DEFINE w == Counted(S, P, v)
<1>1. \A k \in S : w[k] = (IF k \in P THEN v[k] ELSE 0) /\ w[k] \in Int
  BY DEF Counted
<1>2. ASSUME NEW U \in SUBSET S
      PROVE  f[U] = IF U = {} THEN 0
                    ELSE IF Any(S)[U] \in P THEN f[U \ {Any(S)[U]}] + v[Any(S)[U]]
                    ELSE f[U \ {Any(S)[U]}]
  <2>1. f[U] = IF U = {} THEN 0
               ELSE IF (CHOOSE x \in U : TRUE) \in P
                      THEN f[U \ {CHOOSE x \in U : TRUE}] + v[CHOOSE x \in U : TRUE]
               ELSE f[U \ {CHOOSE x \in U : TRUE}]
    BY Zenon DEF Counts
  <2>2. CASE U = {}
    BY <2>1, <2>2, Zenon
  <2>3. CASE U # {}
    <3>1. Any(S)[U] = CHOOSE x \in U : TRUE
      BY <2>3, AnyChooses
    <3> QED
      BY <2>1, <2>3, <3>1, Zenon
  <2> QED
    BY <2>2, <2>3
<1> DEFINE R == {U \in SUBSET S : f[U] \in Int}
<1>3. ASSUME NEW U \in SUBSET S, \A x \in U : U \ {x} \in R
      PROVE  U \in R
  <2>1. CASE U = {}
    <3>1. f[U] = 0
      BY <1>2, <2>1, Zenon
    <3> QED
      BY <3>1
  <2>2. CASE U # {}
    <3>1. PICK k \in U : k = Any(S)[U]
      BY <2>2, AnyChooses
    <3>2. f[U \ {k}] \in Int /\ v[k] \in Int
      BY <1>3
    <3>3. f[U] = IF k \in P THEN f[U \ {k}] + v[k] ELSE f[U \ {k}]
      BY <1>2, <2>2, <3>1, Zenon
    <3>4. f[U] \in Int
      BY <3>2, <3>3
    <3> QED
      BY <3>4
  <2> QED
    BY <2>1, <2>2
<1>4. \A U \in SUBSET S : U \in R
  <2> HIDE DEF R
  <2> QED
    BY <1>3, SubsetInduction
<1>5. ASSUME NEW U \in SUBSET S, U # {}
      PROVE  f[U] = f[U \ {Any(S)[U]}] + w[Any(S)[U]]
  <2>1. PICK k \in U : k = Any(S)[U]
    BY <1>5, AnyChooses
  <2>2. f[U \ {k}] \in Int
    BY <1>4
  <2>3. f[U] = IF k \in P THEN f[U \ {k}] + v[k] ELSE f[U \ {k}]
    BY <1>2, <1>5, <2>1, Zenon
  <2>4. f[U] = f[U \ {k}] + w[k]
    <3>1. w[k] = IF k \in P THEN v[k] ELSE 0
      BY <1>1
    <3> HIDE DEF w
    <3> QED
      BY <2>2, <2>3, <3>1
  <2> HIDE DEF w
  <2> QED
    BY <2>1, <2>4
<1>6. f[{}] = 0
  BY <1>2
<1>7. Additive(f, w, S)
  <2> HIDE DEF R, w
  <2> QED
    BY <1>1, <1>5, <1>6, AnyChooses, OrderIsFree
<1> HIDE DEF w
<1>8. Total(w, S) = f[S]
  BY <1>1, <1>7, TotalIs
<1> QED
  BY <1>8 DEF w

-----------------------------------------------------------------------------
Pieces == [from : Joint, to : Joint, cap : Nat, flow : Int]

Flows(q) == [k \in DOMAIN q |-> q[k].flow]
Caps(q) == [k \in DOMAIN q |-> q[k].cap]
From(q, x) == {k \in DOMAIN q : q[k].from = x}
Across(q, S) == {k \in DOMAIN q : q[k].from \in S /\ q[k].to \notin S}

(* What flows out of x, and what a cut can carry. *)
Outward(q, x) == Total(Counted(DOMAIN q, From(q, x), Flows(q)), DOMAIN q)
Crossing(q, S) == Total(Counted(DOMAIN q, Across(q, S), Caps(q)), DOMAIN q)

LEMMA PiecesAre ==
  ASSUME NEW q \in Seq(Pieces)
  PROVE  /\ Len(q) \in Nat /\ DOMAIN q = 1..Len(q) /\ IsFiniteSet(DOMAIN q)
         /\ \A k \in DOMAIN q : /\ q[k] \in Pieces /\ q[k].from \in Joint /\ q[k].to \in Joint
                                /\ q[k].cap \in Nat /\ q[k].flow \in Int
                                /\ Flows(q)[k] = q[k].flow /\ Flows(q)[k] \in Int
                                /\ Caps(q)[k] = q[k].cap /\ Caps(q)[k] \in Nat /\ Caps(q)[k] \in Int
<1>1. Len(q) \in Nat /\ DOMAIN q = 1..Len(q)
  OBVIOUS
<1>2. IsFiniteSet(DOMAIN q)
  BY <1>1, FS_Interval
<1>3. \A k \in DOMAIN q : q[k] \in Pieces
  BY <1>1
<1>4. \A k \in DOMAIN q : q[k].from \in Joint /\ q[k].to \in Joint /\ q[k].cap \in Nat /\ q[k].flow \in Int
  BY <1>3 DEF Pieces
<1> QED
  BY <1>1, <1>2, <1>3, <1>4 DEF Flows, Caps

LEMMA OutflowIs ==
  ASSUME NEW q \in Seq(Pieces), NEW x
  PROVE  FN!Outflow(q, x) = Outward(q, x)
<1> DEFINE S == DOMAIN q
           P == From(q, x)
           v == Flows(q)
           Folds(f) == f = [U \in SUBSET S |->
                              IF U = {} THEN 0
                              ELSE IF q[CHOOSE y \in U : TRUE].from = x
                                     THEN f[U \ {CHOOSE y \in U : TRUE}] + q[CHOOSE y \in U : TRUE].flow
                              ELSE f[U \ {CHOOSE y \in U : TRUE}]]
<1>1. IsFiniteSet(S) /\ \A k \in S : v[k] = q[k].flow /\ v[k] \in Int /\ (k \in P <=> q[k].from = x)
  BY PiecesAre DEF From
<1>2. ASSUME NEW f
      PROVE  Counts(f, S, P, v) <=> Folds(f)
  <2>1. ASSUME NEW U \in SUBSET S
        PROVE  (IF U = {} THEN 0
                ELSE IF (CHOOSE y \in U : TRUE) \in P
                       THEN f[U \ {CHOOSE y \in U : TRUE}] + v[CHOOSE y \in U : TRUE]
                ELSE f[U \ {CHOOSE y \in U : TRUE}])
               = (IF U = {} THEN 0
                  ELSE IF q[CHOOSE y \in U : TRUE].from = x
                         THEN f[U \ {CHOOSE y \in U : TRUE}] + q[CHOOSE y \in U : TRUE].flow
                  ELSE f[U \ {CHOOSE y \in U : TRUE}])
    <3> HIDE DEF S, P, v
    <3>1. CASE U = {}
      BY <3>1, Zenon
    <3>2. CASE U # {}
      <4>1. PICK k \in U : k = CHOOSE y \in U : TRUE
        BY <3>2
      <4>2. v[k] = q[k].flow /\ (k \in P <=> q[k].from = x)
        BY <1>1, <4>1
      <4> QED
        BY <4>1, <4>2, Zenon
    <3> QED
      BY <3>1, <3>2
  <2> HIDE DEF S, P, v
  <2> QED
    BY <2>1, Zenon DEF Counts
<1>3. PICK h : h = CHOOSE j : Folds(j)
  OBVIOUS
<1>4. Folds(h)
  <2>1. \E f : Counts(f, S, P, v)
    <3> HIDE DEF S, P, v
    <3> QED
      BY <1>1, CountsExist
  <2>2. \E f : Folds(f)
    <3> HIDE DEF Folds, S, P, v
    <3> QED
      BY <1>2, <2>1
  <2> HIDE DEF Folds
  <2> QED
    BY <1>3, <2>2, Zenon
<1>5. FN!Outflow(q, x) = h[S]
  BY <1>3, Zenon DEF FN!Outflow, FN!FoldSeq, FN!FoldFunction, FN!FoldFunctionOnSet, FN!MapThenFoldSet
<1>6. h[S] = Total(Counted(S, P, v), S)
  <2>1. Counts(h, S, P, v)
    <3> HIDE DEF Folds, S, P, v
    <3> QED
      BY <1>2, <1>4
  <2> HIDE DEF Folds, S, P, v
  <2> QED
    BY <2>1, <1>1, CountsTotal
<1> QED
  BY <1>5, <1>6, Zenon DEF Outward

LEMMA CrossingIs ==
  ASSUME NEW q \in Seq(Pieces), NEW z
  PROVE  FN!FoldSeq(LAMBDA e, sum : IF e.from \in z /\ e.to \notin z THEN sum + e.cap ELSE sum, 0, q) = Crossing(q, z)
<1> DEFINE S == DOMAIN q
           P == Across(q, z)
           v == Caps(q)
           Folds(f) == f = [U \in SUBSET S |->
                              IF U = {} THEN 0
                              ELSE IF q[CHOOSE y \in U : TRUE].from \in z /\ q[CHOOSE y \in U : TRUE].to \notin z
                                     THEN f[U \ {CHOOSE y \in U : TRUE}] + q[CHOOSE y \in U : TRUE].cap
                              ELSE f[U \ {CHOOSE y \in U : TRUE}]]
<1>1. IsFiniteSet(S) /\ \A k \in S : v[k] = q[k].cap /\ v[k] \in Int /\ (k \in P <=> q[k].from \in z /\ q[k].to \notin z)
  BY PiecesAre DEF Across
<1>2. ASSUME NEW f
      PROVE  Counts(f, S, P, v) <=> Folds(f)
  <2>1. ASSUME NEW U \in SUBSET S
        PROVE  (IF U = {} THEN 0
                ELSE IF (CHOOSE y \in U : TRUE) \in P
                       THEN f[U \ {CHOOSE y \in U : TRUE}] + v[CHOOSE y \in U : TRUE]
                ELSE f[U \ {CHOOSE y \in U : TRUE}])
               = (IF U = {} THEN 0
                  ELSE IF q[CHOOSE y \in U : TRUE].from \in z /\ q[CHOOSE y \in U : TRUE].to \notin z
                         THEN f[U \ {CHOOSE y \in U : TRUE}] + q[CHOOSE y \in U : TRUE].cap
                  ELSE f[U \ {CHOOSE y \in U : TRUE}])
    <3> HIDE DEF S, P, v
    <3>1. CASE U = {}
      BY <3>1, Zenon
    <3>2. CASE U # {}
      <4>1. PICK k \in U : k = CHOOSE y \in U : TRUE
        BY <3>2
      <4>2. v[k] = q[k].cap /\ (k \in P <=> q[k].from \in z /\ q[k].to \notin z)
        BY <1>1, <4>1
      <4> QED
        BY <4>1, <4>2, Zenon
    <3> QED
      BY <3>1, <3>2
  <2> HIDE DEF S, P, v
  <2> QED
    BY <2>1, ZenonT(60) DEF Counts
<1>3. PICK h : h = CHOOSE j : Folds(j)
  OBVIOUS
<1>4. Folds(h)
  <2>1. \E f : Counts(f, S, P, v)
    <3> HIDE DEF S, P, v
    <3> QED
      BY <1>1, CountsExist
  <2>2. \E f : Folds(f)
    <3> HIDE DEF Folds, S, P, v
    <3> QED
      BY <1>2, <2>1
  <2> HIDE DEF Folds
  <2> QED
    BY <1>3, <2>2, Zenon
<1>5. FN!FoldSeq(LAMBDA e, sum : IF e.from \in z /\ e.to \notin z THEN sum + e.cap ELSE sum, 0, q) = h[S]
  BY <1>3, Zenon DEF FN!FoldSeq, FN!FoldFunction, FN!FoldFunctionOnSet, FN!MapThenFoldSet
<1>6. h[S] = Total(Counted(S, P, v), S)
  <2>1. Counts(h, S, P, v)
    <3> HIDE DEF Folds, S, P, v
    <3> QED
      BY <1>2, <1>4
  <2> HIDE DEF Folds, S, P, v
  <2> QED
    BY <2>1, <1>1, CountsTotal
<1> QED
  BY <1>5, <1>6, Zenon DEF Crossing

LEMMA CrossingIsNat ==
  ASSUME NEW q \in Seq(Pieces), NEW S
  PROVE  Crossing(q, S) \in Nat
<1> DEFINE D == DOMAIN q
           w == Counted(D, Across(q, S), Caps(q))
           z == [k \in D |-> 0]
<1>1. IsFiniteSet(D)
  BY PiecesAre
<1>2. \A k \in D : w[k] \in Int /\ z[k] \in Int /\ z[k] = 0 /\ z[k] <= w[k]
  BY PiecesAre DEF Counted
<1> HIDE DEF D, w, z
<1>3. Total(w, D) \in Int /\ Total(z, D) = 0 /\ Total(z, D) <= Total(w, D)
  BY <1>1, <1>2, TotalFacts, TotalZero, TotalAtMost
<1>4. Total(w, D) \in Nat
  BY <1>3
<1> QED
  BY <1>4 DEF Crossing, D, w

(* The minimum cut is one of the cuts, and none is smaller. *)
LEMMA MinCutIs ==
  ASSUME NEW q \in Seq(Pieces), NEW V, NEW x, NEW y
  PROVE  /\ \E S \in SUBSET (V \ {x, y}) : FN!MinCut(q, V, x, y) = Crossing(q, {x} \cup S)
         /\ \A S \in SUBSET (V \ {x, y}) : FN!MinCut(q, V, x, y) <= Crossing(q, {x} \cup S)
         /\ FN!MinCut(q, V, x, y) \in Nat
<1> DEFINE Fold(z) == FN!FoldSeq(LAMBDA e, sum : IF e.from \in z /\ e.to \notin z THEN sum + e.cap ELSE sum, 0, q)
           C == {Crossing(q, {x} \cup S) : S \in SUBSET (V \ {x, y})}
<1>1. FN!MinCut(q, V, x, y) = FN!Min({Fold({x} \cup S) : S \in SUBSET (V \ {x, y})})
  BY Zenon DEF FN!MinCut
<1>2. \A S \in SUBSET (V \ {x, y}) : Fold({x} \cup S) = Crossing(q, {x} \cup S)
  BY CrossingIs
<1>3. {Fold({x} \cup S) : S \in SUBSET (V \ {x, y})} = C
  <2> HIDE DEF Fold
  <2> QED
    BY <1>2
<1>4. C \in SUBSET Nat /\ C # {}
  <2>1. C \in SUBSET Nat
    BY CrossingIsNat
  <2>2. {} \in SUBSET (V \ {x, y})
    OBVIOUS
  <2>3. C # {}
    BY <2>2
  <2> QED
    BY <2>1, <2>3
<1>5. FN!Min(C) \in C /\ \A k \in C : FN!Min(C) <= k
  <2> HIDE DEF C
  <2>1. PICK m \in C : \A k \in C : m <= k
    BY <1>4, Smallest
  <2> QED
    BY <2>1, Zenon DEF FN!Min
<1>6. FN!MinCut(q, V, x, y) = FN!Min(C)
  BY <1>1, <1>3, Zenon
<1>7. PICK m : m = FN!MinCut(q, V, x, y)
  OBVIOUS
<1>8. m \in C /\ (\A k \in C : m <= k) /\ m \in Nat
  BY <1>4, <1>5, <1>6, <1>7
<1>9. \E S \in SUBSET (V \ {x, y}) : m = Crossing(q, {x} \cup S)
  BY <1>8
<1>10. \A S \in SUBSET (V \ {x, y}) : m <= Crossing(q, {x} \cup S)
  BY <1>8
<1> QED
  BY <1>7, <1>8, <1>9, <1>10

-----------------------------------------------------------------------------
(* A network: an even number of edges, and an edge and its partner go back *)
(* and forth between the same vertices with the same capacity.             *)
Network(q) ==
  /\ q \in Seq(Pieces)
  /\ \E r \in Nat : Len(q) = 2 * r
  /\ \A k \in DOMAIN q : /\ q[FN!Partner(k)].from = q[k].to /\ q[FN!Partner(k)].to = q[k].from
                         /\ q[FN!Partner(k)].cap = q[k].cap

LEMMA PartnerIs ==
  ASSUME NEW r \in Nat, NEW k \in 1..2 * r
  PROVE  /\ FN!Partner(k) \in 1..2 * r /\ FN!Partner(k) # k
         /\ FN!Partner(FN!Partner(k)) = k
BY DEF FN!Partner

LEMMA PartnersOf ==
  ASSUME NEW r \in Nat, NEW k \in 1..r
  PROVE  2 * k \in 1..2 * r /\ 2 * k - 1 \in 1..2 * r /\ FN!Partner(2 * k) = 2 * k - 1
BY DEF FN!Partner

LEMMA NetworkIs ==
  ASSUME NEW q, Network(q), NEW k \in DOMAIN q
  PROVE  /\ FN!Partner(k) \in DOMAIN q /\ FN!Partner(k) # k /\ FN!Partner(FN!Partner(k)) = k
         /\ q[FN!Partner(k)].from = q[k].to /\ q[FN!Partner(k)].to = q[k].from
         /\ q[FN!Partner(k)].cap = q[k].cap
<1>1. PICK r \in Nat : Len(q) = 2 * r
  BY DEF Network
<1>2. DOMAIN q = 1..2 * r
  BY <1>1, PiecesAre DEF Network
<1> QED
  BY <1>2, PartnerIs DEF Network

LeavingSet(q, U) == {k \in DOMAIN q : q[k].from \in U}
Within(q, U) == {k \in DOMAIN q : q[k].from \in U /\ q[k].to \in U}

Leaves(q, U) == Total(Counted(DOMAIN q, LeavingSet(q, U), Flows(q)), DOMAIN q)
Through(q, U) == Total(Counted(DOMAIN q, Across(q, U), Flows(q)), DOMAIN q)

LEMMA CountedIs ==
  ASSUME NEW S, NEW P, NEW v, NEW k \in S
  PROVE  /\ k \in P => Counted(S, P, v)[k] = v[k]
         /\ k \notin P => Counted(S, P, v)[k] = 0
BY DEF Counted

LEMMA CountedInt ==
  ASSUME NEW S, NEW P, NEW v, \A k \in S : v[k] \in Int
  PROVE  \A k \in S : Counted(S, P, v)[k] \in Int
BY DEF Counted

LEMMA SumsAreInt ==
  ASSUME NEW q \in Seq(Pieces), NEW x, NEW U
  PROVE  Outward(q, x) \in Int /\ Leaves(q, U) \in Int /\ Through(q, U) \in Int
<1>1. IsFiniteSet(DOMAIN q) /\ \A k \in DOMAIN q : Flows(q)[k] \in Int
  BY PiecesAre
<1>2. ASSUME NEW P
      PROVE  Total(Counted(DOMAIN q, P, Flows(q)), DOMAIN q) \in Int
  <2>1. \A k \in DOMAIN q : Counted(DOMAIN q, P, Flows(q))[k] \in Int
    BY <1>1, CountedInt
  <2> QED
    BY <1>1, <2>1, TotalFacts
<1> QED
  BY <1>2 DEF Outward, Leaves, Through

(* What leaves a set of vertices is what flows out of each. *)
LEMMA LeavesPlus ==
  ASSUME NEW q \in Seq(Pieces), NEW U, NEW x \in U
  PROVE  Leaves(q, U) = Leaves(q, U \ {x}) + Outward(q, x)
<1> DEFINE D == DOMAIN q
           w == Counted(D, LeavingSet(q, U \ {x}), Flows(q))
           v == Counted(D, From(q, x), Flows(q))
           z == Counted(D, LeavingSet(q, U), Flows(q))
<1>1. IsFiniteSet(D) /\ \A k \in D : Flows(q)[k] \in Int
  BY PiecesAre
<1>2. \A k \in D : w[k] \in Int /\ v[k] \in Int
  BY <1>1, CountedInt
<1>3. \A k \in D : z[k] = w[k] + v[k]
  <2> TAKE k \in D
  <2>1. CASE q[k].from \notin U
    <3>1. z[k] = 0 /\ w[k] = 0 /\ v[k] = 0
      BY <2>1, CountedIs DEF LeavingSet, From
    <3> QED
      BY ONLY <3>1
  <2>2. CASE q[k].from = x
    <3>1. z[k] = Flows(q)[k] /\ w[k] = 0 /\ v[k] = Flows(q)[k]
      BY <2>2, CountedIs DEF LeavingSet, From
    <3>2. Flows(q)[k] \in Int
      BY <1>1
    <3> QED
      BY ONLY <3>1, <3>2
  <2>3. CASE q[k].from \in U \ {x}
    <3>1. z[k] = Flows(q)[k] /\ w[k] = Flows(q)[k] /\ v[k] = 0
      BY <2>3, CountedIs DEF LeavingSet, From
    <3>2. Flows(q)[k] \in Int
      BY <1>1
    <3> QED
      BY ONLY <3>1, <3>2
  <2> QED
    BY <2>1, <2>2, <2>3
<1>4. Total(z, D) = Total(w, D) + Total(v, D)
  <2> HIDE DEF D, w, v, z
  <2> QED
    BY <1>1, <1>2, <1>3, TotalPlus
<1> QED
  BY <1>4, Zenon DEF Leaves, Outward, D, w, v, z

LEMMA LeavesOf ==
  ASSUME NEW q \in Seq(Pieces), NEW U, IsFiniteSet(U), NEW x,
         \A y \in U \ {x} : Outward(q, y) = 0
  PROVE  /\ x \in U => Leaves(q, U) = Outward(q, x)
         /\ x \notin U => Leaves(q, U) = 0
<1> DEFINE R == {W \in SUBSET U : Leaves(q, W) = IF x \in W THEN Outward(q, x) ELSE 0}
<1>1. ASSUME NEW W \in SUBSET U, \A y \in W : W \ {y} \in R
      PROVE  W \in R
  <2>1. CASE W = {}
    <3>1. \A k \in DOMAIN q : Counted(DOMAIN q, LeavingSet(q, W), Flows(q))[k] = 0
      BY <2>1, CountedIs DEF LeavingSet
    <3>2. Leaves(q, W) = 0
      BY <3>1, PiecesAre, TotalZero DEF Leaves
    <3> QED
      BY <2>1, <3>2
  <2>2. CASE W # {}
    <3>1. PICK y \in W : TRUE
      BY <2>2
    <3>2. Leaves(q, W \ {y}) = (IF x \in W \ {y} THEN Outward(q, x) ELSE 0)
      BY <1>1
    <3>3. Leaves(q, W) = Leaves(q, W \ {y}) + Outward(q, y)
      BY LeavesPlus
    <3>4. Outward(q, x) \in Int
      BY SumsAreInt
    <3>5. CASE y = x
      <4>1. Leaves(q, W) = 0 + Outward(q, x) /\ x \in W
        BY <3>2, <3>3, <3>5
      <4>2. Leaves(q, W) = Outward(q, x)
        BY ONLY <4>1, <3>4
      <4> QED
        BY <4>1, <4>2
    <3>6. CASE y # x
      <4>1. Outward(q, y) = 0 /\ (x \in W <=> x \in W \ {y})
        BY <3>6
      <4>2. PICK m \in Int : m = IF x \in W THEN Outward(q, x) ELSE 0
        BY <3>4
      <4>3. Leaves(q, W) = m + 0
        BY <3>2, <3>3, <4>1, <4>2
      <4> QED
        BY <4>2, <4>3
    <3> QED
      BY <3>5, <3>6
  <2> QED
    BY <2>1, <2>2
<1>2. \A W \in SUBSET U : W \in R
  <2> HIDE DEF R
  <2> QED
    BY <1>1, SubsetInduction
<1>3. U \in R
  BY <1>2
<1> QED
  BY <1>3

(* Between the vertices of a set nothing is won or lost. *)
LEMMA NothingWithin ==
  ASSUME NEW q, Network(q), FN!WithinCapacity(q), NEW U
  PROVE  Total(Counted(DOMAIN q, Within(q, U), Flows(q)), DOMAIN q) = 0
<1> DEFINE D == DOMAIN q
           w == Counted(D, Within(q, U), Flows(q))
<1>0. q \in Seq(Pieces)
  BY DEF Network
<1>1. PICK r \in Nat : Len(q) = 2 * r
  BY DEF Network
<1>2. D = 1..2 * r
  BY <1>0, <1>1, PiecesAre
<1>3. \A k \in D : Flows(q)[k] \in Int /\ Flows(q)[k] = q[k].flow
  BY <1>0, PiecesAre
<1>4. \A k \in D : w[k] \in Int
  BY <1>3, CountedInt
<1>5. ASSUME NEW k \in 1..r
      PROVE  w[2 * k] = -w[2 * k - 1]
  <2>1. PICK j \in D, m \in D : j = 2 * k /\ m = 2 * k - 1 /\ m = FN!Partner(j)
    BY <1>2, PartnersOf
  <2>2. q[m].from = q[j].to /\ q[m].to = q[j].from
    BY <2>1, NetworkIs
  <2>3. q[m].flow = -q[j].flow
    BY <2>1 DEF FN!WithinCapacity
  <2>4. CASE j \in Within(q, U)
    <3>1. m \in Within(q, U)
      BY <2>2, <2>4 DEF Within
    <3>2. w[j] = q[j].flow /\ w[m] = q[m].flow
      BY <1>3, <2>4, <3>1, CountedIs
    <3>3. q[j].flow \in Int
      BY <1>3
    <3>4. w[j] = -w[m]
      BY ONLY <2>3, <3>2, <3>3
    <3> HIDE DEF w
    <3> QED
      BY <2>1, <3>4
  <2>5. CASE j \notin Within(q, U)
    <3>1. m \notin Within(q, U)
      BY <2>2, <2>5 DEF Within
    <3>2. w[j] = 0 /\ w[m] = 0
      BY <2>5, <3>1, CountedIs
    <3>4. w[j] = -w[m]
      BY ONLY <3>2
    <3> HIDE DEF w
    <3> QED
      BY <2>1, <3>4
  <2> QED
    BY <2>4, <2>5
<1>6. Total(w, 1..2 * r) = 0
  <2> HIDE DEF w, D
  <2> QED
    BY <1>2, <1>4, <1>5, PairsCancel
<1> QED
  BY <1>2, <1>6

Balanced(q) == \A x \in Joint \ {Source, Sink} : Outward(q, x) = 0

(* What flows out of the source flows through every cut. *)
LEMMA CutFlow ==
  ASSUME NEW q, Network(q), FN!WithinCapacity(q), Balanced(q),
         NEW S \in SUBSET Joint, Source \in S, Sink \notin S
  PROVE  /\ Outward(q, Source) = Through(q, S)
         /\ Outward(q, Source) <= Crossing(q, S)
         /\ (\A k \in Across(q, S) : q[k].flow = q[k].cap) => Outward(q, Source) = Crossing(q, S)
<1> DEFINE D == DOMAIN q
           w == Counted(D, Within(q, S), Flows(q))
           v == Counted(D, Across(q, S), Flows(q))
           z == Counted(D, LeavingSet(q, S), Flows(q))
           c == Counted(D, Across(q, S), Caps(q))
<1>0. q \in Seq(Pieces)
  BY DEF Network
<1>1. IsFiniteSet(D) /\ \A k \in D : /\ Flows(q)[k] \in Int /\ Flows(q)[k] = q[k].flow
                                     /\ Caps(q)[k] \in Int /\ Caps(q)[k] = q[k].cap
  BY <1>0, PiecesAre
<1>2. \A k \in D : w[k] \in Int /\ v[k] \in Int /\ c[k] \in Int
  BY <1>1, CountedInt
<1>3. ASSUME NEW k \in D
      PROVE  z[k] = w[k] + v[k]
  <2>2. Flows(q)[k] \in Int
    BY <1>1
  <2>1. CASE k \notin LeavingSet(q, S)
    <3>1. k \notin Within(q, S) /\ k \notin Across(q, S)
      BY <2>1 DEF LeavingSet, Within, Across
    <3>2. z[k] = 0 /\ w[k] = 0 /\ v[k] = 0
      BY <2>1, <3>1, CountedIs
    <3> QED
      BY ONLY <3>2
  <2>3. CASE k \in Within(q, S)
    <3>1. k \in LeavingSet(q, S) /\ k \notin Across(q, S)
      BY <2>3 DEF LeavingSet, Within, Across
    <3>2. z[k] = Flows(q)[k] /\ w[k] = Flows(q)[k] /\ v[k] = 0
      BY <2>3, <3>1, CountedIs
    <3> QED
      BY ONLY <3>2, <2>2
  <2>4. CASE k \in Across(q, S)
    <3>1. k \in LeavingSet(q, S) /\ k \notin Within(q, S)
      BY <2>4 DEF LeavingSet, Within, Across
    <3>2. z[k] = Flows(q)[k] /\ w[k] = 0 /\ v[k] = Flows(q)[k]
      BY <2>4, <3>1, CountedIs
    <3> QED
      BY ONLY <3>2, <2>2
  <2> QED
    BY <2>1, <2>3, <2>4 DEF LeavingSet, Within, Across
<1>4. Total(z, D) = Total(w, D) + Total(v, D)
  <2> HIDE DEF D, w, v, z, c
  <2> QED
    BY <1>1, <1>2, <1>3, TotalPlus
<1>5. Total(w, D) = 0
  BY NothingWithin
<1>6. Leaves(q, S) = Outward(q, Source)
  <2>1. IsFiniteSet(S)
    BY JointsAreFinite, FS_Subset
  <2>2. \A y \in S \ {Source} : Outward(q, y) = 0
    BY DEF Balanced
  <2> QED
    BY <1>0, <2>1, <2>2, LeavesOf
<1>7. Through(q, S) \in Int
  BY <1>0, SumsAreInt
<1>8. Outward(q, Source) = Through(q, S)
  <2>1. Leaves(q, S) = Total(z, D) /\ Through(q, S) = Total(v, D)
    BY Zenon DEF Leaves, Through, D, z, v
  <2> HIDE DEF D, w, v, z, c
  <2> QED
    BY <1>4, <1>5, <1>6, <1>7, <2>1
<1>9. Crossing(q, S) = Total(c, D) /\ Through(q, S) = Total(v, D)
  BY Zenon DEF Crossing, Through, D, c, v
<1>10. ASSUME NEW k \in D
       PROVE  v[k] <= c[k]
  <2>1. CASE k \in Across(q, S)
    <3>1. v[k] = q[k].flow /\ c[k] = q[k].cap
      BY <1>1, <2>1, CountedIs
    <3>2. q[k].flow <= q[k].cap
      BY DEF FN!WithinCapacity
    <3> QED
      BY ONLY <3>1, <3>2
  <2>2. CASE k \notin Across(q, S)
    <3>1. v[k] = 0 /\ c[k] = 0
      BY <2>2, CountedIs
    <3> QED
      BY ONLY <3>1
  <2> QED
    BY <2>1, <2>2
<1>11. Through(q, S) <= Crossing(q, S)
  <2> HIDE DEF D, w, v, z, c
  <2>1. Total(v, D) <= Total(c, D)
    BY <1>1, <1>2, <1>10, TotalAtMost
  <2> QED
    BY <2>1, <1>9
<1>12. ASSUME \A k \in Across(q, S) : q[k].flow = q[k].cap
       PROVE  Through(q, S) = Crossing(q, S)
  <2>1. ASSUME NEW k \in D
        PROVE  v[k] = c[k]
    <3>1. CASE k \in Across(q, S)
      <4>1. v[k] = q[k].flow /\ c[k] = q[k].cap
        BY <1>1, <3>1, CountedIs
      <4> QED
        BY <4>1, <1>12, <3>1
    <3>2. CASE k \notin Across(q, S)
      <4>1. v[k] = 0 /\ c[k] = 0
        BY <3>2, CountedIs
      <4> QED
        BY ONLY <4>1
    <3> QED
      BY <3>1, <3>2
  <2> HIDE DEF D, w, v, z, c
  <2>2. Total(v, D) = Total(c, D)
    BY <1>1, <1>2, <2>1, TotalSame
  <2> QED
    BY <2>2, <1>9
<1> QED
  BY <1>8, <1>11, <1>12

(* What flows out of the source flows into the sink. *)
LEMMA SinkTakes ==
  ASSUME NEW q, Network(q), FN!WithinCapacity(q), Balanced(q)
  PROVE  Outward(q, Sink) = -Outward(q, Source)
<1>0. q \in Seq(Pieces)
  BY DEF Network
<1>1. Leaves(q, Joint) = 0
  <2>1. LeavingSet(q, Joint) = Within(q, Joint)
    BY <1>0, PiecesAre DEF LeavingSet, Within
  <2>2. Total(Counted(DOMAIN q, Within(q, Joint), Flows(q)), DOMAIN q) = 0
    BY NothingWithin
  <2> QED
    BY <2>1, <2>2 DEF Leaves
<1>2. Leaves(q, Joint) = Leaves(q, Joint \ {Sink}) + Outward(q, Sink)
  BY <1>0, LeavesPlus, JointsAreFinite
<1>3. Leaves(q, Joint \ {Sink}) = Outward(q, Source)
  <2>1. IsFiniteSet(Joint \ {Sink}) /\ Source \in Joint \ {Sink}
    BY JointsAreFinite, SinkIsNotSource, FS_RemoveElement
  <2>2. \A y \in (Joint \ {Sink}) \ {Source} : Outward(q, y) = 0
    BY DEF Balanced
  <2> HIDE DEF Balanced
  <2> QED
    BY <1>0, <2>1, <2>2, LeavesOf
<1>4. Outward(q, Source) \in Int /\ Outward(q, Sink) \in Int
  BY <1>0, SumsAreInt
<1> QED
  BY <1>1, <1>2, <1>3, <1>4

LEMMA PartnerOf ==
  ASSUME NEW q, Network(q), NEW k \in DOMAIN q
  PROVE  FN!Partner(k) \in DOMAIN q /\ FN!Partner(k) # k
BY NetworkIs

(* Two edges change what they carry. *)
Changed(q, k, j, f) == [q EXCEPT ![k].flow = @ + f, ![j].flow = @ - f]

LEMMA FlowsChange ==
  ASSUME NEW q \in Seq(Pieces), NEW k \in DOMAIN q, NEW j \in DOMAIN q, j # k, NEW f \in Int, NEW r,
         r = Changed(q, k, j, f)
  PROVE  /\ r \in Seq(Pieces) /\ Len(r) = Len(q) /\ DOMAIN r = DOMAIN q
         /\ \A m \in DOMAIN q : r[m].from = q[m].from /\ r[m].to = q[m].to /\ r[m].cap = q[m].cap
         /\ r[k].flow = q[k].flow + f /\ r[j].flow = q[j].flow - f
         /\ \A m \in DOMAIN q : m # k /\ m # j => r[m].flow = q[m].flow
<1>0. DOMAIN q = 1..Len(q) /\ Len(q) \in Nat
  OBVIOUS
<1>1. DOMAIN r = DOMAIN q
  BY DEF Changed
<1>2. r[k] = [q[k] EXCEPT !.flow = q[k].flow + f] /\ r[j] = [q[j] EXCEPT !.flow = q[j].flow - f]
  BY DEF Changed
<1>3. \A m \in DOMAIN q : m # k /\ m # j => r[m] = q[m]
  BY DEF Changed
<1>4. q[k] \in Pieces /\ q[j] \in Pieces /\ q[k].flow \in Int /\ q[j].flow \in Int
  BY PiecesAre
<1>5. ASSUME NEW x \in Pieces, NEW g \in Int, NEW y, y = [x EXCEPT !.flow = g]
      PROVE  y \in Pieces /\ y.from = x.from /\ y.to = x.to /\ y.cap = x.cap /\ y.flow = g
  BY <1>5 DEF Pieces
<1>6. /\ r[k] \in Pieces /\ r[k].from = q[k].from /\ r[k].to = q[k].to /\ r[k].cap = q[k].cap
      /\ r[k].flow = q[k].flow + f
  <2>1. PICK g \in Int : g = q[k].flow + f
    BY <1>4
  <2>2. PICK x \in Pieces : x = q[k]
    BY <1>4
  <2>3. PICK y : y = r[k]
    OBVIOUS
  <2>4. y = [x EXCEPT !.flow = g]
    BY <1>2, <2>1, <2>2, <2>3
  <2>5. y \in Pieces /\ y.from = x.from /\ y.to = x.to /\ y.cap = x.cap /\ y.flow = g
    BY ONLY <1>5, <2>4
  <2> QED
    BY ONLY <2>1, <2>2, <2>3, <2>5
<1>7. /\ r[j] \in Pieces /\ r[j].from = q[j].from /\ r[j].to = q[j].to /\ r[j].cap = q[j].cap
      /\ r[j].flow = q[j].flow - f
  <2>1. PICK g \in Int : g = q[j].flow - f
    BY <1>4
  <2>2. PICK x \in Pieces : x = q[j]
    BY <1>4
  <2>3. PICK y : y = r[j]
    OBVIOUS
  <2>4. y = [x EXCEPT !.flow = g]
    BY <1>2, <2>1, <2>2, <2>3
  <2>5. y \in Pieces /\ y.from = x.from /\ y.to = x.to /\ y.cap = x.cap /\ y.flow = g
    BY ONLY <1>5, <2>4
  <2> QED
    BY ONLY <2>1, <2>2, <2>3, <2>5
<1>8. \A m \in DOMAIN q : r[m] \in Pieces
  BY <1>3, <1>6, <1>7, PiecesAre
<1>9. r \in Seq(Pieces) /\ Len(r) = Len(q)
  <2>1. r = [m \in 1..Len(q) |-> r[m]]
    BY <1>0, <1>1 DEF Changed
  <2>2. \A m \in 1..Len(q) : r[m] \in Pieces
    BY <1>0, <1>8
  <2> QED
    BY ONLY <2>1, <2>2, <1>0
<1>10. \A m \in DOMAIN q : r[m].from = q[m].from /\ r[m].to = q[m].to /\ r[m].cap = q[m].cap
  BY ONLY <1>3, <1>6, <1>7
<1>11. \A m \in DOMAIN q : m # k /\ m # j => r[m].flow = q[m].flow
  BY ONLY <1>3
<1> QED
  BY <1>1, <1>6, <1>7, <1>9, <1>10, <1>11

SameShape(r, q) ==
  /\ r \in Seq(Pieces) /\ q \in Seq(Pieces) /\ Len(r) = Len(q) /\ DOMAIN r = DOMAIN q
  /\ \A m \in DOMAIN q : r[m].from = q[m].from /\ r[m].to = q[m].to /\ r[m].cap = q[m].cap

LEMMA ShapeKept ==
  ASSUME NEW q, NEW r, SameShape(r, q), Network(q)
  PROVE  /\ Network(r)
         /\ \A S : Crossing(r, S) = Crossing(q, S)
         /\ \A x : From(r, x) = From(q, x)
<1>1. \A k \in DOMAIN q : FN!Partner(k) \in DOMAIN q
  BY PartnerOf
<1>2. \A k \in DOMAIN r : /\ r[FN!Partner(k)].from = r[k].to /\ r[FN!Partner(k)].to = r[k].from
                         /\ r[FN!Partner(k)].cap = r[k].cap
  BY <1>1 DEF SameShape, Network
<1>3. Network(r)
  BY <1>2 DEF SameShape, Network
<1>4. \A S : Across(r, S) = Across(q, S)
  BY DEF SameShape, Across
<1>5. Caps(r) = Caps(q) /\ DOMAIN r = DOMAIN q
  BY DEF SameShape, Caps
<1>6. \A x : From(r, x) = From(q, x)
  BY DEF SameShape, From
<1> QED
  BY <1>3, <1>4, <1>5, <1>6 DEF Crossing

(* Pushing f through edge k. *)
LEMMA PushIs ==
  ASSUME NEW q, Network(q), NEW k \in DOMAIN q, NEW f \in Int, NEW r, r = FN!Push(q, k, f)
  PROVE  /\ SameShape(r, q) /\ Network(r)
         /\ r[k].flow = q[k].flow + f /\ r[FN!Partner(k)].flow = q[FN!Partner(k)].flow - f
         /\ \A m \in DOMAIN q : m # k /\ m # FN!Partner(k) => r[m].flow = q[m].flow
<1>1. q \in Seq(Pieces)
  BY DEF Network
<1>2. PICK j \in DOMAIN q : j = FN!Partner(k) /\ j # k
  BY PartnerOf
<1>3. r = Changed(q, k, j, f)
  BY <1>2 DEF FN!Push, Changed
<1>4. /\ r \in Seq(Pieces) /\ Len(r) = Len(q) /\ DOMAIN r = DOMAIN q
      /\ \A m \in DOMAIN q : r[m].from = q[m].from /\ r[m].to = q[m].to /\ r[m].cap = q[m].cap
      /\ r[k].flow = q[k].flow + f /\ r[j].flow = q[j].flow - f
      /\ \A m \in DOMAIN q : m # k /\ m # j => r[m].flow = q[m].flow
  <2>1. PICK g \in Int : g = f
    OBVIOUS
  <2>2. r = Changed(q, k, j, g)
    BY <1>3, <2>1
  <2>3. j # k
    BY <1>2
  <2>4. /\ r \in Seq(Pieces) /\ Len(r) = Len(q) /\ DOMAIN r = DOMAIN q
        /\ \A m \in DOMAIN q : r[m].from = q[m].from /\ r[m].to = q[m].to /\ r[m].cap = q[m].cap
        /\ r[k].flow = q[k].flow + g /\ r[j].flow = q[j].flow - g
        /\ \A m \in DOMAIN q : m # k /\ m # j => r[m].flow = q[m].flow
    BY ONLY <1>1, <2>2, <2>3, FlowsChange
  <2> QED
    BY ONLY <2>1, <2>4
<1>5. SameShape(r, q)
  BY <1>1, <1>4 DEF SameShape
<1> QED
  BY <1>2, <1>4, <1>5, ShapeKept

LEMMA PushKeepsWithin ==
  ASSUME NEW q, Network(q), FN!WithinCapacity(q), NEW k \in DOMAIN q, NEW f \in Nat, NEW r,
         r = FN!Push(q, k, f), f <= FN!Room(q, k)
  PROVE  /\ FN!WithinCapacity(r)
         /\ FN!Room(r, k) = FN!Room(q, k) - f
         /\ \A m \in DOMAIN q : m # k => FN!Room(r, m) >= FN!Room(q, m)
<1>0. q \in Seq(Pieces)
  BY DEF Network
<1>1. \A m \in DOMAIN q : q[m].flow \in Int /\ q[m].cap \in Int
  BY <1>0, PiecesAre
<1>2. /\ SameShape(r, q)
      /\ r[k].flow = q[k].flow + f /\ r[FN!Partner(k)].flow = q[FN!Partner(k)].flow - f
      /\ \A m \in DOMAIN q : m # k /\ m # FN!Partner(k) => r[m].flow = q[m].flow
  BY PushIs
<1>3. \A m \in DOMAIN q : r[m].cap = q[m].cap
  BY <1>2 DEF SameShape
<1>4. DOMAIN r = DOMAIN q
  BY <1>2 DEF SameShape
<1>5. \A m \in DOMAIN q : q[m].flow <= q[m].cap /\ q[FN!Partner(m)].flow = -q[m].flow
  BY DEF FN!WithinCapacity
<1>6. PICK j \in DOMAIN q : j = FN!Partner(k) /\ j # k /\ FN!Partner(j) = k
  BY NetworkIs
<1>7. f <= q[k].cap - q[k].flow
  BY DEF FN!Room
<1>8. ASSUME NEW m \in DOMAIN q
      PROVE  r[m].flow <= r[m].cap
  <2>1. CASE m = k
    BY <1>1, <1>2, <1>3, <1>7, <2>1
  <2>2. CASE m = j
    <3>1. r[j].flow = q[j].flow - f /\ r[j].cap = q[j].cap /\ q[j].flow <= q[j].cap
      BY <1>2, <1>3, <1>5, <1>6
    <3>2. q[j].flow \in Int /\ q[j].cap \in Int /\ f \in Nat
      BY <1>1
    <3>3. r[j].flow <= r[j].cap
      BY ONLY <3>1, <3>2
    <3> QED
      BY <2>2, <3>3
  <2>3. CASE m # k /\ m # j
    BY <1>2, <1>3, <1>5, <1>6, <2>3
  <2> QED
    BY <2>1, <2>2, <2>3
<1>9. ASSUME NEW m \in DOMAIN q
      PROVE  r[FN!Partner(m)].flow = -r[m].flow
  <2>1. CASE m = k
    <3>1. r[k].flow = q[k].flow + f /\ r[j].flow = q[j].flow - f /\ q[j].flow = -q[k].flow
      BY <1>2, <1>5, <1>6
    <3>2. q[k].flow \in Int
      BY <1>1
    <3>3. r[j].flow = -r[k].flow
      BY ONLY <3>1, <3>2, f \in Nat
    <3> QED
      BY <2>1, <3>3, <1>6
  <2>2. CASE m = j
    <3>1. r[k].flow = q[k].flow + f /\ r[j].flow = q[j].flow - f /\ q[j].flow = -q[k].flow
      BY <1>2, <1>5, <1>6
    <3>2. q[k].flow \in Int
      BY <1>1
    <3>3. r[k].flow = -r[j].flow
      BY ONLY <3>1, <3>2, f \in Nat
    <3> QED
      BY <2>2, <3>3, <1>6
  <2>3. CASE m # k /\ m # j
    <3>1. PICK l \in DOMAIN q : l = FN!Partner(m) /\ FN!Partner(l) = m
      BY NetworkIs
    <3>2. l # k /\ l # j
      BY <2>3, <3>1, <1>6
    <3>3. r[l].flow = q[l].flow /\ r[m].flow = q[m].flow /\ q[l].flow = -q[m].flow
      BY <1>2, <1>5, <1>6, <2>3, <3>1, <3>2
    <3> QED
      BY <3>1, <3>3
  <2> QED
    BY <2>1, <2>2, <2>3
<1>10. FN!WithinCapacity(r)
  BY <1>4, <1>8, <1>9 DEF FN!WithinCapacity
<1>11. FN!Room(r, k) = FN!Room(q, k) - f
  <2>1. r[k].cap - r[k].flow = q[k].cap - q[k].flow - f
    <3>1. r[k].flow = q[k].flow + f /\ r[k].cap = q[k].cap /\ q[k].flow \in Int /\ q[k].cap \in Int
      BY <1>1, <1>2, <1>3
    <3> QED
      BY ONLY <3>1, f \in Nat
  <2> QED
    BY <2>1 DEF FN!Room
<1>12. ASSUME NEW m \in DOMAIN q, m # k
       PROVE  FN!Room(r, m) >= FN!Room(q, m)
  <2>1. (r[m].flow = q[m].flow \/ r[m].flow = q[m].flow - f) /\ r[m].cap = q[m].cap
    BY <1>2, <1>3, <1>12
  <2>2. q[m].flow \in Int /\ q[m].cap \in Int
    BY <1>1
  <2>3. r[m].cap - r[m].flow >= q[m].cap - q[m].flow
    BY ONLY <2>1, <2>2, f \in Nat
  <2> QED
    BY <2>3 DEF FN!Room
<1> QED
  BY <1>10, <1>11, <1>12

LEMMA PushOutward ==
  ASSUME NEW q, Network(q), NEW k \in DOMAIN q, NEW f \in Int, NEW r, r = FN!Push(q, k, f), NEW x
  PROVE  Outward(r, x) = Outward(q, x) + (IF q[k].from = x THEN f ELSE 0) - (IF q[k].to = x THEN f ELSE 0)
<1> DEFINE D == DOMAIN q
           w == Counted(D, From(q, x), Flows(q))
           v == Counted(D, From(q, x), Flows(r))
<1>0. q \in Seq(Pieces)
  BY DEF Network
<1>1. /\ SameShape(r, q)
      /\ r[k].flow = q[k].flow + f /\ r[FN!Partner(k)].flow = q[FN!Partner(k)].flow - f
      /\ \A m \in D : m # k /\ m # FN!Partner(k) => r[m].flow = q[m].flow
  BY PushIs
<1>2. PICK j \in D : j = FN!Partner(k) /\ j # k /\ q[j].from = q[k].to
  BY NetworkIs
<1>3. IsFiniteSet(D) /\ \A m \in D : Flows(q)[m] = q[m].flow /\ q[m].flow \in Int /\ Flows(q)[m] \in Int
  BY <1>0, PiecesAre
<1>4. r \in Seq(Pieces) /\ DOMAIN r = D /\ From(r, x) = From(q, x)
  BY <1>1, ShapeKept DEF SameShape
<1>5. \A m \in D : Flows(r)[m] = r[m].flow /\ r[m].flow \in Int /\ Flows(r)[m] \in Int
  BY <1>4, PiecesAre
<1>6. \A m \in D : w[m] \in Int /\ v[m] \in Int
  BY <1>3, <1>5, CountedInt
<1>7. \A m \in D \ {k, j} : v[m] = w[m]
  <2> TAKE m \in D \ {k, j}
  <2>1. Flows(r)[m] = Flows(q)[m]
    BY <1>1, <1>2, <1>3, <1>5
  <2>2. CASE m \in From(q, x)
    BY <2>1, <2>2, CountedIs
  <2>3. CASE m \notin From(q, x)
    BY <2>1, <2>3, CountedIs
  <2> QED
    BY <2>2, <2>3
<1>8. v[k] - w[k] = IF q[k].from = x THEN f ELSE 0
  <2>1. CASE q[k].from = x
    <3>1. k \in From(q, x)
      BY <2>1 DEF From
    <3>2. v[k] = r[k].flow /\ w[k] = q[k].flow
      BY <3>1, <1>3, <1>5, CountedIs
    <3>3. r[k].flow = q[k].flow + f /\ q[k].flow \in Int
      BY <1>1, <1>3
    <3>4. v[k] - w[k] = f
      BY ONLY <3>2, <3>3, f \in Int
    <3> QED
      BY <2>1, <3>4
  <2>2. CASE q[k].from # x
    <3>1. k \notin From(q, x)
      BY <2>2 DEF From
    <3>2. v[k] = 0 /\ w[k] = 0
      BY <3>1, CountedIs
    <3>4. v[k] - w[k] = 0
      BY ONLY <3>2
    <3> QED
      BY <2>2, <3>4
  <2> QED
    BY <2>1, <2>2
<1>9. v[j] - w[j] = -(IF q[k].to = x THEN f ELSE 0)
  <2>1. CASE q[k].to = x
    <3>1. j \in From(q, x)
      BY <2>1, <1>2 DEF From
    <3>2. v[j] = r[j].flow /\ w[j] = q[j].flow
      BY <3>1, <1>3, <1>5, CountedIs
    <3>3. r[j].flow = q[j].flow - f /\ q[j].flow \in Int
      BY <1>1, <1>2, <1>3
    <3>4. v[j] - w[j] = -f
      BY ONLY <3>2, <3>3, f \in Int
    <3> QED
      BY <2>1, <3>4
  <2>2. CASE q[k].to # x
    <3>1. j \notin From(q, x)
      BY <2>2, <1>2 DEF From
    <3>2. v[j] = 0 /\ w[j] = 0
      BY <3>1, CountedIs
    <3>4. v[j] - w[j] = -0
      BY ONLY <3>2
    <3> QED
      BY <2>2, <3>4
  <2> QED
    BY <2>1, <2>2
<1>10. Total(v, D) = Total(w, D) + (v[j] - w[j]) + (v[k] - w[k])
  <2>1. \A m \in D \ {j, k} : v[m] = w[m]
    BY <1>7
  <2>2. PICK S, W, V : S = D /\ W = w /\ V = v
    OBVIOUS
  <2>3. PICK y \in S, z \in S : y = j /\ z = k
    BY <2>2
  <2> HIDE DEF D, w, v
  <2>4. /\ y # z /\ IsFiniteSet(S) /\ \A m \in S : W[m] \in Int /\ V[m] \in Int
    BY <1>2, <1>3, <1>6, <2>2, <2>3
  <2>5. \A m \in S \ {y, z} : V[m] = W[m]
    BY <2>1, <2>2, <2>3
  <2>6. Total(V, S) = Total(W, S) + (V[y] - W[y]) + (V[z] - W[z])
    BY ONLY <2>4, <2>5, TotalOfTwo
  <2> QED
    BY ONLY <2>2, <2>3, <2>6
<1>11. Outward(r, x) = Total(v, D) /\ Outward(q, x) = Total(w, D)
  BY <1>4 DEF Outward
<1>12. Outward(q, x) \in Int
  BY <1>0, SumsAreInt
<1>13. PICK g \in Int, h \in Int : g = (IF q[k].from = x THEN f ELSE 0) /\ h = (IF q[k].to = x THEN f ELSE 0)
  OBVIOUS
<1> HIDE DEF D, w, v
<1>14. Outward(r, x) = Outward(q, x) + g - h
  <2>1. v[k] - w[k] = g /\ v[j] - w[j] = -h
    BY <1>8, <1>9, <1>13
  <2> QED
    BY ONLY <2>1, <1>10, <1>11, <1>12, g \in Int, h \in Int
<1> QED
  BY <1>13, <1>14

(* Two more edges without flow. *)
LEMMA AddIs ==
  ASSUME NEW q, Network(q), FN!WithinCapacity(q),
         NEW x \in Joint, NEW y \in Joint, NEW c \in Nat, NEW r, r = FN!AddEdge(q, x, y, c)
  PROVE  /\ Network(r) /\ FN!WithinCapacity(r)
         /\ \A v : Outward(r, v) = Outward(q, v)
         /\ \A S : Crossing(r, S) >= Crossing(q, S)
<1> DEFINE e1 == FN!Edge(x, y, c)
           e2 == FN!Edge(y, x, c)
<1>0. q \in Seq(Pieces)
  BY DEF Network
<1>1. /\ e1 \in Pieces /\ e1.from = x /\ e1.to = y /\ e1.cap = c /\ e1.flow = 0
      /\ e2 \in Pieces /\ e2.from = y /\ e2.to = x /\ e2.cap = c /\ e2.flow = 0
  BY DEF FN!Edge, Pieces
<1>2. PICK l \in Nat : l = Len(q) /\ \E z \in Nat : l = 2 * z
  BY <1>0, PiecesAre DEF Network
<1>3. PICK z \in Nat : l = 2 * z
  BY <1>2
<1> HIDE DEF e1, e2
<1>4. /\ r \in Seq(Pieces) /\ DOMAIN q = 1..l
      /\ Len(r) = l + 2 /\ DOMAIN r = 1..l + 2
      /\ \A k \in 1..l : r[k] = q[k]
      /\ r[l + 1] = e1 /\ r[l + 2] = e2
  <2>1. r = q \o <<e1, e2>>
    BY DEF FN!AddEdge, e1, e2
  <2>2. PICK v \in Pieces, w \in Pieces : v = e1 /\ w = e2
    BY <1>1
  <2>3. r = q \o <<v, w>>
    BY <2>1, <2>2
  <2>4. /\ q \o <<v, w>> \in Seq(Pieces)
        /\ Len(q) \in Nat /\ DOMAIN q = 1..Len(q)
        /\ Len(q \o <<v, w>>) = Len(q) + 2 /\ DOMAIN (q \o <<v, w>>) = 1..Len(q) + 2
        /\ \A k \in 1..Len(q) : (q \o <<v, w>>)[k] = q[k]
        /\ (q \o <<v, w>>)[Len(q) + 1] = v /\ (q \o <<v, w>>)[Len(q) + 2] = w
    BY ONLY <1>0, TwoMore, v \in Pieces, w \in Pieces
  <2>5. l = Len(q)
    BY <1>2
  <2> QED
    BY ONLY <2>2, <2>3, <2>4, <2>5
<1>5. /\ FN!Partner(l + 1) = l + 2 /\ FN!Partner(l + 2) = l + 1
      /\ \A k \in 1..l : FN!Partner(k) \in 1..l
  <2>1. FN!Partner(l + 1) = l + 2 /\ FN!Partner(l + 2) = l + 1
    BY <1>3 DEF FN!Partner
  <2> QED
    BY <2>1, <1>3, PartnerIs
<1>6. \A k \in 1..l + 2 : k \in 1..l \/ k = l + 1 \/ k = l + 2
  OBVIOUS
<1>7. Network(r)
  <2>1. Len(r) = 2 * (z + 1) /\ z + 1 \in Nat
    BY <1>3, <1>4
  <2>2. ASSUME NEW k \in DOMAIN r
        PROVE  /\ r[FN!Partner(k)].from = r[k].to /\ r[FN!Partner(k)].to = r[k].from
               /\ r[FN!Partner(k)].cap = r[k].cap
    <3>1. CASE k \in 1..l
      <4>1. /\ q[FN!Partner(k)].from = q[k].to /\ q[FN!Partner(k)].to = q[k].from
            /\ q[FN!Partner(k)].cap = q[k].cap
        BY <3>1, <1>4 DEF Network
      <4> QED
        BY <3>1, <4>1, <1>4, <1>5
    <3>2. CASE k = l + 1
      BY <3>2, <1>1, <1>4, <1>5
    <3>3. CASE k = l + 2
      BY <3>3, <1>1, <1>4, <1>5
    <3> QED
      BY <1>4, <1>6, <3>1, <3>2, <3>3
  <2> QED
    BY <1>4, <2>1, <2>2 DEF Network
<1>8. FN!WithinCapacity(r)
  <2>1. ASSUME NEW k \in DOMAIN r
        PROVE  r[k].flow <= r[k].cap /\ r[FN!Partner(k)].flow = -r[k].flow
    <3>1. CASE k \in 1..l
      <4>1. q[k].flow <= q[k].cap /\ q[FN!Partner(k)].flow = -q[k].flow
        BY <3>1, <1>4 DEF FN!WithinCapacity
      <4> QED
        BY <3>1, <4>1, <1>4, <1>5
    <3>2. CASE k = l + 1
      BY <3>2, <1>1, <1>4, <1>5
    <3>3. CASE k = l + 2
      BY <3>3, <1>1, <1>4, <1>5
    <3> QED
      BY <1>4, <1>6, <3>1, <3>2, <3>3
  <2> QED
    BY <2>1 DEF FN!WithinCapacity
<1>9. PICK D, C : D = 1..l + 2 /\ C = 1..l
  OBVIOUS
<1>10. IsFiniteSet(D) /\ IsFiniteSet(C)
  BY <1>9, FS_Interval
<1>11. PICK j \in D, k \in D : j = l + 2 /\ k = l + 1 /\ j # k /\ C = (D \ {j}) \ {k}
  <2>1. l + 2 \in D /\ l + 1 \in D /\ l + 2 # l + 1
    BY <1>9
  <2>2. C = (D \ {l + 2}) \ {l + 1}
    BY <1>9, <1>6
  <2> QED
    BY <2>1, <2>2
<1>12. ASSUME NEW w, NEW v, \A m \in D : w[m] \in Int, \A m \in C : w[m] = v[m]
       PROVE  Total(w, D) = Total(v, C) + w[k] + w[j]
  <2>1. Total(w, D) = Total(w, (D \ {j}) \ {k}) + w[k] + w[j]
    <3>1. j # k
      BY <1>11
    <3> QED
      BY ONLY <1>10, <1>12, <3>1, TotalLessTwo
  <2>2. Total(w, C) = Total(v, C)
    <3>1. \A m \in C : v[m] \in Int /\ w[m] \in Int
      BY <1>11, <1>12
    <3> QED
      BY ONLY <3>1, <1>10, <1>12, TotalSame
  <2> QED
    BY <2>1, <2>2, <1>11
<1>13. /\ \A m \in C : /\ Flows(r)[m] = Flows(q)[m] /\ Caps(r)[m] = Caps(q)[m]
                       /\ m \in DOMAIN q /\ m \in DOMAIN r
       /\ \A m \in D : Flows(r)[m] \in Int /\ Caps(r)[m] \in Nat /\ Caps(r)[m] \in Int
       /\ DOMAIN q = C /\ DOMAIN r = D
  <2>1. DOMAIN q = C /\ DOMAIN r = D
    BY <1>4, <1>9
  <2>2. \A m \in C : m \in D /\ r[m] = q[m]
    BY <1>4, <1>9
  <2>3. \A m \in C : Flows(r)[m] = Flows(q)[m] /\ Caps(r)[m] = Caps(q)[m]
    BY <2>1, <2>2 DEF Flows, Caps
  <2>4. \A m \in D : Flows(r)[m] \in Int /\ Caps(r)[m] \in Nat /\ Caps(r)[m] \in Int
    BY <2>1, <1>4, PiecesAre
  <2> QED
    BY <2>1, <2>2, <2>3, <2>4
<1>14. Flows(r)[j] = 0 /\ Flows(r)[k] = 0
  BY <1>1, <1>4, <1>11, <1>13 DEF Flows
<1>15. ASSUME NEW v
       PROVE  Outward(r, v) = Outward(q, v)
  <2> DEFINE w == Counted(D, From(r, v), Flows(r))
             u == Counted(C, From(q, v), Flows(q))
  <2>1. \A m \in D : w[m] \in Int
    BY <1>13, CountedInt
  <2>2. \A m \in C : m \in From(r, v) <=> m \in From(q, v)
    BY <1>4, <1>9, <1>13 DEF From
  <2>3. \A m \in C : w[m] = u[m]
    BY <2>2, <1>13 DEF Counted
  <2>4. w[j] = 0 /\ w[k] = 0
    BY <1>14 DEF Counted
  <2>5. Outward(r, v) = Total(w, D) /\ Outward(q, v) = Total(u, C)
    BY <1>13 DEF Outward
  <2>6. Outward(q, v) \in Int
    BY <1>0, SumsAreInt
  <2> HIDE DEF w, u
  <2>7. Total(w, D) = Total(u, C) + w[k] + w[j]
    BY ONLY <1>12, <2>1, <2>3
  <2> QED
    BY ONLY <2>4, <2>5, <2>6, <2>7
<1>16. ASSUME NEW S
       PROVE  Crossing(r, S) >= Crossing(q, S)
  <2> DEFINE w == Counted(D, Across(r, S), Caps(r))
             u == Counted(C, Across(q, S), Caps(q))
  <2>1. \A m \in D : w[m] \in Int /\ w[m] >= 0
    BY <1>13 DEF Counted
  <2>2. \A m \in C : m \in Across(r, S) <=> m \in Across(q, S)
    BY <1>4, <1>9, <1>13 DEF Across
  <2>3. \A m \in C : w[m] = u[m]
    BY <2>2, <1>13 DEF Counted
  <2>5. Crossing(r, S) = Total(w, D) /\ Crossing(q, S) = Total(u, C)
    BY <1>13 DEF Crossing
  <2>6. Crossing(q, S) \in Nat
    BY <1>0, CrossingIsNat
  <2> HIDE DEF w, u
  <2>7. Total(w, D) = Total(u, C) + w[k] + w[j]
    BY ONLY <1>12, <2>1, <2>3
  <2>8. w[j] \in Int /\ w[k] \in Int /\ w[j] >= 0 /\ w[k] >= 0
    BY <2>1
  <2> QED
    BY ONLY <2>5, <2>6, <2>7, <2>8
<1> QED
  BY <1>7, <1>8, <1>15, <1>16

LEMMA NoPipes ==
  /\ Network(<<>>) /\ FN!WithinCapacity(<<>>)
  /\ \A v : Outward(<<>>, v) = 0
<1>1. <<>> \in Seq(Pieces) /\ Len(<<>>) = 2 * 0 /\ DOMAIN <<>> = {} /\ 0 \in Nat
  OBVIOUS
<1>2. Network(<<>>) /\ FN!WithinCapacity(<<>>)
  BY <1>1 DEF Network, FN!WithinCapacity
<1>3. ASSUME NEW v
      PROVE  Outward(<<>>, v) = 0
  <2>1. IsFiniteSet(DOMAIN <<>>)
    BY <1>1, PiecesAre
  <2>2. \A k \in DOMAIN <<>> : Counted(DOMAIN <<>>, From(<<>>, v), Flows(<<>>))[k] = 0
    BY <1>1
  <2> QED
    BY <2>1, <2>2, TotalZero DEF Outward
<1> QED
  BY <1>2, <1>3

-----------------------------------------------------------------------------
(* The edges from x, in order. *)
Listed(m, P) ==
  CHOOSE f : f = [k \in 0..m |-> IF k = 0 THEN <<>> ELSE IF k \in P THEN Append(f[k - 1], k) ELSE f[k - 1]]

LEMMA ListedIs ==
  ASSUME NEW m \in Nat, NEW P
  PROVE  /\ Listed(m, P)[0] = <<>>
         /\ \A k \in 1..m : Listed(m, P)[k] = IF k \in P THEN Append(Listed(m, P)[k - 1], k)
                                              ELSE Listed(m, P)[k - 1]
<1>0. PICK T, b : T = Seq(1..m) /\ b = <<>>
  OBVIOUS
<1> DEFINE g == [z \in (1..m) \X T |-> IF z[1] \in P THEN Append(z[2], z[1]) ELSE z[2]]
           Is(f) == f = [k \in 0..m |-> IF k = 0 THEN b
                                        ELSE IF k \in P THEN Append(f[k - 1], k) ELSE f[k - 1]]
<1>1. \A t \in T, k \in 1..m : g[<<k, t>>] \in T /\ g[<<k, t>>] = IF k \in P THEN Append(t, k) ELSE t
  <2> TAKE t \in T, k \in 1..m
  <2>1. g[<<k, t>>] = IF k \in P THEN Append(t, k) ELSE t
    OBVIOUS
  <2>2. Append(t, k) \in T
    <3>1. PICK D : D = 1..m
      OBVIOUS
    <3>2. t \in Seq(D) /\ k \in D
      BY <1>0, <3>1
    <3>3. Append(t, k) \in Seq(D)
      BY ONLY <3>2
    <3> QED
      BY <1>0, <3>1, <3>3
  <2> HIDE DEF g
  <2> QED
    BY <2>1, <2>2
<1> HIDE DEF g, Is
<1>2. PICK f : Steps(f, m, b, g)
  <2>1. b \in T /\ \A t \in T, k \in 1..m : g[<<k, t>>] \in T
    BY <1>0, <1>1
  <2> QED
    BY <2>1, StepsExist
<1>3. f[0] = b /\ \A k \in 1..m : f[k] = g[<<k, f[k - 1]>>]
  <2>1. \A k \in 0..m : f[k] = IF k = 0 THEN b ELSE g[<<k, f[k - 1]>>]
    BY <1>2, Zenon DEF Steps
  <2>2. 0 \in 0..m /\ \A k \in 1..m : k \in 0..m /\ k # 0
    OBVIOUS
  <2> QED
    BY <2>1, <2>2, Zenon
<1>4. \A k \in 0..m : f[k] \in T
  <2>1. b \in T /\ \A t \in T, k \in 1..m : g[<<k, t>>] \in T
    BY <1>0, <1>1
  <2>2. f[0] = b /\ \A k \in 1..m : f[k - 1] \in T => f[k] = g[<<k, f[k - 1]>>]
    BY <1>3
  <2> QED
    BY ONLY <2>1, <2>2, StepsIn, m \in Nat
<1>5. Is(f)
  <2>1. ASSUME NEW k \in 0..m
        PROVE  f[k] = IF k = 0 THEN b ELSE IF k \in P THEN Append(f[k - 1], k) ELSE f[k - 1]
    <3>1. CASE k = 0
      BY <3>1, <1>3
    <3>2. CASE k # 0
      <4>1. k \in 1..m /\ k - 1 \in 0..m
        BY <3>2
      <4>2. f[k] = g[<<k, f[k - 1]>>] /\ f[k - 1] \in T
        BY <4>1, <1>3, <1>4
      <4> QED
        BY <3>2, <4>1, <4>2, <1>1
    <3> QED
      BY <3>1, <3>2
  <2>2. f = [k \in 0..m |-> f[k]]
    BY <1>2, Zenon DEF Steps
  <2> QED
    BY <2>1, <2>2, Zenon DEF Is
<1>6. PICK h : h = Listed(m, P)
  OBVIOUS
<1>7. Is(h)
  BY <1>0, <1>5, <1>6, Zenon DEF Listed, Is
<1>8. \A k \in 0..m : h[k] = IF k = 0 THEN b ELSE IF k \in P THEN Append(h[k - 1], k) ELSE h[k - 1]
  BY <1>7, Zenon DEF Is
<1>9. 0 \in 0..m /\ \A k \in 1..m : k \in 0..m /\ k # 0
  OBVIOUS
<1> QED
  BY <1>0, <1>6, <1>8, <1>9, Zenon

(* The list holds the elements of P. *)
LEMMA ListedHolds ==
  ASSUME NEW m \in Nat, NEW P
  PROVE  /\ Listed(m, P)[m] \in Seq(1..m)
         /\ \A j \in 1..Len(Listed(m, P)[m]) : Listed(m, P)[m][j] \in P
         /\ \A k \in 1..m : k \in P => \E j \in 1..Len(Listed(m, P)[m]) : Listed(m, P)[m][j] = k
<1> DEFINE Good(q, k) == /\ q \in Seq(1..m)
                         /\ \A j \in 1..Len(q) : q[j] \in P
                         /\ \A x \in 1..k : x \in P => \E j \in 1..Len(q) : q[j] = x
           B == {k \in 0..m : ~Good(Listed(m, P)[k], k)}
<1>1. B = {}
  <2> SUFFICES ASSUME B # {} PROVE FALSE
    OBVIOUS
  <2>0. B \in SUBSET Nat
    OBVIOUS
  <2>1. PICK k \in B : \A j \in B : k <= j
    <3> HIDE DEF B
    <3> QED
      BY <2>0, Smallest
  <2>2. k \in 0..m /\ ~Good(Listed(m, P)[k], k)
    BY <2>1
  <2>3. k # 0
    <3>1. Good(<<>>, 0)
      OBVIOUS
    <3> HIDE DEF Good
    <3> QED
      BY <2>2, <3>1, ListedIs
  <2>4. k \in 1..m /\ k - 1 \in 0..m /\ k - 1 \notin B
    <3>1. k \in 1..m /\ k - 1 \in 0..m /\ k - 1 < k
      BY <2>2, <2>3
    <3> HIDE DEF B
    <3> QED
      BY <2>1, <3>1
  <2>5. PICK q : q = Listed(m, P)[k - 1] /\ Good(q, k - 1)
    BY <2>4
  <2>6. PICK r : r = Listed(m, P)[k]
    OBVIOUS
  <2>7. r = IF k \in P THEN Append(q, k) ELSE q
    BY <2>4, <2>5, <2>6, ListedIs
  <2>8. CASE k \in P
    <3>1. q \in Seq(1..m) /\ Len(q) \in Nat
      BY <2>5
    <3>2. r = Append(q, k) /\ k \in 1..m
      BY <2>4, <2>7, <2>8
    <3>3. /\ r \in Seq(1..m) /\ Len(r) = Len(q) + 1 /\ r[Len(q) + 1] = k
          /\ \A j \in 1..Len(q) : r[j] = q[j]
      BY ONLY <3>1, <3>2
    <3>4. \A j \in 1..Len(r) : r[j] \in P
      <4> TAKE j \in 1..Len(r)
      <4>1. j \in 1..Len(q) \/ j = Len(q) + 1
        BY <3>1, <3>3
      <4> QED
        BY <4>1, <3>3, <2>5, <2>8
    <3>5. \A x \in 1..k : x \in P => \E j \in 1..Len(r) : r[j] = x
      <4> TAKE x \in 1..k
      <4> HAVE x \in P
      <4>1. CASE x = k
        <5>1. Len(q) + 1 \in 1..Len(r)
          BY <3>1, <3>3
        <5>2. r[Len(q) + 1] = x
          BY <4>1, <3>3
        <5> QED
          BY <5>1, <5>2
      <4>2. CASE x # k
        <5>1. x \in 1..k - 1
          BY <4>2, <2>4
        <5>2. PICK j \in 1..Len(q) : q[j] = x
          BY <5>1, <2>5
        <5>3. j \in 1..Len(r) /\ r[j] = x
          BY <5>2, <3>1, <3>3
        <5> QED
          BY <5>3
      <4> QED
        BY <4>1, <4>2
    <3> QED
      BY <3>3, <3>4, <3>5, <2>2, <2>6
  <2>9. CASE k \notin P
    <3>1. r = q
      BY <2>7, <2>9
    <3>2. \A x \in 1..k : x \in P => x \in 1..k - 1
      BY <2>4, <2>9
    <3>3. \A x \in 1..k : x \in P => \E j \in 1..Len(q) : q[j] = x
      BY <3>2, <2>5
    <3>4. q \in Seq(1..m) /\ \A j \in 1..Len(q) : q[j] \in P
      BY <2>5
    <3>5. Good(q, k)
      BY ONLY <3>3, <3>4
    <3> HIDE DEF Good
    <3> QED
      BY <3>1, <3>5, <2>2, <2>6
  <2> QED
    BY <2>8, <2>9
<1>2. m \in 0..m /\ m \notin B
  BY <1>1
<1>3. Good(Listed(m, P)[m], m)
  BY <1>2
<1> QED
  BY <1>3

LEMMA LeavingIs ==
  ASSUME NEW q \in Seq(Pieces), NEW x
  PROVE  FN!Leaving(q, x) = Listed(Len(q), From(q, x))[Len(q)]
<1> DEFINE m == Len(q)
           P == From(q, x)
           Is(f) == f = [k \in 0..m |-> IF k = 0 THEN <<>>
                                        ELSE IF q[k].from = x THEN Append(f[k - 1], k) ELSE f[k - 1]]
<1>1. \A k \in 1..m : k \in P <=> q[k].from = x
  BY PiecesAre DEF From
<1>2. ASSUME NEW f
      PROVE  Is(f) <=> f = [k \in 0..m |-> IF k = 0 THEN <<>>
                                           ELSE IF k \in P THEN Append(f[k - 1], k) ELSE f[k - 1]]
  <2>1. ASSUME NEW k \in 0..m
        PROVE  (IF k = 0 THEN <<>> ELSE IF q[k].from = x THEN Append(f[k - 1], k) ELSE f[k - 1])
               = (IF k = 0 THEN <<>> ELSE IF k \in P THEN Append(f[k - 1], k) ELSE f[k - 1])
    <3>0. k = 0 \/ k \in 1..m
      BY PiecesAre
    <3> HIDE DEF P
    <3> QED
      BY <3>0, <1>1, Zenon
  <2> HIDE DEF m, P
  <2> QED
    BY <2>1, Zenon
<1>3. (CHOOSE f : Is(f)) = Listed(m, P)
  <2>1. \A f : Is(f) <=> f = [k \in 0..m |-> IF k = 0 THEN <<>>
                                             ELSE IF k \in P THEN Append(f[k - 1], k) ELSE f[k - 1]]
    BY <1>2, Zenon
  <2> HIDE DEF Is, m, P
  <2> QED
    BY <2>1, Zenon DEF Listed
<1>4. FN!Leaving(q, x) = (CHOOSE f : Is(f))[m]
  BY Zenon DEF FN!Leaving
<1> HIDE DEF Is
<1> QED
  BY <1>3, <1>4, Zenon

LEMMA LeavingHolds ==
  ASSUME NEW q \in Seq(Pieces), NEW x
  PROVE  /\ FN!Leaving(q, x) \in Seq(DOMAIN q) /\ Len(FN!Leaving(q, x)) \in Nat
         /\ DOMAIN FN!Leaving(q, x) = 1..Len(FN!Leaving(q, x))
         /\ \A j \in 1..Len(FN!Leaving(q, x)) : /\ FN!Leaving(q, x)[j] \in DOMAIN q
                                                /\ q[FN!Leaving(q, x)[j]].from = x
         /\ \A k \in DOMAIN q : q[k].from = x => \E j \in 1..Len(FN!Leaving(q, x)) : FN!Leaving(q, x)[j] = k
<1>1. PICK o : o = FN!Leaving(q, x)
  OBVIOUS
<1>2. Len(q) \in Nat /\ DOMAIN q = 1..Len(q)
  BY PiecesAre
<1>3. o = Listed(Len(q), From(q, x))[Len(q)]
  BY <1>1, LeavingIs
<1>4. /\ o \in Seq(1..Len(q))
      /\ \A j \in 1..Len(o) : o[j] \in From(q, x)
      /\ \A k \in 1..Len(q) : k \in From(q, x) => \E j \in 1..Len(o) : o[j] = k
  BY <1>2, <1>3, ListedHolds
<1>5. o \in Seq(DOMAIN q) /\ Len(o) \in Nat /\ DOMAIN o = 1..Len(o)
  BY <1>2, <1>4
<1>6. \A j \in 1..Len(o) : o[j] \in DOMAIN q /\ q[o[j]].from = x
  BY <1>4 DEF From
<1>7. \A k \in DOMAIN q : q[k].from = x => \E j \in 1..Len(o) : o[j] = k
  BY <1>2, <1>4 DEF From
<1> QED
  BY <1>1, <1>5, <1>6, <1>7

LEMMA LeavingKept ==
  ASSUME NEW q, NEW r, SameShape(r, q), Network(q)
  PROVE  \A x : FN!Leaving(r, x) = FN!Leaving(q, x)
<1>1. \A x : From(r, x) = From(q, x)
  BY ShapeKept
<1>2. Len(r) = Len(q) /\ r \in Seq(Pieces) /\ q \in Seq(Pieces)
  BY DEF SameShape
<1> QED
  BY <1>1, <1>2, LeavingIs

-----------------------------------------------------------------------------
(* Edmonds-Karp.                                                           *)

LEMMA EKIsNet ==
  ASSUME NEW q
  PROVE  /\ \A k, f : EK!Push(q, k, f) = FN!Push(q, k, f)
         /\ \A k : EK!Room(q, k) = FN!Room(q, k)
         /\ \A x : EK!Leaving(q, x) = FN!Leaving(q, x)
         /\ \A x, y, c : EK!AddEdge(q, x, y, c) = FN!AddEdge(q, x, y, c)
         /\ EK!WithinCapacity(q) <=> FN!WithinCapacity(q)
<1>1. \A k, f : EK!Push(q, k, f) = FN!Push(q, k, f)
  BY DEF EK!Push, FN!Push, EK!Partner, FN!Partner
<1>2. \A k : EK!Room(q, k) = FN!Room(q, k)
  BY DEF EK!Room, FN!Room
<1>3. \A x : EK!Leaving(q, x) = FN!Leaving(q, x)
  BY Zenon DEF EK!Leaving, FN!Leaving
<1>4. \A x, y, c : EK!AddEdge(q, x, y, c) = FN!AddEdge(q, x, y, c)
  BY DEF EK!AddEdge, FN!AddEdge, EK!Edge, FN!Edge
<1>5. EK!WithinCapacity(q) <=> FN!WithinCapacity(q)
  BY DEF EK!WithinCapacity, FN!WithinCapacity, EK!Partner, FN!Partner
<1> QED
  BY <1>1, <1>2, <1>3, <1>4, <1>5

LEMMA EKFoldsAre ==
  ASSUME NEW q
  PROVE  /\ \A x : EK!Outflow(q, x) = FN!Outflow(q, x)
         /\ \A V, x, y : EK!MinCut(q, V, x, y) = FN!MinCut(q, V, x, y)
<1>1. \A x : EK!Outflow(q, x) = FN!Outflow(q, x)
  BY Zenon DEF EK!Outflow, EK!FoldSeq, EK!FoldFunction, EK!FoldFunctionOnSet, EK!MapThenFoldSet,
               FN!Outflow, FN!FoldSeq, FN!FoldFunction, FN!FoldFunctionOnSet, FN!MapThenFoldSet
<1>2. \A V, x, y : EK!MinCut(q, V, x, y) = FN!MinCut(q, V, x, y)
  BY Zenon DEF EK!MinCut, EK!FoldSeq, EK!FoldFunction, EK!FoldFunctionOnSet, EK!MapThenFoldSet, EK!Min,
               FN!MinCut, FN!FoldSeq, FN!FoldFunction, FN!FoldFunctionOnSet, FN!MapThenFoldSet, FN!Min
<1> QED
  BY <1>1, <1>2

LEMMA EKMinIs ==
  ASSUME NEW x \in Nat, NEW y \in Nat
  PROVE  EK!Min({x, y}) = IF x <= y THEN x ELSE y
<1>1. PICK m : m = EK!Min({x, y})
  OBVIOUS
<1>2. \E z \in {x, y} : \A v \in {x, y} : z <= v
  OBVIOUS
<1>3. m \in {x, y} /\ \A v \in {x, y} : m <= v
  BY <1>1, <1>2, Zenon DEF EK!Min
<1> QED
  BY <1>1, <1>3

-----------------------------------------------------------------------------
(* The search leaves a tree: every vertex that was reached has an edge     *)
(* from one reached before (by the rank r) and with no less flow.          *)
Tree(q, A, P, r) ==
  \A x \in Joint : A[x] # 0 /\ x # Source =>
    /\ P[x] \in DOMAIN q /\ q[P[x]].to = x
    /\ A[q[P[x]].from] # 0 /\ A[x] <= A[q[P[x]].from]
    /\ r[q[P[x]].from] < r[x]

(* The edges to the vertices of X have room for what arrives there. *)
Roomy(q, A, P, X) == \A x \in X : A[x] # 0 /\ x # Source => A[x] <= FN!Room(q, P[x])

Explored(q, A, P) == \E r \in [Joint -> Nat] : Tree(q, A, P, r) /\ Roomy(q, A, P, Joint)

(* Whatever was reached, except for E, has been looked at. *)
Closed(q, A, E) ==
  \A k \in DOMAIN q : A[q[k].from] # 0 /\ q[k].from \notin E => A[q[k].to] # 0 \/ q[k].cap <= q[k].flow

Augmentable(q, A, P, v) ==
  /\ A[Sink] # 0 /\ A[v] # 0 /\ A[Sink] <= A[v]
  /\ \E r \in [Joint -> Nat] : Tree(q, A, P, r) /\ Roomy(q, A, P, {x \in Joint : r[x] <= r[v]})

Searches(q, A, P, Q) ==
  /\ A[Source] # 0 /\ Explored(q, A, P)
  /\ \A j \in DOMAIN Q : A[Q[j]] # 0
  /\ Closed(q, A, Waiting(Q))

EKTypes ==
  /\ Network(edges) /\ FN!WithinCapacity(edges)
  /\ a \in [Joint -> Nat] /\ p \in [Joint -> Nat]
  /\ pc \in {"idle", "search", "augment", "returned"}
  /\ queue \in Seq(Joint) /\ i \in Joint
  /\ flow \in Int /\ total \in Int

(* What flows out of every vertex but the sink. *)
EKValue ==
  \A x \in Joint \ {Sink} :
    Outward(edges, x) = (IF x = Source THEN total + flow ELSE 0)
                        + (IF pc = "augment" /\ x = i THEN a[Sink] ELSE 0)

EKInv ==
  /\ EKTypes
  /\ EKValue
  /\ pc \in {"idle", "returned"} => flow = 0
  /\ pc = "search" => Searches(edges, a, p, queue)
  /\ pc = "augment" => Augmentable(edges, a, p, i)
  /\ EK!FlowMaximal

-----------------------------------------------------------------------------
States == [a : [Joint -> Nat], p : [Joint -> Nat], queue : Seq(Joint)]

(* What the loop does with one edge. *)
Visit(x, st, k) ==
  IF st.a[edges[k].to] = 0 /\ edges[k].cap > edges[k].flow
    THEN [a |-> [st.a EXCEPT ![edges[k].to] = EK!Min({st.a[x], EK!Room(edges, k)})],
          p |-> [st.p EXCEPT ![edges[k].to] = k],
          queue |-> Append(st.queue, edges[k].to)]
    ELSE st

Enters(x, st, k, t, y, f) ==
  /\ y = edges[k].to /\ FN!Room(edges, k) \in Nat /\ FN!Room(edges, k) > 0
  /\ f <= st.a[x] /\ f <= FN!Room(edges, k) /\ (f = st.a[x] \/ f = FN!Room(edges, k))
  /\ t.a = [st.a EXCEPT ![y] = f]
  /\ t.p = [st.p EXCEPT ![y] = k]
  /\ t.queue = Append(st.queue, y)

LEMMA VisitIs ==
  ASSUME EKTypes, NEW x \in Joint, NEW st \in States, NEW k \in DOMAIN edges
  PROVE  /\ Visit(x, st, k) \in States
         /\ ~(st.a[edges[k].to] = 0 /\ edges[k].cap > edges[k].flow) => Visit(x, st, k) = st
         /\ st.a[edges[k].to] = 0 /\ edges[k].cap > edges[k].flow =>
              \E y \in Joint, f \in Nat : Enters(x, st, k, Visit(x, st, k), y, f)
<1>0. edges \in Seq(Pieces)
  BY DEF EKTypes, Network
<1>1. k \in Nat /\ edges[k].to \in Joint /\ edges[k].cap \in Nat /\ edges[k].flow \in Int
  BY <1>0, PiecesAre
<1>2. st.a \in [Joint -> Nat] /\ st.p \in [Joint -> Nat] /\ st.queue \in Seq(Joint)
  BY DEF States
<1>3. CASE ~(st.a[edges[k].to] = 0 /\ edges[k].cap > edges[k].flow)
  <2>1. Visit(x, st, k) = st
    BY <1>3, Zenon DEF Visit
  <2> QED
    BY <1>3, <2>1
<1>4. CASE st.a[edges[k].to] = 0 /\ edges[k].cap > edges[k].flow
  <2>1. PICK y \in Joint : y = edges[k].to
    BY <1>1
  <2>2. PICK m \in Nat : m = FN!Room(edges, k) /\ m > 0
    BY <1>1, <1>4 DEF FN!Room
  <2>3. EK!Room(edges, k) = m
    BY <2>2, EKIsNet
  <2>4. PICK j \in Nat : j = st.a[x]
    BY <1>2
  <2>5. EK!Min({j, m}) = IF j <= m THEN j ELSE m
    BY EKMinIs
  <2>6. PICK f \in Nat : f = EK!Min({j, m}) /\ f <= j /\ f <= m /\ (f = j \/ f = m)
    BY <2>5
  <2>7. Visit(x, st, k) = [a |-> [st.a EXCEPT ![y] = f], p |-> [st.p EXCEPT ![y] = k],
                           queue |-> Append(st.queue, y)]
    BY <1>4, <2>1, <2>3, <2>4, <2>6, Zenon DEF Visit
  <2>8. [st.a EXCEPT ![y] = f] \in [Joint -> Nat] /\ [st.p EXCEPT ![y] = k] \in [Joint -> Nat]
    BY <1>1, <1>2
  <2>9. Append(st.queue, y) \in Seq(Joint)
    BY <1>2
  <2>10. Visit(x, st, k) \in States
    BY <2>7, <2>8, <2>9 DEF States
  <2>11. /\ Visit(x, st, k).a = [st.a EXCEPT ![y] = f]
         /\ Visit(x, st, k).p = [st.p EXCEPT ![y] = k]
         /\ Visit(x, st, k).queue = Append(st.queue, y)
    BY <2>7
  <2>12. Enters(x, st, k, Visit(x, st, k), y, f)
    BY <2>1, <2>2, <2>4, <2>6, <2>11 DEF Enters
  <2> QED
    BY <1>4, <2>10, <2>12
<1> QED
  BY <1>3, <1>4

LEMMA WaitingMore ==
  ASSUME NEW Q \in Seq(Joint), NEW y \in Joint
  PROVE  Waiting(Append(Q, y)) = Waiting(Q) \cup {y}
<1>1. PICK R : R = Append(Q, y)
  OBVIOUS
<1>2. /\ DOMAIN Q = 1..Len(Q) /\ Len(Q) \in Nat /\ DOMAIN R = 1..Len(Q) + 1 /\ R[Len(Q) + 1] = y
      /\ \A j \in 1..Len(Q) : R[j] = Q[j]
  BY <1>1
<1>3. \A j \in 1..Len(Q) + 1 : j \in 1..Len(Q) \/ j = Len(Q) + 1
  BY <1>2
<1>4. \A j \in 1..Len(Q) : j \in 1..Len(Q) + 1
  BY <1>2
<1>5. Len(Q) + 1 \in 1..Len(Q) + 1
  BY <1>2
<1>6. Waiting(R) = Waiting(Q) \cup {y}
  BY <1>2, <1>3, <1>4, <1>5 DEF Waiting
<1> QED
  BY <1>1, <1>6

(* The search of the edges of x, in a state on the way. *)
Partly(x, st) ==
  /\ st \in States
  /\ st.a[Source] # 0 /\ st.a[x] # 0
  /\ Explored(edges, st.a, st.p)
  /\ \A v \in Waiting(st.queue) : st.a[v] # 0
  /\ Closed(edges, st.a, Waiting(st.queue) \cup {x})

LEMMA VisitKeeps ==
  ASSUME EKTypes, NEW x \in Joint, NEW st, Partly(x, st),
         NEW k \in DOMAIN edges, edges[k].from = x
  PROVE  /\ Partly(x, Visit(x, st, k))
         /\ \A v \in Joint : st.a[v] # 0 => Visit(x, st, k).a[v] # 0
         /\ Visit(x, st, k).a[edges[k].to] # 0 \/ edges[k].cap <= edges[k].flow
<1>0. edges \in Seq(Pieces)
  BY DEF EKTypes, Network
<1>1. /\ k \in Nat /\ edges[k].to \in Joint /\ edges[k].cap \in Nat /\ edges[k].flow \in Int
      /\ \A m \in DOMAIN edges : edges[m].from \in Joint /\ edges[m].to \in Joint
  BY <1>0, PiecesAre
<1>2. st \in States /\ st.a \in [Joint -> Nat] /\ st.p \in [Joint -> Nat] /\ st.queue \in Seq(Joint)
  BY DEF States, Partly
<1>3. CASE ~(st.a[edges[k].to] = 0 /\ edges[k].cap > edges[k].flow)
  <2>1. Visit(x, st, k) = st
    BY <1>2, <1>3, VisitIs
  <2>2. st.a[edges[k].to] # 0 \/ edges[k].cap <= edges[k].flow
    BY <1>1, <1>3
  <2> QED
    BY <2>1, <2>2
<1>4. CASE st.a[edges[k].to] = 0 /\ edges[k].cap > edges[k].flow
  <2>1. PICK t : t = Visit(x, st, k)
    OBVIOUS
  <2>r. PICK y \in Joint, f \in Nat : Enters(x, st, k, t, y, f)
    BY <1>2, <1>4, <2>1, VisitIs
  <2>2. /\ y = edges[k].to /\ FN!Room(edges, k) \in Nat /\ FN!Room(edges, k) > 0
        /\ f <= st.a[x] /\ f <= FN!Room(edges, k) /\ (f = st.a[x] \/ f = FN!Room(edges, k))
        /\ t.a = [st.a EXCEPT ![y] = f]
        /\ t.p = [st.p EXCEPT ![y] = k]
        /\ t.queue = Append(st.queue, y)
    BY <2>r DEF Enters
  <2>3. t \in States
    BY <1>2, <2>1, VisitIs
  <2>4. f # 0 /\ st.a[x] # 0 /\ st.a[Source] # 0 /\ st.a[y] = 0
    BY <1>4, <2>2 DEF Partly
  <2>5. /\ t.a[y] = f /\ \A v \in Joint : v # y => t.a[v] = st.a[v]
        /\ t.p[y] = k /\ \A v \in Joint : v # y => t.p[v] = st.p[v]
    BY <1>2, <2>2
  <2>6. \A v \in Joint : st.a[v] # 0 => t.a[v] # 0 /\ v # y /\ t.a[v] = st.a[v]
    BY <2>4, <2>5
  <2>7. Explored(edges, t.a, t.p)
    <3>1. PICK r \in [Joint -> Nat] : Tree(edges, st.a, st.p, r) /\ Roomy(edges, st.a, st.p, Joint)
      BY DEF Partly, Explored
    <3>g. PICK g \in Nat : g = r[x] + 1
      OBVIOUS
    <3>2. PICK e \in [Joint -> Nat] : e = [r EXCEPT ![y] = g]
      OBVIOUS
    <3>3. e[y] = r[x] + 1 /\ \A v \in Joint : v # y => e[v] = r[v]
      BY <3>2, <3>g
    <3>4. x # y /\ e[x] = r[x] /\ r[x] \in Nat
      BY <2>4, <3>3
    <3>5. ASSUME NEW z \in Joint, t.a[z] # 0, z # Source
          PROVE  /\ t.p[z] \in DOMAIN edges /\ edges[t.p[z]].to = z
                 /\ t.a[edges[t.p[z]].from] # 0 /\ t.a[z] <= t.a[edges[t.p[z]].from]
                 /\ e[edges[t.p[z]].from] < e[z]
                 /\ t.a[z] <= FN!Room(edges, t.p[z])
      <4>1. CASE z = y
        <5>1. t.p[z] = k /\ t.a[z] = f /\ t.a[x] = st.a[x] /\ t.a[x] # 0
          BY <2>4, <2>5, <3>4, <4>1
        <5>2. e[x] < e[z]
          BY <3>3, <3>4, <4>1
        <5> QED
          BY <5>1, <5>2, <4>1, <2>2
      <4>2. CASE z # y
        <5>1. t.p[z] = st.p[z] /\ t.a[z] = st.a[z] /\ e[z] = r[z] /\ st.a[z] # 0
          BY <2>5, <3>3, <3>5, <4>2
        <5>2. /\ st.p[z] \in DOMAIN edges /\ edges[st.p[z]].to = z
              /\ st.a[edges[st.p[z]].from] # 0 /\ st.a[z] <= st.a[edges[st.p[z]].from]
              /\ r[edges[st.p[z]].from] < r[z]
          BY <3>1, <3>5, <5>1 DEF Tree
        <5>3. st.a[z] <= FN!Room(edges, st.p[z])
          BY <3>1, <3>5, <5>1 DEF Roomy
        <5>4. PICK w \in Joint : w = edges[st.p[z]].from
          BY <5>2, <1>1
        <5>5. w # y /\ t.a[w] = st.a[w] /\ e[w] = r[w]
          BY <5>2, <5>4, <2>6, <3>3
        <5> QED
          BY <5>1, <5>2, <5>3, <5>4, <5>5
      <4> QED
        BY <4>1, <4>2
    <3>6. Tree(edges, t.a, t.p, e)
      BY <3>5 DEF Tree
    <3>7. Roomy(edges, t.a, t.p, Joint)
      BY <3>5 DEF Roomy
    <3> QED
      BY <3>6, <3>7 DEF Explored
  <2>8. Waiting(t.queue) = Waiting(st.queue) \cup {y}
    BY <1>2, <2>2, WaitingMore
  <2>9. \A v \in Waiting(t.queue) : t.a[v] # 0
    <3>1. \A v \in Waiting(st.queue) : st.a[v] # 0 /\ v \in Joint
      BY <1>2 DEF Partly, Waiting
    <3> QED
      BY <3>1, <2>4, <2>5, <2>6, <2>8
  <2>10. Closed(edges, t.a, Waiting(t.queue) \cup {x})
    <3> SUFFICES ASSUME NEW m \in DOMAIN edges, t.a[edges[m].from] # 0,
                        edges[m].from \notin Waiting(t.queue) \cup {x}
                 PROVE  t.a[edges[m].to] # 0 \/ edges[m].cap <= edges[m].flow
      BY DEF Closed
    <3>1. PICK v \in Joint, w \in Joint : v = edges[m].from /\ w = edges[m].to
      BY <1>1
    <3>2. v # y /\ v \notin Waiting(st.queue) \cup {x}
      BY <3>1, <2>8
    <3>3. st.a[v] # 0
      BY <3>1, <3>2, <2>5
    <3>4. st.a[w] # 0 \/ edges[m].cap <= edges[m].flow
      BY <3>1, <3>2, <3>3 DEF Partly, Closed
    <3> QED
      BY <3>1, <3>4, <2>6
  <2>11. t.a[x] # 0 /\ t.a[Source] # 0
    BY <2>4, <2>6, JointsAreFinite
  <2>12. Partly(x, t)
    BY <2>3, <2>7, <2>9, <2>10, <2>11 DEF Partly
  <2> QED
    BY <2>1, <2>2, <2>4, <2>5, <2>6, <2>12
<1> QED
  BY <1>3, <1>4

LEMMA EKMaxIs ==
  ASSUME NEW U
  PROVE  EK!Max(U) = Highest(U)
BY Zenon DEF EK!Max, Highest

(* The loop over the edges of x, one edge after the other. *)
Scans(h, x, b, o) == h[0] = b /\ \A j \in 1..Len(o) : h[j] = Visit(x, h[j - 1], o[j])

LEMMA ScanIs ==
  ASSUME EKTypes, NEW x \in Joint, queue # <<>>,
         NEW b, b = [a |-> a, p |-> p, queue |-> Tail(queue)],
         NEW o, o = FN!Leaving(edges, x)
  PROVE  /\ b \in States
         /\ \E h : Scans(h, x, b, o) /\ EK!Scan(x) = h[Len(o)]
<1> DEFINE l == EK!Leaving(edges, x)
           c == [a |-> a, p |-> p, queue |-> Tail(queue)]
           S == DOMAIN o
           m == Len(o)
           Unfolded(f) == f = [U \in SUBSET (DOMAIN l) |->
                                 IF U = {} THEN c
                                 ELSE Visit(x, f[U \ {EK!Max(U)}], l[EK!Max(U)])]
           g == [z \in (1..m) \X States |-> Visit(x, z[2], o[z[1]])]
           Folds(f) == f = [U \in SUBSET S |->
                              IF U = {} THEN b
                              ELSE Visit(x, f[U \ {EK!Max(U)}], o[EK!Max(U)])]
<1>0. edges \in Seq(Pieces)
  BY DEF EKTypes, Network
<1>1. b \in States
  <2>1. Tail(queue) \in Seq(Joint)
    BY DEF EKTypes
  <2> QED
    BY <2>1 DEF States, EKTypes
<1>2. m \in Nat /\ S = 1..m /\ \A j \in 1..m : o[j] \in DOMAIN edges
  BY <1>0, LeavingHolds
<1>3. \A t \in States, k \in 1..m : g[<<k, t>>] = Visit(x, t, o[k]) /\ g[<<k, t>>] \in States
  BY <1>2, VisitIs
<1> HIDE DEF g, m, S, Folds, Unfolded
<1>4. PICK f : FoldsLeft(f, m, b, g) /\ \A U \in SUBSET (1..m) : f[U] \in States
  <2>1. \A t \in States, k \in 1..m : g[<<k, t>>] \in States
    BY <1>3
  <2> QED
    BY <1>1, <1>2, <2>1, LeftFold
<1>5. Folds(f)
  <2>1. ASSUME NEW U \in SUBSET (1..m)
        PROVE  f[U] = IF U = {} THEN b ELSE Visit(x, f[U \ {EK!Max(U)}], o[EK!Max(U)])
    <3>1. f[U] = IF U = {} THEN b ELSE g[<<Highest(U), f[U \ {Highest(U)}]>>]
      BY <1>4, Zenon DEF FoldsLeft
    <3>2. CASE U = {}
      BY <3>1, <3>2, Zenon
    <3>3. CASE U # {}
      <4>1. PICK k \in U : k = Highest(U)
        BY <1>2, <3>3, HighestChooses
      <4>2. k = EK!Max(U) /\ k \in 1..m /\ f[U \ {k}] \in States
        BY <1>4, <4>1, EKMaxIs
      <4>3. g[<<k, f[U \ {k}]>>] = Visit(x, f[U \ {k}], o[k])
        BY <1>3, <4>2
      <4> QED
        BY <3>1, <3>3, <4>1, <4>2, <4>3, Zenon
    <3> QED
      BY <3>2, <3>3
  <2>2. f = [U \in SUBSET (1..m) |-> f[U]]
    BY <1>4, Zenon DEF FoldsLeft
  <2> QED
    BY <1>2, <2>1, <2>2, Zenon DEF Folds
<1>6. PICK h : h = CHOOSE e : Folds(e)
  OBVIOUS
<1>7. Folds(h)
  BY <1>5, <1>6, Zenon
<1>8. EK!Scan(x) = h[S]
  <2>1. l = o /\ c = b
    BY EKIsNet
  <2>2. EK!Scan(x) = (CHOOSE e : Unfolded(e))[DOMAIN l]
    BY Zenon DEF EK!Scan, EK!FoldLeft, EK!MapThenFoldSet, Visit, Unfolded
  <2> HIDE DEF l, c
  <2>3. ASSUME NEW e
        PROVE  Unfolded(e) <=> Folds(e)
    BY <2>1, Zenon DEF Unfolded, Folds, S
  <2>4. (CHOOSE e : Unfolded(e)) = (CHOOSE e : Folds(e))
    BY <2>3, Zenon
  <2> QED
    BY <2>1, <2>2, <2>4, <1>6, Zenon DEF S
<1>9. PICK e : e = [k \in 0..m |-> h[1..k]]
  OBVIOUS
<1>10. \A U \in SUBSET (1..m) : h[U] = IF U = {} THEN b ELSE Visit(x, h[U \ {EK!Max(U)}], o[EK!Max(U)])
  BY <1>2, <1>7, Zenon DEF Folds
<1>11. e[0] = b
  <2>1. e[0] = h[{}]
    <3>1. 0 \in 0..m /\ 1..0 = {}
      BY <1>2
    <3> QED
      BY <3>1, <1>9
  <2> QED
    BY <2>1, <1>10
<1>12. ASSUME NEW j \in 1..m
       PROVE  e[j] = Visit(x, e[j - 1], o[j])
  <2>1. e[j] = h[1..j] /\ e[j - 1] = h[1..(j - 1)]
    <3>1. j \in 0..m /\ j - 1 \in 0..m
      BY <1>2
    <3> QED
      BY <3>1, <1>9
  <2>2. EK!Max(1..j) = j /\ (1..j) \ {j} = 1..(j - 1) /\ 1..j # {} /\ 1..j \in SUBSET (1..m)
    BY <1>2, EKMaxIs, HighestOfInterval
  <2>3. h[1..j] = Visit(x, h[1..(j - 1)], o[j])
    BY <1>10, <2>2, Zenon
  <2> QED
    BY <2>1, <2>3
<1>13. EK!Scan(x) = e[m]
  <2>1. m \in 0..m
    BY <1>2
  <2> QED
    BY <2>1, <1>2, <1>8, <1>9
<1>14. Scans(e, x, b, o)
  BY <1>11, <1>12 DEF Scans, m
<1> QED
  BY <1>1, <1>13, <1>14 DEF m

-----------------------------------------------------------------------------
LEMMA TailIs ==
  ASSUME NEW Q \in Seq(Joint), Q # <<>>
  PROVE  /\ Tail(Q) \in Seq(Joint) /\ Head(Q) \in Joint /\ Head(Q) = Q[1] /\ 1 \in DOMAIN Q
         /\ Waiting(Q) = Waiting(Tail(Q)) \cup {Head(Q)}
<1>1. PICK R : R = Tail(Q)
  OBVIOUS
<1>2. Len(Q) \in Nat /\ Len(Q) # 0 /\ DOMAIN Q = 1..Len(Q) /\ R \in Seq(Joint) /\ Head(Q) = Q[1]
  BY <1>1
<1>3. /\ DOMAIN R = 1..Len(Q) - 1
      /\ \A j \in 1..Len(Q) - 1 : R[j] = Q[j + 1]
  BY <1>1, <1>2
<1>4. 1 \in DOMAIN Q /\ Q[1] \in Joint
  BY <1>2
<1>5. \A j \in 1..Len(Q) : j = 1 \/ (j - 1 \in 1..Len(Q) - 1 /\ (j - 1) + 1 = j)
  BY <1>2
<1>6. \A j \in 1..Len(Q) - 1 : j + 1 \in 1..Len(Q)
  BY <1>2
<1>7. ASSUME NEW v \in Waiting(Q)
      PROVE  v \in Waiting(R) \cup {Q[1]}
  <2>1. PICK j \in 1..Len(Q) : v = Q[j]
    BY <1>2 DEF Waiting
  <2>2. CASE j = 1
    BY <2>1, <2>2
  <2>3. CASE j # 1
    <3>1. PICK k \in 1..Len(Q) - 1 : k + 1 = j
      BY <1>5, <2>3
    <3>2. v = R[k] /\ k \in DOMAIN R
      BY <1>3, <2>1, <3>1
    <3> QED
      BY <3>2 DEF Waiting
  <2> QED
    BY <2>2, <2>3
<1>8. \A v \in Waiting(R) \cup {Q[1]} : v \in Waiting(Q)
  BY <1>2, <1>3, <1>4, <1>6 DEF Waiting
<1>9. Waiting(Q) = Waiting(R) \cup {Q[1]}
  BY <1>7, <1>8
<1> QED
  BY <1>1, <1>2, <1>4, <1>9

(* After the loop the vertex has been looked at. *)
LEMMA ScanKeeps ==
  ASSUME EKTypes, queue # <<>>, Searches(edges, a, p, queue), NEW t, t = EK!Scan(Head(queue))
  PROVE  t \in States /\ Searches(edges, t.a, t.p, t.queue)
<1>0. edges \in Seq(Pieces)
  BY DEF EKTypes, Network
<1>1. PICK x \in Joint : x = Head(queue) /\ Waiting(queue) = Waiting(Tail(queue)) \cup {x} /\ x = queue[1] /\ 1 \in DOMAIN queue
  BY TailIs DEF EKTypes
<1>2. PICK o, b : o = FN!Leaving(edges, x) /\ b = [a |-> a, p |-> p, queue |-> Tail(queue)]
  OBVIOUS
<1>3. b \in States
  BY <1>2, ScanIs
<1>4. PICK h : Scans(h, x, b, o) /\ EK!Scan(x) = h[Len(o)]
  BY <1>2, ScanIs
<1>5. Partly(x, b)
  <2>1. b.a = a /\ b.p = p /\ b.queue = Tail(queue)
    BY <1>2
  <2>2. \A v \in Waiting(queue) : a[v] # 0
    BY DEF Searches, Waiting
  <2>3. Closed(edges, a, Waiting(Tail(queue)) \cup {x})
    BY <1>1 DEF Searches
  <2>4. a[Source] # 0 /\ Explored(edges, a, p)
    BY DEF Searches
  <2> QED
    BY <1>1, <1>3, <2>1, <2>2, <2>3, <2>4 DEF Partly
<1>6. /\ Len(o) \in Nat
      /\ \A j \in 1..Len(o) : o[j] \in DOMAIN edges /\ edges[o[j]].from = x
      /\ \A k \in DOMAIN edges : edges[k].from = x => \E j \in 1..Len(o) : o[j] = k
  <2>1. PICK q \in Seq(Pieces) : q = edges
    BY <1>0
  <2>2. o = FN!Leaving(q, x)
    BY <1>2, <2>1
  <2>3. /\ Len(FN!Leaving(q, x)) \in Nat
        /\ \A j \in 1..Len(FN!Leaving(q, x)) : /\ FN!Leaving(q, x)[j] \in DOMAIN q
                                               /\ q[FN!Leaving(q, x)[j]].from = x
        /\ \A k \in DOMAIN q : q[k].from = x => \E j \in 1..Len(FN!Leaving(q, x)) : FN!Leaving(q, x)[j] = k
    BY ONLY q \in Seq(Pieces), LeavingHolds
  <2> QED
    BY <2>1, <2>2, <2>3
<1> DEFINE Done(e, l) == \A j \in 1..l : e.a[edges[o[j]].to] # 0 \/ edges[o[j]].cap <= edges[o[j]].flow
           B == {j \in 0..Len(o) : ~(Partly(x, h[j]) /\ Done(h[j], j))}
<1>7. B = {}
  <2> SUFFICES ASSUME B # {} PROVE FALSE
    OBVIOUS
  <2>0. B \in SUBSET Nat
    OBVIOUS
  <2>1. PICK j \in B : \A k \in B : j <= k
    <3> HIDE DEF B
    <3> QED
      BY <2>0, Smallest
  <2>2. j \in 0..Len(o) /\ ~(Partly(x, h[j]) /\ Done(h[j], j))
    BY <2>1
  <2>3. j # 0
    <3>1. h[0] = b
      BY <1>4 DEF Scans
    <3>2. Done(b, 0)
      OBVIOUS
    <3> HIDE DEF Done
    <3> QED
      BY <2>2, <3>1, <3>2, <1>5
  <2>4. j \in 1..Len(o) /\ j - 1 \in 0..Len(o) /\ j - 1 \notin B
    <3>1. j \in 1..Len(o) /\ j - 1 \in 0..Len(o) /\ j - 1 < j
      BY <1>6, <2>2, <2>3
    <3> HIDE DEF B
    <3> QED
      BY <2>1, <3>1
  <2>5. Partly(x, h[j - 1]) /\ Done(h[j - 1], j - 1)
    BY <2>4
  <2>r. PICK st : st = h[j - 1]
    OBVIOUS
  <2>s. PICK k \in DOMAIN edges : k = o[j] /\ edges[k].from = x
    BY <1>6, <2>4
  <2>6. st = h[j - 1] /\ k = o[j] /\ edges[k].from = x
    BY <2>r, <2>s
  <2>7. h[j] = Visit(x, st, k)
    BY <1>4, <2>4, <2>6 DEF Scans
  <2>8. /\ Partly(x, Visit(x, st, k))
        /\ \A v \in Joint : st.a[v] # 0 => Visit(x, st, k).a[v] # 0
        /\ Visit(x, st, k).a[edges[k].to] # 0 \/ edges[k].cap <= edges[k].flow
    <3>1. Partly(x, st)
      BY <2>5, <2>6
    <3> QED
      BY <3>1, <2>6, VisitKeeps
  <2>9. PICK u : u = Visit(x, st, k)
    OBVIOUS
  <2>10. Done(u, j)
    <3> TAKE z \in 1..j
    <3>1. CASE z = j
      BY <3>1, <2>6, <2>8, <2>9
    <3>2. CASE z # j
      <4>1. z \in 1..j - 1 /\ z \in 1..Len(o)
        BY <3>2, <2>4
      <4>2. PICK c \in DOMAIN edges : c = o[z]
        BY <4>1, <1>6
      <4>3. st.a[edges[c].to] # 0 \/ edges[c].cap <= edges[c].flow
        BY <4>1, <4>2, <2>5, <2>6
      <4>4. edges[c].to \in Joint
        BY <1>0, PiecesAre
      <4> QED
        BY <4>2, <4>3, <4>4, <2>8, <2>9
    <3> QED
      BY <3>1, <3>2
  <2> HIDE DEF Done
  <2> QED
    BY <2>2, <2>7, <2>8, <2>9, <2>10
<1>8. Len(o) \in 0..Len(o)
  BY <1>6
<1>9. Partly(x, t) /\ Done(t, Len(o))
  <2>1. Len(o) \notin B
    BY <1>7
  <2>2. Partly(x, h[Len(o)]) /\ Done(h[Len(o)], Len(o))
    BY <2>1, <1>8
  <2> HIDE DEF Done
  <2> QED
    BY <2>2, <1>1, <1>4
<1>10. t \in States /\ t.queue \in Seq(Joint) /\ t.a[Source] # 0 /\ Explored(edges, t.a, t.p)
  BY <1>9 DEF Partly, States
<1>11. \A j \in DOMAIN t.queue : t.a[t.queue[j]] # 0
  BY <1>9 DEF Partly, Waiting
<1>12. Closed(edges, t.a, Waiting(t.queue))
  <2> SUFFICES ASSUME NEW k \in DOMAIN edges, t.a[edges[k].from] # 0,
                      edges[k].from \notin Waiting(t.queue)
               PROVE  t.a[edges[k].to] # 0 \/ edges[k].cap <= edges[k].flow
    BY DEF Closed
  <2>1. CASE edges[k].from = x
    <3>1. PICK j \in 1..Len(o) : o[j] = k
      BY <1>6, <2>1
    <3> QED
      BY <3>1, <1>9
  <2>2. CASE edges[k].from # x
    <3>1. edges[k].from \notin Waiting(t.queue) \cup {x}
      BY <2>2
    <3> QED
      BY <3>1, <1>9 DEF Partly, Closed
  <2> QED
    BY <2>1, <2>2
<1> QED
  BY <1>10, <1>11, <1>12 DEF Searches

LEMMA EKINFIsNat == EK!INF \in Nat /\ EK!INF # 0
BY DEF EK!INF

LEMMA EndsAreJoints == Source \in Joint /\ Sink \in Joint /\ Source # Sink
BY JointsAreFinite, SinkIsNotSource

(* A search starts at the source, from which everything is left to do. *)
LEMMA StartSearches ==
  ASSUME NEW q, Network(q), NEW A, A = [x \in Joint |-> IF x = Source THEN EK!INF ELSE 0],
         NEW P \in [Joint -> Nat]
  PROVE  A \in [Joint -> Nat] /\ <<Source>> \in Seq(Joint) /\ Searches(q, A, P, <<Source>>)
<1>1. /\ A \in [Joint -> Nat] /\ <<Source>> \in Seq(Joint) /\ A[Source] # 0
      /\ \A x \in Joint : x # Source => A[x] = 0
  BY EKINFIsNat, EndsAreJoints
<1>2. Explored(q, A, P)
  <2>1. PICK r \in [Joint -> Nat] : r = [x \in Joint |-> 0]
    OBVIOUS
  <2>2. Tree(q, A, P, r) /\ Roomy(q, A, P, Joint)
    BY <1>1 DEF Tree, Roomy
  <2> QED
    BY <2>2 DEF Explored
<1>3. PICK Q : Q = <<Source>>
  OBVIOUS
<1>4. DOMAIN Q = {1} /\ Q[1] = Source
  BY <1>3
<1>5. Closed(q, A, Waiting(Q))
  <2>1. Source \in Waiting(Q)
    BY <1>4 DEF Waiting
  <2>2. \A k \in DOMAIN q : q[k].from \in Joint
    BY PiecesAre DEF Network
  <2> QED
    BY <1>1, <2>1, <2>2 DEF Closed
<1>6. \A j \in DOMAIN Q : A[Q[j]] # 0
  BY <1>1, <1>4
<1> QED
  BY <1>1, <1>2, <1>3, <1>5, <1>6 DEF Searches

LEMMA EKInit == EK!Init => EKInv
<1> SUFFICES ASSUME EK!Init PROVE EKInv
  OBVIOUS
<1> USE DEF EK!Init
<1>1. Network(edges) /\ FN!WithinCapacity(edges) /\ \A v : Outward(edges, v) = 0
  BY NoPipes
<1>2. EKTypes
  BY <1>1, EndsAreJoints DEF EKTypes
<1>3. EKValue
  BY <1>1 DEF EKValue
<1> QED
  BY <1>2, <1>3 DEF EKInv, EK!FlowMaximal

LEMMA EKAddPipe ==
  ASSUME EKInv, NEW e \in Pipes, EK!AddPipe(e)
  PROVE  EKInv'
<1>1. PICK x \in Joint, y \in Joint, c \in Nat : x = e[1] /\ y = e[2] /\ c = e[3]
  BY PipesAreEdges
<1>2. edges' = FN!AddEdge(edges, x, y, c)
  BY <1>1, EKIsNet DEF EK!AddPipe
<1>3. PICK r : r = edges'
  OBVIOUS
<1>4. Network(r) /\ FN!WithinCapacity(r) /\ \A v : Outward(r, v) = Outward(edges, v)
  <2>1. Network(edges) /\ FN!WithinCapacity(edges) /\ r = FN!AddEdge(edges, x, y, c)
    BY <1>2, <1>3 DEF EKInv, EKTypes
  <2> QED
    BY <2>1, AddIs
<1>5. /\ pc \in {"idle", "returned"} /\ pc' = "idle"
      /\ a' = a /\ p' = p /\ queue' = queue /\ i' = i /\ flow' = flow /\ total' = total
  BY DEF EK!AddPipe
<1>6. EKTypes'
  BY <1>3, <1>4, <1>5 DEF EKInv, EKTypes
<1>7. EKValue'
  <2>1. \A x0 \in Joint \ {Sink} : Outward(edges, x0) = (IF x0 = Source THEN total + flow ELSE 0) + 0
    BY <1>5 DEF EKInv, EKValue
  <2> QED
    BY <2>1, <1>3, <1>4, <1>5 DEF EKValue
<1> QED
  BY <1>5, <1>6, <1>7 DEF EKInv, EK!FlowMaximal

LEMMA EKClear ==
  ASSUME EKInv, EK!Clear
  PROVE  EKInv'
<1>1. /\ pc \in {"idle", "returned"} /\ pc' = "idle" /\ edges' = <<>> /\ total' = 0
      /\ a' = a /\ p' = p /\ queue' = queue /\ i' = i /\ flow' = flow
  BY DEF EK!Clear
<1>2. Network(edges') /\ FN!WithinCapacity(edges') /\ \A v : Outward(edges', v) = 0
  BY <1>1, NoPipes
<1>3. flow = 0
  BY <1>1 DEF EKInv
<1>4. EKTypes'
  BY <1>1, <1>2 DEF EKInv, EKTypes
<1>5. EKValue'
  BY <1>1, <1>2, <1>3 DEF EKValue
<1> QED
  BY <1>1, <1>3, <1>4, <1>5 DEF EKInv, EK!FlowMaximal

LEMMA EKMaxFlow ==
  ASSUME EKInv, EK!MaxFlow
  PROVE  EKInv'
<1>1. /\ pc \in {"idle", "returned"} /\ pc' = "search" /\ edges' = edges /\ total' = total
      /\ a' = [x \in Joint |-> IF x = Source THEN EK!INF ELSE 0] /\ queue' = <<Source>>
      /\ p' = p /\ i' = i /\ flow' = 0
  BY DEF EK!MaxFlow, EK!StartSearch
<1>2. flow = 0 /\ EKTypes /\ EKValue
  BY <1>1 DEF EKInv
<1>3. a' \in [Joint -> Nat] /\ queue' \in Seq(Joint) /\ Searches(edges, a', p, queue')
  BY <1>1, <1>2, StartSearches DEF EKTypes
<1>4. EKTypes'
  BY <1>1, <1>2, <1>3 DEF EKTypes
<1>5. EKValue'
  BY <1>1, <1>2 DEF EKValue
<1> QED
  BY <1>1, <1>3, <1>4, <1>5 DEF EKInv, EK!FlowMaximal

LEMMA EKExpand ==
  ASSUME EKInv, EK!Expand
  PROVE  EKInv'
<1>1. PICK t : t = EK!Scan(Head(queue))
  OBVIOUS
<1>2. /\ pc = "search" /\ queue # <<>> /\ a' = t.a /\ p' = t.p /\ queue' = t.queue
      /\ edges' = edges /\ pc' = pc /\ i' = i /\ flow' = flow /\ total' = total
  BY <1>1 DEF EK!Expand
<1>3. EKTypes /\ EKValue /\ Searches(edges, a, p, queue)
  BY <1>2 DEF EKInv
<1>4. t \in States /\ Searches(edges, t.a, t.p, t.queue)
  BY <1>1, <1>2, <1>3, ScanKeeps
<1>5. EKTypes'
  BY <1>2, <1>3, <1>4 DEF EKTypes, States
<1>6. EKValue'
  BY <1>2, <1>3 DEF EKValue
<1> QED
  BY <1>2, <1>4, <1>5, <1>6 DEF EKInv, EK!FlowMaximal

LEMMA EKReached ==
  ASSUME EKInv, EK!Reached
  PROVE  EKInv'
<1>1. /\ pc = "search" /\ a[Sink] # 0 /\ pc' = "augment" /\ i' = Sink
      /\ edges' = edges /\ a' = a /\ p' = p /\ queue' = queue /\ flow' = flow /\ total' = total
  BY DEF EK!Reached
<1>2. EKTypes /\ EKValue /\ Searches(edges, a, p, queue)
  BY <1>1 DEF EKInv
<1>3. PICK r \in [Joint -> Nat] : Tree(edges, a, p, r) /\ Roomy(edges, a, p, Joint)
  BY <1>2 DEF Searches, Explored
<1>4. Roomy(edges, a, p, {x \in Joint : r[x] <= r[Sink]})
  BY <1>3 DEF Roomy
<1>5. a[Sink] <= a[Sink]
  BY <1>2, EndsAreJoints DEF EKTypes
<1>6. Augmentable(edges, a, p, Sink)
  BY <1>1, <1>3, <1>4, <1>5 DEF Augmentable
<1>7. EKTypes'
  BY <1>1, <1>2, EndsAreJoints DEF EKTypes
<1>8. EKValue'
  BY <1>1, <1>2 DEF EKValue
<1> QED
  BY <1>1, <1>6, <1>7, <1>8 DEF EKInv, EK!FlowMaximal

LEMMA EKAugment ==
  ASSUME EKInv, EK!Augment
  PROVE  EKInv'
<1>0. EKTypes /\ EKValue /\ Augmentable(edges, a, p, i) /\ pc = "augment" /\ i # Source
  BY DEF EKInv, EK!Augment
<1>1. edges \in Seq(Pieces) /\ Network(edges) /\ FN!WithinCapacity(edges) /\ i \in Joint
      /\ a \in [Joint -> Nat]
  BY <1>0 DEF EKTypes, Network
<1>2. PICK r \in [Joint -> Nat] : Tree(edges, a, p, r) /\ Roomy(edges, a, p, {x \in Joint : r[x] <= r[i]})
  BY <1>0 DEF Augmentable
<1>3. PICK k \in DOMAIN edges : k = p[i]
  BY <1>0, <1>1, <1>2 DEF Tree, Augmentable
<1>4. PICK y \in Joint : y = edges[k].from
  BY <1>1, PiecesAre
<1>5. edges[k].to = i /\ a[y] # 0 /\ a[i] <= a[y] /\ r[y] < r[i]
  BY <1>0, <1>1, <1>2, <1>3, <1>4 DEF Tree, Augmentable
<1>6. a[i] <= FN!Room(edges, k)
  BY <1>0, <1>1, <1>2, <1>3 DEF Roomy, Augmentable
<1>7. PICK f \in Nat : f = a[Sink]
  BY <1>1, EndsAreJoints
<1>8. FN!Room(edges, k) \in Int
  BY <1>1, PiecesAre DEF FN!Room
<1>9. f # 0 /\ f <= a[i] /\ f <= FN!Room(edges, k) /\ f <= a[y]
  <2>1. f # 0 /\ f <= a[i]
    BY <1>0, <1>7 DEF Augmentable
  <2>2. a[i] \in Nat /\ a[y] \in Nat
    BY <1>1
  <2> QED
    BY <2>1, <2>2, <1>5, <1>6, <1>8
<1>10. PICK q : q = FN!Push(edges, k, f)
  OBVIOUS
<1>11. /\ edges' = q /\ i' = y
       /\ a' = a /\ p' = p /\ pc' = pc /\ queue' = queue /\ flow' = flow /\ total' = total
  BY <1>3, <1>4, <1>7, <1>10, EKIsNet DEF EK!Augment
<1>12. /\ SameShape(q, edges) /\ Network(q) /\ FN!WithinCapacity(q)
       /\ \A m \in DOMAIN edges : m # k => FN!Room(q, m) >= FN!Room(edges, m)
  <2>1. PICK e : e = edges
    OBVIOUS
  <2>2. PICK c \in DOMAIN e : c = k
    BY <2>1
  <2>3. Network(e) /\ FN!WithinCapacity(e) /\ q = FN!Push(e, c, f) /\ f <= FN!Room(e, c) /\ f \in Int
    BY <2>1, <2>2, <1>1, <1>9, <1>10
  <2>4. SameShape(q, e) /\ Network(q)
    BY ONLY <2>3, c \in DOMAIN e, PushIs
  <2>5. FN!WithinCapacity(q) /\ \A m \in DOMAIN e : m # c => FN!Room(q, m) >= FN!Room(e, m)
    BY ONLY <2>3, c \in DOMAIN e, f \in Nat, PushKeepsWithin
  <2> QED
    BY ONLY <2>1, <2>2, <2>4, <2>5
<1>13. \A x : Outward(q, x) = Outward(edges, x) + (IF y = x THEN f ELSE 0) - (IF i = x THEN f ELSE 0)
  <2> TAKE x
  <2>1. Outward(q, x) = Outward(edges, x) + (IF edges[k].from = x THEN f ELSE 0)
                        - (IF edges[k].to = x THEN f ELSE 0)
    BY <1>1, <1>10, PushOutward
  <2> QED
    BY <2>1, <1>4, <1>5
<1>14. EKTypes'
  BY <1>0, <1>11, <1>12 DEF EKTypes
<1>15. EKValue'
  <2>1. ASSUME NEW x \in Joint \ {Sink}
        PROVE  Outward(q, x) = (IF x = Source THEN total + flow ELSE 0) + (IF x = y THEN f ELSE 0)
    <3>1. Outward(edges, x) = (IF x = Source THEN total + flow ELSE 0) + (IF x = i THEN f ELSE 0)
      BY <1>0, <1>7 DEF EKValue
    <3>2. PICK z \in Int : z = IF x = Source THEN total + flow ELSE 0
      BY <1>0 DEF EKTypes
    <3>3. PICK g \in Int, h \in Int : g = (IF i = x THEN f ELSE 0) /\ h = (IF y = x THEN f ELSE 0)
      OBVIOUS
    <3>4. Outward(edges, x) = z + g /\ Outward(q, x) = Outward(edges, x) + h - g
      BY <1>13, <3>1, <3>2, <3>3
    <3>5. Outward(q, x) = z + h
      BY ONLY <3>4, z \in Int, g \in Int, h \in Int
    <3> QED
      BY <3>2, <3>3, <3>5
  <2> QED
    BY <2>1, <1>0, <1>7, <1>11 DEF EKValue
<1>16. Augmentable(q, a, p, y)
  <2>1. ASSUME NEW x \in Joint, a[x] # 0, x # Source
        PROVE  /\ p[x] \in DOMAIN q /\ q[p[x]].to = x
               /\ a[q[p[x]].from] # 0 /\ a[x] <= a[q[p[x]].from]
               /\ r[q[p[x]].from] < r[x]
    BY <1>2, <1>12, <2>1 DEF Tree, SameShape
  <2>2. Tree(q, a, p, r)
    BY <2>1 DEF Tree
  <2>3. ASSUME NEW x \in Joint, r[x] <= r[y], a[x] # 0, x # Source
        PROVE  a[x] <= FN!Room(q, p[x])
    <3>1. x # i /\ r[x] <= r[i]
      BY <2>3, <1>1, <1>5
    <3>2. a[x] <= FN!Room(edges, p[x])
      BY <1>2, <2>3, <3>1 DEF Roomy
    <3>3. PICK m \in DOMAIN edges : m = p[x] /\ edges[m].to = x
      BY <1>2, <2>3 DEF Tree
    <3>4. m # k
      BY <3>1, <3>3, <1>5
    <3>5. FN!Room(q, m) >= FN!Room(edges, m)
      BY <3>4, <1>12
    <3>6. FN!Room(q, m) \in Int /\ FN!Room(edges, m) \in Int /\ a[x] \in Int
      <4>1. q \in Seq(Pieces) /\ m \in DOMAIN q
        BY <1>12 DEF SameShape
      <4> QED
        BY <4>1, <1>1, PiecesAre DEF FN!Room
    <3>7. a[x] <= FN!Room(edges, m)
      BY <3>2, <3>3
    <3>8. a[x] <= FN!Room(q, m)
      BY ONLY <3>5, <3>6, <3>7
    <3> QED
      BY <3>3, <3>8
  <2>4. Roomy(q, a, p, {x \in Joint : r[x] <= r[y]})
    BY <2>3 DEF Roomy
  <2> QED
    BY <2>2, <2>4, <1>5, <1>7, <1>9 DEF Augmentable
<1> QED
  BY <1>0, <1>11, <1>14, <1>15, <1>16 DEF EKInv, EK!FlowMaximal

LEMMA EKNextSearch ==
  ASSUME EKInv, EK!NextSearch
  PROVE  EKInv'
<1>1. /\ pc = "augment" /\ i = Source /\ flow' = flow + a[Sink] /\ pc' = "search"
      /\ edges' = edges /\ total' = total
      /\ a' = [x \in Joint |-> IF x = Source THEN EK!INF ELSE 0] /\ queue' = <<Source>>
      /\ p' = p /\ i' = i
  BY DEF EK!NextSearch, EK!StartSearch
<1>2. EKTypes /\ EKValue
  BY DEF EKInv
<1>3. a' \in [Joint -> Nat] /\ queue' \in Seq(Joint) /\ Searches(edges, a', p, queue')
  BY <1>1, <1>2, StartSearches DEF EKTypes
<1>4. PICK f \in Nat : f = a[Sink]
  BY <1>2, EndsAreJoints DEF EKTypes
<1>5. EKTypes'
  BY <1>1, <1>2, <1>3, <1>4 DEF EKTypes
<1>6. EKValue'
  <2>1. ASSUME NEW x \in Joint \ {Sink}
        PROVE  Outward(edges, x) = (IF x = Source THEN total + (flow + f) ELSE 0) + 0
    <3>1. Outward(edges, x) = (IF x = Source THEN total + flow ELSE 0) + (IF x = Source THEN f ELSE 0)
      BY <1>1, <1>2, <1>4 DEF EKValue
    <3>2. total \in Int /\ flow \in Int
      BY <1>2 DEF EKTypes
    <3> QED
      BY <3>1, <3>2
  <2> QED
    BY <2>1, <1>1, <1>4 DEF EKValue
<1> QED
  BY <1>1, <1>3, <1>5, <1>6 DEF EKInv, EK!FlowMaximal

(* Every flow is at most every cut, and one that fills a cut is a maximum. *)
LEMMA FullCut ==
  ASSUME NEW q, Network(q), FN!WithinCapacity(q), Balanced(q),
         NEW S \in SUBSET Joint, Source \in S, Sink \notin S,
         \A k \in Across(q, S) : q[k].flow = q[k].cap
  PROVE  Outward(q, Source) = FN!MinCut(q, Joint, Source, Sink)
<1>0. q \in Seq(Pieces)
  BY DEF Network
<1>m. /\ \E T \in SUBSET (Joint \ {Source, Sink}) : FN!MinCut(q, Joint, Source, Sink) = Crossing(q, {Source} \cup T)
      /\ \A T \in SUBSET (Joint \ {Source, Sink}) : FN!MinCut(q, Joint, Source, Sink) <= Crossing(q, {Source} \cup T)
      /\ FN!MinCut(q, Joint, Source, Sink) \in Nat
  <2>1. PICK V, x, y : V = Joint /\ x = Source /\ y = Sink
    OBVIOUS
  <2>2. /\ \E T \in SUBSET (V \ {x, y}) : FN!MinCut(q, V, x, y) = Crossing(q, {x} \cup T)
        /\ \A T \in SUBSET (V \ {x, y}) : FN!MinCut(q, V, x, y) <= Crossing(q, {x} \cup T)
        /\ FN!MinCut(q, V, x, y) \in Nat
    BY <1>0, MinCutIs, Zenon
  <2> QED
    BY <2>1, <2>2, Zenon
<1>1. PICK m \in Nat : m = FN!MinCut(q, Joint, Source, Sink)
  BY <1>m
<1>2. Outward(q, Source) = Crossing(q, S)
  BY CutFlow
<1>3. Crossing(q, S) \in Nat
  BY <1>0, CrossingIsNat
<1>4. m <= Crossing(q, S)
  <2>1. S \ {Source} \in SUBSET (Joint \ {Source, Sink}) /\ {Source} \cup (S \ {Source}) = S
    OBVIOUS
  <2>2. m <= Crossing(q, {Source} \cup (S \ {Source}))
    BY <1>m, <1>1, <2>1
  <2> QED
    BY <2>1, <2>2
<1>5. PICK T \in SUBSET (Joint \ {Source, Sink}) : m = Crossing(q, {Source} \cup T)
  BY <1>m, <1>1
<1>6. Outward(q, Source) <= m
  <2>1. PICK U \in SUBSET Joint : U = {Source} \cup T
    BY EndsAreJoints
  <2>2. Source \in U /\ Sink \notin U
    BY <2>1, EndsAreJoints
  <2>3. Outward(q, Source) <= Crossing(q, U)
    BY <2>2, CutFlow
  <2> QED
    BY <2>1, <2>3, <1>5
<1> QED
  BY <1>1, <1>2, <1>3, <1>4, <1>6

LEMMA EKReturn ==
  ASSUME EKInv, EK!Return
  PROVE  EKInv'
<1>1. /\ pc = "search" /\ queue = <<>> /\ a[Sink] = 0
      /\ total' = total + flow /\ flow' = 0 /\ pc' = "returned"
      /\ edges' = edges /\ a' = a /\ p' = p /\ queue' = queue /\ i' = i
  BY DEF EK!Return
<1>2. EKTypes /\ EKValue /\ Searches(edges, a, p, queue)
  BY <1>1 DEF EKInv
<1>3. EKTypes'
  BY <1>1, <1>2 DEF EKTypes
<1>4. \A x \in Joint \ {Sink} : Outward(edges, x) = (IF x = Source THEN total + flow ELSE 0) + 0
  BY <1>1, <1>2 DEF EKValue
<1>5. EKValue'
  BY <1>1, <1>2, <1>4 DEF EKValue, EKTypes
<1>6. Balanced(edges)
  BY <1>4 DEF Balanced
<1>7. Outward(edges, Source) = total + flow
  <2>1. total + flow \in Int
    BY <1>2 DEF EKTypes
  <2> QED
    BY <1>4, <2>1, EndsAreJoints
<1>8. PICK S \in SUBSET Joint : S = {x \in Joint : a[x] # 0}
  OBVIOUS
<1>9. Source \in S /\ Sink \notin S
  BY <1>1, <1>2, <1>8, EndsAreJoints DEF Searches
<1>10. ASSUME NEW k \in Across(edges, S)
       PROVE  edges[k].flow = edges[k].cap
  <2>1. /\ k \in DOMAIN edges /\ edges[k].from \in Joint /\ edges[k].to \in Joint
        /\ edges[k].cap \in Int /\ edges[k].flow \in Int
    BY <1>2, PiecesAre DEF Across, EKTypes, Network
  <2>2. a[edges[k].from] # 0 /\ a[edges[k].to] = 0
    BY <1>8, <2>1 DEF Across
  <2>3. Waiting(queue) = {}
    BY <1>1 DEF Waiting
  <2>4. edges[k].cap <= edges[k].flow
    BY <1>2, <2>1, <2>2, <2>3 DEF Searches, Closed
  <2>5. edges[k].flow <= edges[k].cap
    BY <1>2, <2>1 DEF EKTypes, FN!WithinCapacity
  <2> QED
    BY <2>1, <2>4, <2>5
<1>11. Outward(edges, Source) = FN!MinCut(edges, Joint, Source, Sink)
  BY <1>2, <1>6, <1>9, <1>10, FullCut DEF EKTypes
<1>12. EK!FlowMaximal'
  <2>1. total' = EK!MinCut(edges, Joint, Source, Sink)
    BY <1>1, <1>7, <1>11, EKFoldsAre
  <2> QED
    BY <2>1, <1>1 DEF EK!FlowMaximal
<1> QED
  BY <1>1, <1>3, <1>5, <1>12 DEF EKInv

LEMMA EKNext == EKInv /\ EK!Next => EKInv'
BY EKAddPipe, EKClear, EKMaxFlow, EKExpand, EKReached, EKAugment, EKNextSearch, EKReturn DEF EK!Next, EK!Step

LEMMA EKStutters == EKInv /\ UNCHANGED ekVars => EKInv'
BY DEF EKInv, ekVars, flowVars, EKTypes, EKValue, EK!FlowMaximal

LEMMA EKImplies == EKInv => EK!FlowSound /\ EK!FlowMaximal
<1> SUFFICES ASSUME EKInv PROVE EK!FlowSound
  BY DEF EKInv
<1>0. Network(edges) /\ FN!WithinCapacity(edges) /\ edges \in Seq(Pieces)
  BY DEF EKInv, EKTypes, Network
<1>1. ASSUME pc = "search"
      PROVE  EK!Conserves(edges, Joint, Source, Sink, total + flow)
  <2>1. \A x \in Joint \ {Sink} : Outward(edges, x) = (IF x = Source THEN total + flow ELSE 0) + 0
    BY <1>1 DEF EKInv, EKValue
  <2>2. PICK m \in Int : m = total + flow
    BY DEF EKInv, EKTypes
  <2>3. \A x \in Joint \ {Source, Sink} : Outward(edges, x) = 0
    BY <2>1
  <2>4. Outward(edges, Source) = m
    BY <2>1, <2>2, EndsAreJoints
  <2>5. Outward(edges, Sink) = -m
    <3>1. Balanced(edges)
      BY <2>3 DEF Balanced
    <3> QED
      BY <3>1, <2>4, <1>0, SinkTakes
  <2>6. \A x : EK!Outflow(edges, x) = Outward(edges, x)
    BY <1>0, EKFoldsAre, OutflowIs
  <2> QED
    BY <2>2, <2>3, <2>4, <2>5, <2>6 DEF EK!Conserves
<1>2. EK!WithinCapacity(edges)
  BY <1>0, EKIsNet
<1> QED
  BY <1>1, <1>2 DEF EK!FlowSound
=============================================================================
