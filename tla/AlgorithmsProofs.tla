-------------------------- MODULE AlgorithmsProofs --------------------------
(***************************************************************************)
(* For any input the assumptions of Algorithms allow: the loops keep what  *)
(* they keep true (Sound) and the programs return what the definition of   *)
(* their problem says (Correct). The invariants of Dinic and of the        *)
(* strongly connected components are here, that of Edmonds-Karp is in      *)
(* AlgorithmsFlows, the others are in AlgorithmsLemmas.                    *)
(***************************************************************************)
EXTENDS AlgorithmsFlows


-----------------------------------------------------------------------------
(* Dinic.                                                                  *)

LEMMA DIIsNet ==
  ASSUME NEW q
  PROVE  /\ \A k, f : DI!Push(q, k, f) = FN!Push(q, k, f)
         /\ \A k : DI!Room(q, k) = FN!Room(q, k)
         /\ \A x : DI!Leaving(q, x) = FN!Leaving(q, x)
         /\ \A x, y, c : DI!AddEdge(q, x, y, c) = FN!AddEdge(q, x, y, c)
         /\ DI!WithinCapacity(q) <=> FN!WithinCapacity(q)
<1>1. \A k, f : DI!Push(q, k, f) = FN!Push(q, k, f)
  BY DEF DI!Push, FN!Push, DI!Partner, FN!Partner
<1>2. \A k : DI!Room(q, k) = FN!Room(q, k)
  BY DEF DI!Room, FN!Room
<1>3. \A x : DI!Leaving(q, x) = FN!Leaving(q, x)
  BY Zenon DEF DI!Leaving, FN!Leaving
<1>4. \A x, y, c : DI!AddEdge(q, x, y, c) = FN!AddEdge(q, x, y, c)
  BY DEF DI!AddEdge, FN!AddEdge, DI!Edge, FN!Edge
<1>5. DI!WithinCapacity(q) <=> FN!WithinCapacity(q)
  BY DEF DI!WithinCapacity, FN!WithinCapacity, DI!Partner, FN!Partner
<1> QED
  BY <1>1, <1>2, <1>3, <1>4, <1>5

LEMMA DIFoldsAre ==
  ASSUME NEW q
  PROVE  /\ \A x : DI!Outflow(q, x) = FN!Outflow(q, x)
         /\ \A V, x, y : DI!MinCut(q, V, x, y) = FN!MinCut(q, V, x, y)
<1>1. \A x : DI!Outflow(q, x) = FN!Outflow(q, x)
  BY Zenon DEF DI!Outflow, DI!FoldSeq, DI!FoldFunction, DI!FoldFunctionOnSet, DI!MapThenFoldSet,
               FN!Outflow, FN!FoldSeq, FN!FoldFunction, FN!FoldFunctionOnSet, FN!MapThenFoldSet
<1>2. \A V, x, y : DI!MinCut(q, V, x, y) = FN!MinCut(q, V, x, y)
  BY Zenon DEF DI!MinCut, DI!FoldSeq, DI!FoldFunction, DI!FoldFunctionOnSet, DI!MapThenFoldSet, DI!Min,
               FN!MinCut, FN!FoldSeq, FN!FoldFunction, FN!FoldFunctionOnSet, FN!MapThenFoldSet, FN!Min
<1> QED
  BY <1>1, <1>2

LEMMA DIMinIs ==
  ASSUME NEW x \in Nat, NEW y \in Nat
  PROVE  DI!Min({x, y}) = IF x <= y THEN x ELSE y
<1>1. PICK m : m = DI!Min({x, y})
  OBVIOUS
<1>2. \E z \in {x, y} : \A v \in {x, y} : z <= v
  OBVIOUS
<1>3. m \in {x, y} /\ \A v \in {x, y} : m <= v
  BY <1>1, <1>2, Zenon DEF DI!Min
<1> QED
  BY <1>1, <1>3

-----------------------------------------------------------------------------
-----------------------------------------------------------------------------
Frames == [x : Joint, a : Nat, flow : Nat]

ArcOf(q, c, v) == FN!Leaving(q, v)[c[v]]

(* The calls of dfs: each is one level deeper than its caller, which waits *)
(* at the arc to it; the arc has room for what the call may still send and *)
(* for what it has sent.                                                   *)
Waits(q, c, f, v) ==
  /\ c[v.x] <= Len(FN!Leaving(q, v.x)) /\ q[ArcOf(q, c, v.x)].to = f.x
  /\ f.a + f.flow <= FN!Room(q, ArcOf(q, c, v.x)) /\ f.a + f.flow <= v.a

Chained(q, c, D, S) ==
  /\ S \in Seq(Frames) /\ S # <<>> /\ S[Len(S)].x = Source
  /\ \A j \in DOMAIN S : S[j].x # Sink
  /\ \A j, l \in DOMAIN S : j < l => D[S[j].x] > D[S[l].x]
  /\ \A j \in DOMAIN S : j # 1 => Waits(q, c, S[j - 1], S[j])

Base(x, z) == IF x = Source THEN z ELSE 0

(* What a call has sent has left its vertex and not yet arrived there. *)
Carried(q, S, z) ==
  \A x \in Joint \ {Sink} :
    /\ \A j \in DOMAIN S : S[j].x = x => Outward(q, x) = Base(x, z) + S[j].flow
    /\ (\A j \in DOMAIN S : S[j].x # x) => Outward(q, x) = Base(x, z)

Settled(q, z) == \A x \in Joint \ {Sink} : Outward(q, x) = Base(x, z)

UnderCuts(q, z) == \A S \in SUBSET (Joint \ {Source, Sink}) : z <= Crossing(q, {Source} \cup S)

Levels == [Joint -> Nat]
Arcs == [Joint -> Nat \ {0}]

LEMMA FramesAre ==
  ASSUME NEW S \in Seq(Frames)
  PROVE  /\ Len(S) \in Nat /\ DOMAIN S = 1..Len(S)
         /\ \A j \in DOMAIN S : S[j] \in Frames /\ S[j].x \in Joint /\ S[j].a \in Nat /\ S[j].flow \in Nat
<1>1. Len(S) \in Nat /\ DOMAIN S = 1..Len(S) /\ \A j \in DOMAIN S : S[j] \in Frames
  OBVIOUS
<1> QED
  BY <1>1 DEF Frames

(* The vertices of the calls differ. *)
LEMMA CallsDiffer ==
  ASSUME NEW q, NEW c, NEW D \in Levels, NEW S, Chained(q, c, D, S),
         NEW j \in DOMAIN S, NEW l \in DOMAIN S, j # l
  PROVE  S[j].x # S[l].x
<1>1. S \in Seq(Frames)
  BY DEF Chained
<1>2. DOMAIN S = 1..Len(S) /\ Len(S) \in Nat /\ S[j].x \in Joint /\ S[l].x \in Joint
  BY <1>1, FramesAre
<1>3. j < l \/ l < j
  BY <1>2
<1>4. D[S[j].x] > D[S[l].x] \/ D[S[l].x] > D[S[j].x]
  BY <1>3 DEF Chained
<1>5. D[S[j].x] \in Nat /\ D[S[l].x] \in Nat
  BY <1>2 DEF Levels
<1> QED
  BY <1>4, <1>5

LEMMA ArcIs ==
  ASSUME NEW q, Network(q), NEW c \in Arcs, NEW v \in Joint, c[v] <= Len(FN!Leaving(q, v))
  PROVE  ArcOf(q, c, v) \in DOMAIN q /\ q[ArcOf(q, c, v)].from = v
<1>1. q \in Seq(Pieces)
  BY DEF Network
<1>2. c[v] \in Nat /\ c[v] >= 1
  BY DEF Arcs
<1>3. PICK o : o = FN!Leaving(q, v)
  OBVIOUS
<1>4. Len(o) \in Nat /\ \A j \in 1..Len(o) : o[j] \in DOMAIN q /\ q[o[j]].from = v
  BY <1>1, <1>3, LeavingHolds
<1>5. c[v] \in 1..Len(o)
  BY <1>2, <1>3, <1>4
<1> QED
  BY <1>3, <1>4, <1>5 DEF ArcOf

(* The caller is a stack of calls too. *)
LEMMA TailChained ==
  ASSUME NEW q, NEW c, NEW D, NEW S, Chained(q, c, D, S), Len(S) > 1
  PROVE  Chained(q, c, D, Tail(S))
<1>1. S \in Seq(Frames) /\ S # <<>>
  BY DEF Chained
<1>2. PICK R : R = Tail(S)
  OBVIOUS
<1>3. /\ Len(S) \in Nat /\ DOMAIN S = 1..Len(S)
      /\ R \in Seq(Frames) /\ Len(R) = Len(S) - 1 /\ DOMAIN R = 1..Len(S) - 1
      /\ \A j \in 1..Len(S) - 1 : R[j] = S[j + 1]
  BY <1>1, <1>2, Popped
<1>4. \A j \in DOMAIN R : j + 1 \in DOMAIN S /\ R[j] = S[j + 1]
  BY <1>3
<1>5. R # <<>> /\ R[Len(R)].x = Source
  <2>1. Len(R) \in DOMAIN R /\ Len(R) + 1 = Len(S)
    BY <1>3
  <2>2. R[Len(R)] = S[Len(S)]
    BY <2>1, <1>4
  <2> QED
    BY <2>1, <2>2 DEF Chained
<1>6. \A j \in DOMAIN R : R[j].x # Sink
  BY <1>4 DEF Chained
<1>7. \A j, l \in DOMAIN R : j < l => D[R[j].x] > D[R[l].x]
  <2> TAKE j, l \in DOMAIN R
  <2> HAVE j < l
  <2>1. j + 1 < l + 1
    BY <1>3
  <2> QED
    BY <2>1, <1>4 DEF Chained
<1>8. ASSUME NEW j \in DOMAIN R, j # 1
      PROVE  Waits(q, c, R[j - 1], R[j])
  <2>1. j - 1 \in DOMAIN R /\ j + 1 \in DOMAIN S /\ j + 1 # 1 /\ (j + 1) - 1 = j /\ (j - 1) + 1 = j
    BY <1>3, <1>8
  <2>2. R[j] = S[j + 1] /\ R[j - 1] = S[j]
    BY <2>1, <1>4
  <2>3. Waits(q, c, S[j], S[j + 1])
    BY <2>1 DEF Chained
  <2> QED
    BY <2>2, <2>3
<1>9. Chained(q, c, D, R)
  BY <1>3, <1>5, <1>6, <1>7, <1>8 DEF Chained
<1> QED
  BY <1>2, <1>9

(* A new call at the end of the arc. *)
LEMMA CallChained ==
  ASSUME NEW q, NEW c, NEW D \in Levels, NEW S, Chained(q, c, D, S), NEW e \in Frames,
         e.x # Sink, D[e.x] = D[S[1].x] + 1, Waits(q, c, e, S[1])
  PROVE  Chained(q, c, D, <<e>> \o S)
<1>1. S \in Seq(Frames) /\ S # <<>>
  BY DEF Chained
<1>2. PICK R : R = <<e>> \o S
  OBVIOUS
<1>3. /\ R \in Seq(Frames) /\ Len(S) \in Nat /\ DOMAIN S = 1..Len(S)
      /\ Len(R) = Len(S) + 1 /\ DOMAIN R = 1..Len(S) + 1
      /\ R[1] = e /\ \A j \in 1..Len(S) : R[j + 1] = S[j]
  BY <1>1, <1>2, Pushed
<1>4. \A j \in DOMAIN R : j # 1 => j - 1 \in DOMAIN S /\ R[j] = S[j - 1]
  <2> TAKE j \in DOMAIN R
  <2> HAVE j # 1
  <2>1. j - 1 \in 1..Len(S) /\ (j - 1) + 1 = j
    BY <1>3
  <2> QED
    BY <2>1, <1>3
<1>5. Len(S) >= 1 /\ 1 \in DOMAIN S
  BY <1>1, <1>3
<1>6. R # <<>> /\ R[Len(R)].x = Source
  <2>1. R[Len(S) + 1] = S[Len(S)]
    BY <1>3, <1>5
  <2>2. 1 \in DOMAIN R
    BY <1>3
  <2> QED
    BY <2>1, <2>2, <1>3 DEF Chained
<1>7. \A j \in DOMAIN R : R[j].x # Sink
  BY <1>3, <1>4 DEF Chained
<1>8. ASSUME NEW j \in DOMAIN R, NEW l \in DOMAIN R, j < l
      PROVE  D[R[j].x] > D[R[l].x]
  <2>1. l # 1 /\ l - 1 \in DOMAIN S /\ R[l] = S[l - 1]
    BY <1>3, <1>4, <1>8
  <2>2. CASE j = 1
    <3>1. D[R[j].x] = D[S[1].x] + 1
      BY <2>2, <1>3
    <3>2. S[1].x \in Joint /\ S[l - 1].x \in Joint
      BY <1>1, <1>5, <2>1, FramesAre
    <3>3. D[S[1].x] \in Nat /\ D[S[l - 1].x] \in Nat
      BY <3>2 DEF Levels
    <3>4. D[S[1].x] >= D[S[l - 1].x]
      <4>1. CASE l - 1 = 1
        BY <4>1, <3>3
      <4>2. CASE l - 1 # 1
        <5>1. 1 < l - 1
          BY <4>2, <2>1, <1>3
        <5>2. D[S[1].x] > D[S[l - 1].x]
          BY <5>1, <2>1, <1>5 DEF Chained
        <5> QED
          BY <5>2, <3>3
      <4> QED
        BY <4>1, <4>2
    <3> QED
      BY <3>1, <3>3, <3>4, <2>1
  <2>3. CASE j # 1
    <3>1. j - 1 \in DOMAIN S /\ R[j] = S[j - 1] /\ j - 1 < l - 1
      BY <2>3, <1>3, <1>4, <1>8
    <3> QED
      BY <3>1, <2>1 DEF Chained
  <2> QED
    BY <2>2, <2>3
<1>9. ASSUME NEW j \in DOMAIN R, j # 1
      PROVE  Waits(q, c, R[j - 1], R[j])
  <2>1. j - 1 \in DOMAIN S /\ R[j] = S[j - 1]
    BY <1>4, <1>9
  <2>2. CASE j - 1 = 1
    BY <2>1, <2>2, <1>3
  <2>3. CASE j - 1 # 1
    <3>1. j - 1 \in DOMAIN R
      BY <2>1, <1>3
    <3>2. R[j - 1] = S[(j - 1) - 1]
      BY <3>1, <2>3, <1>4
    <3>3. Waits(q, c, S[(j - 1) - 1], S[j - 1])
      BY <2>1, <2>3 DEF Chained
    <3> QED
      BY <2>1, <3>2, <3>3
  <2> QED
    BY <2>2, <2>3
<1>10. Chained(q, c, D, R)
  BY <1>3, <1>6, <1>7, <1>8, <1>9 DEF Chained
<1> QED
  BY <1>2, <1>10

(* An answer of f changes the innermost call and the room of its arc: the  *)
(* callers do not notice.                                                  *)
LEMMA AnswerChained ==
  ASSUME NEW q, Network(q), FN!WithinCapacity(q), NEW c \in Arcs, NEW D \in Levels,
         NEW S, Chained(q, c, D, S), c[S[1].x] <= Len(FN!Leaving(q, S[1].x)),
         NEW k, k = ArcOf(q, c, S[1].x), NEW f \in Nat, f <= FN!Room(q, k), f <= S[1].a,
         NEW r, r = FN!Push(q, k, f), NEW e \in Frames,
         e.x = S[1].x, e.a = S[1].a - f, e.flow = S[1].flow + f,
         NEW b \in Arcs, \A x \in Joint \ {S[1].x} : b[x] = c[x]
  PROVE  Chained(r, b, D, <<e>> \o Tail(S))
<1>1. S \in Seq(Frames) /\ S # <<>> /\ q \in Seq(Pieces)
  BY DEF Chained, Network
<1>2. PICK R : R = <<e>> \o Tail(S)
  OBVIOUS
<1>3. /\ R \in Seq(Frames) /\ Len(S) \in Nat /\ Len(S) >= 1 /\ DOMAIN S = 1..Len(S)
      /\ Len(R) = Len(S) /\ DOMAIN R = 1..Len(S)
      /\ R[1] = e /\ \A j \in 1..Len(S) : j # 1 => R[j] = S[j]
  BY <1>1, <1>2, Replaced
<1>4. \A j \in DOMAIN S : R[j].x = S[j].x /\ S[j].x \in Joint /\ S[j].a \in Nat /\ S[j].flow \in Nat
  BY <1>1, <1>3, FramesAre
<1>5. k \in DOMAIN q /\ q[k].from = S[1].x
  <2>1. S[1].x \in Joint
    BY <1>3, <1>4
  <2> QED
    BY <2>1, ArcIs
<1>6. /\ SameShape(r, q)
      /\ \A m \in DOMAIN q : m # k => FN!Room(r, m) >= FN!Room(q, m)
  <2>1. PICK h \in DOMAIN q : h = k
    BY <1>5
  <2>2. Network(q) /\ FN!WithinCapacity(q) /\ r = FN!Push(q, h, f) /\ f <= FN!Room(q, h)
    BY <2>1
  <2>3. PICK g \in Int : g = f
    OBVIOUS
  <2>4. r = FN!Push(q, h, g)
    BY <2>2, <2>3
  <2>5. SameShape(r, q)
    BY ONLY <2>2, <2>4, PushIs
  <2>6. \A m \in DOMAIN q : m # h => FN!Room(r, m) >= FN!Room(q, m)
    BY ONLY <2>2, f \in Nat, PushKeepsWithin
  <2> QED
    BY <2>1, <2>5, <2>6
<1>7. \A x : FN!Leaving(r, x) = FN!Leaving(q, x)
  BY <1>6, LeavingKept
<1>8. ASSUME NEW j \in DOMAIN R, j # 1
      PROVE  Waits(r, b, R[j - 1], R[j])
  <2>1. j \in DOMAIN S /\ 1 \in DOMAIN S /\ j - 1 \in DOMAIN S /\ R[j] = S[j]
    BY <1>3, <1>8
  <2>2. PICK v \in Frames : v = S[j]
    BY <1>1, <2>1, FramesAre
  <2>3. v.x \in Joint /\ v.x # S[1].x
    BY <1>8, <2>1, <2>2, <1>4, CallsDiffer
  <2>4. Waits(q, c, S[j - 1], v)
    BY <2>1, <2>2, <1>8 DEF Chained
  <2>5. b[v.x] = c[v.x]
    BY <2>3
  <2>6. PICK m : m = ArcOf(q, c, v.x)
    OBVIOUS
  <2>7. m \in DOMAIN q /\ q[m].from = v.x
    BY <2>3, <2>4, <2>6, ArcIs DEF Waits
  <2>8. ArcOf(r, b, v.x) = m
    BY <2>5, <2>6, <1>7 DEF ArcOf
  <2>9. m # k
    BY <2>3, <2>7, <1>5
  <2>10. FN!Room(r, m) >= FN!Room(q, m)
    BY <2>7, <2>9, <1>6
  <2>11. FN!Room(r, m) \in Int /\ FN!Room(q, m) \in Int
    <3>1. r \in Seq(Pieces) /\ m \in DOMAIN r
      BY <1>6, <2>7 DEF SameShape
    <3> QED
      BY <3>1, <1>1, <2>7, PiecesAre DEF FN!Room
  <2>12. /\ R[j - 1].x = S[j - 1].x /\ R[j - 1].a + R[j - 1].flow = S[j - 1].a + S[j - 1].flow
         /\ S[j - 1].a + S[j - 1].flow \in Nat
    <3>1. CASE j - 1 = 1
      <4>1. R[j - 1] = e /\ S[1].a \in Nat /\ S[1].flow \in Nat
        BY <3>1, <1>3, <1>4, <2>1
      <4>2. e.a + e.flow = S[1].a + S[1].flow /\ S[1].a + S[1].flow \in Nat
        BY <4>1
      <4> QED
        BY <4>1, <4>2, <3>1
    <3>2. CASE j - 1 # 1
      BY <3>2, <1>3, <1>4, <2>1
    <3> QED
      BY <3>1, <3>2
  <2>13. /\ c[v.x] <= Len(FN!Leaving(q, v.x)) /\ q[m].to = S[j - 1].x
         /\ S[j - 1].a + S[j - 1].flow <= FN!Room(q, m) /\ S[j - 1].a + S[j - 1].flow <= v.a
    BY <2>4, <2>6 DEF Waits
  <2>14. r[m].to = q[m].to
    BY <1>6, <2>7 DEF SameShape
  <2>15. R[j - 1].a + R[j - 1].flow <= FN!Room(r, m)
    BY ONLY <2>10, <2>11, <2>12, <2>13
  <2> QED
    BY <2>1, <2>2, <2>5, <2>8, <2>12, <2>13, <2>14, <2>15, <1>7 DEF Waits
<1>9. R # <<>> /\ R[Len(R)].x = Source
  <2>1. Len(S) \in DOMAIN S
    BY <1>3
  <2> QED
    BY <2>1, <1>3, <1>4 DEF Chained
<1>10. \A j \in DOMAIN R : R[j].x # Sink
  BY <1>3, <1>4 DEF Chained
<1>11. \A j, l \in DOMAIN R : j < l => D[R[j].x] > D[R[l].x]
  BY <1>3, <1>4 DEF Chained
<1>12. Chained(r, b, D, R)
  BY <1>3, <1>8, <1>9, <1>10, <1>11 DEF Chained
<1> QED
  BY <1>2, <1>12

LEMMA BaseIs ==
  ASSUME NEW x, NEW z \in Int
  PROVE  Base(x, z) \in Int
BY DEF Base

(* An answer to the innermost call. *)
LEMMA AnswerCarried ==
  ASSUME NEW q, Network(q), NEW c, NEW D \in Levels, NEW S, Chained(q, c, D, S),
         NEW z \in Int, Carried(q, S, z),
         NEW k \in DOMAIN q, q[k].from = S[1].x, NEW f \in Nat, q[k].to = Sink \/ f = 0,
         NEW r, r = FN!Push(q, k, f), NEW e \in Frames, e.x = S[1].x, e.flow = S[1].flow + f
  PROVE  Carried(r, <<e>> \o Tail(S), z)
<1>1. S \in Seq(Frames) /\ S # <<>> /\ q \in Seq(Pieces)
  BY DEF Chained, Network
<1>2. PICK R : R = <<e>> \o Tail(S)
  OBVIOUS
<1>3. /\ Len(S) \in Nat /\ Len(S) >= 1 /\ DOMAIN S = 1..Len(S) /\ DOMAIN R = DOMAIN S
      /\ R[1] = e /\ \A j \in DOMAIN S : j # 1 => R[j] = S[j]
  BY <1>1, <1>2, Replaced
<1>4. 1 \in DOMAIN S /\ \A j \in DOMAIN S : S[j].x \in Joint /\ S[j].flow \in Nat
  BY <1>1, <1>3, FramesAre
<1>5. ASSUME NEW x \in Joint \ {Sink}
      PROVE  Outward(r, x) = Outward(q, x) + (IF S[1].x = x THEN f ELSE 0)
  <2>1. PICK g \in Int : g = f
    OBVIOUS
  <2>2. r = FN!Push(q, k, g)
    BY <2>1
  <2>3. Outward(r, x) = Outward(q, x) + (IF q[k].from = x THEN g ELSE 0) - (IF q[k].to = x THEN g ELSE 0)
    BY ONLY <2>2, Network(q), k \in DOMAIN q, g \in Int, PushOutward
  <2>4. (IF q[k].to = x THEN g ELSE 0) = 0
    BY <2>1
  <2>5. Outward(q, x) \in Int
    BY <1>1, SumsAreInt
  <2>6. PICK h \in Int : h = IF q[k].from = x THEN g ELSE 0
    OBVIOUS
  <2>7. Outward(r, x) = Outward(q, x) + h
    BY <2>3, <2>4, <2>5, <2>6
  <2> QED
    BY <2>1, <2>6, <2>7
<1>6. ASSUME NEW x \in Joint \ {Sink}, NEW j \in DOMAIN R, R[j].x = x
      PROVE  Outward(r, x) = Base(x, z) + R[j].flow
  <2>1. S[j].x = x /\ j \in DOMAIN S
    BY <1>3, <1>6
  <2>2. Outward(q, x) = Base(x, z) + S[j].flow
    BY <2>1 DEF Carried
  <2>3. CASE j = 1
    <3>1. Outward(r, x) = Outward(q, x) + f
      BY <1>5, <2>1, <2>3
    <3>2. R[j].flow = S[j].flow + f /\ S[j].flow \in Nat /\ Base(x, z) \in Int
      BY <1>3, <1>4, <2>3, BaseIs
    <3> QED
      BY <2>2, <3>1, <3>2
  <2>4. CASE j # 1
    <3>1. S[1].x # x
      BY <1>4, <2>1, <2>4, CallsDiffer
    <3>2. Outward(r, x) = Outward(q, x) + 0 /\ Outward(q, x) \in Int
      BY <1>1, <1>5, <3>1, SumsAreInt
    <3>3. R[j] = S[j]
      BY <1>3, <2>1, <2>4
    <3> QED
      BY <2>2, <3>2, <3>3
  <2> QED
    BY <2>3, <2>4
<1>7. ASSUME NEW x \in Joint \ {Sink}, \A j \in DOMAIN R : R[j].x # x
      PROVE  Outward(r, x) = Base(x, z)
  <2>1. \A j \in DOMAIN S : S[j].x # x
    BY <1>3, <1>7
  <2>2. Outward(q, x) = Base(x, z) /\ S[1].x # x
    BY <2>1, <1>4 DEF Carried
  <2>3. Outward(r, x) = Outward(q, x) + 0 /\ Outward(q, x) \in Int
    BY <1>1, <1>5, <2>2, SumsAreInt
  <2> QED
    BY <2>2, <2>3
<1>8. Carried(r, R, z)
  BY <1>6, <1>7 DEF Carried
<1> QED
  BY <1>2, <1>8

(* What a call has sent arrives at its vertex when its caller takes the    *)
(* answer.                                                                 *)
LEMMA ReturnCarried ==
  ASSUME NEW q, Network(q), NEW c, NEW D \in Levels, NEW S, Chained(q, c, D, S), Len(S) > 1,
         NEW z \in Int, Carried(q, S, z),
         NEW k \in DOMAIN q, q[k].from = S[2].x, q[k].to = S[1].x, NEW f \in Nat, f = S[1].flow,
         NEW r, r = FN!Push(q, k, f), NEW e \in Frames, e.x = S[2].x, e.flow = S[2].flow + f
  PROVE  Carried(r, <<e>> \o Tail(Tail(S)), z)
<1>1. S \in Seq(Frames) /\ S # <<>> /\ q \in Seq(Pieces)
  BY DEF Chained, Network
<1>2. PICK T : T = Tail(S)
  OBVIOUS
<1>3. /\ Len(S) \in Nat /\ DOMAIN S = 1..Len(S)
      /\ T \in Seq(Frames) /\ Len(T) = Len(S) - 1 /\ DOMAIN T = 1..Len(S) - 1
      /\ \A j \in 1..Len(S) - 1 : T[j] = S[j + 1]
  BY <1>1, <1>2, Popped
<1>4. T # <<>>
  BY <1>3
<1>5. PICK R : R = <<e>> \o Tail(T)
  OBVIOUS
<1>6. DOMAIN R = 1..Len(S) - 1 /\ R[1] = e /\ \A j \in 1..Len(S) - 1 : j # 1 => R[j] = S[j + 1]
  <2>0. T \in Seq(Frames) /\ T # <<>> /\ e \in Frames /\ R = <<e>> \o Tail(T)
    BY <1>3, <1>4, <1>5
  <2>1. Len(T) \in Nat /\ DOMAIN R = 1..Len(T) /\ R[1] = e /\ \A j \in 1..Len(T) : j # 1 => R[j] = T[j]
    BY ONLY <2>0, Replaced
  <2> QED
    BY <2>1, <1>3
<1>7. /\ 1 \in DOMAIN S /\ 2 \in DOMAIN S /\ \A j \in DOMAIN R : j + 1 \in DOMAIN S /\ R[j].x = S[j + 1].x
      /\ \A j \in DOMAIN S : S[j].x \in Joint /\ S[j].flow \in Nat
  BY <1>1, <1>3, <1>6, FramesAre
<1>8. S[1].x # S[2].x
  BY <1>7, CallsDiffer
<1>9. ASSUME NEW x \in Joint \ {Sink}
      PROVE  /\ Outward(q, x) \in Int /\ Base(x, z) \in Int
             /\ Outward(r, x) = Outward(q, x) + (IF S[2].x = x THEN f ELSE 0) - (IF S[1].x = x THEN f ELSE 0)
  <2>1. PICK g \in Int : g = f
    OBVIOUS
  <2>2. r = FN!Push(q, k, g)
    BY <2>1
  <2>3. Outward(r, x) = Outward(q, x) + (IF q[k].from = x THEN g ELSE 0) - (IF q[k].to = x THEN g ELSE 0)
    BY ONLY <2>2, Network(q), k \in DOMAIN q, g \in Int, PushOutward
  <2>4. Outward(q, x) \in Int
    BY <1>1, SumsAreInt
  <2> QED
    BY <2>1, <2>3, <2>4, BaseIs
<1>10. ASSUME NEW x \in Joint \ {Sink}, NEW j \in DOMAIN R, R[j].x = x
       PROVE  Outward(r, x) = Base(x, z) + R[j].flow
  <2>1. S[j + 1].x = x /\ j + 1 \in DOMAIN S /\ j + 1 # 1
    BY <1>3, <1>6, <1>7, <1>10
  <2>2. Outward(q, x) = Base(x, z) + S[j + 1].flow /\ S[j + 1].flow \in Nat
    BY <2>1, <1>7 DEF Carried
  <2>3. S[1].x # x
    BY <2>1, <1>7, CallsDiffer
  <2>4. CASE j = 1
    <3>1. S[2].x = x /\ R[j].flow = S[2].flow + f /\ S[j + 1] = S[2]
      BY <2>1, <2>4, <1>6
    <3>2. Outward(r, x) = Outward(q, x) + f - 0
      BY <1>9, <2>3, <3>1
    <3>3. PICK w \in Nat, y \in Int : w = S[2].flow /\ y = Base(x, z)
      BY <1>7, <1>9
    <3>4. Outward(q, x) = y + w /\ R[j].flow = w + f
      BY <2>2, <3>1, <3>3
    <3>5. Outward(r, x) = y + (w + f)
      BY <3>2, <3>4
    <3> QED
      BY <3>3, <3>4, <3>5
  <2>5. CASE j # 1
    <3>1. S[2].x # x
      <4>1. j + 1 # 2
        BY <2>5, <1>3, <1>6
      <4> QED
        BY <4>1, <2>1, <1>7, CallsDiffer
    <3>2. Outward(r, x) = Outward(q, x) + 0 - 0
      BY <1>9, <2>3, <3>1
    <3>3. R[j] = S[j + 1]
      BY <1>6, <2>5
    <3> QED
      BY <2>2, <3>2, <3>3, <1>9
  <2> QED
    BY <2>4, <2>5
<1>11. ASSUME NEW x \in Joint \ {Sink}, \A j \in DOMAIN R : R[j].x # x
       PROVE  Outward(r, x) = Base(x, z)
  <2>1. S[2].x # x
    <3>1. 1 \in DOMAIN R /\ R[1].x = S[2].x
      BY <1>3, <1>6
    <3> QED
      BY <3>1, <1>11
  <2>2. CASE S[1].x = x
    <3>1. Outward(q, x) = Base(x, z) + f
      BY <2>2, <1>7 DEF Carried
    <3>2. Outward(r, x) = Outward(q, x) + 0 - f
      BY <1>9, <2>1, <2>2
    <3> QED
      BY <3>1, <3>2, <1>9
  <2>3. CASE S[1].x # x
    <3>1. ASSUME NEW j \in DOMAIN S
          PROVE  S[j].x # x
      <4>1. CASE j = 1
        BY <4>1, <2>3
      <4>2. CASE j # 1
        <5>1. j - 1 \in DOMAIN R /\ (j - 1) + 1 = j
          BY <4>2, <1>3, <1>6
        <5>2. R[j - 1].x = S[j].x
          BY <5>1, <1>7
        <5> QED
          BY <5>1, <5>2, <1>11
      <4> QED
        BY <4>1, <4>2
    <3>2. Outward(q, x) = Base(x, z)
      BY <3>1 DEF Carried
    <3>3. Outward(r, x) = Outward(q, x) + 0 - 0
      BY <1>9, <2>1, <2>3
    <3> QED
      BY <3>2, <3>3, <1>9
  <2> QED
    BY <2>2, <2>3
<1>12. Carried(r, R, z)
  BY <1>10, <1>11 DEF Carried
<1> QED
  BY <1>2, <1>5, <1>12

(* A call that has sent nothing yet. *)
LEMMA CallCarried ==
  ASSUME NEW q, NEW S \in Seq(Frames), NEW z \in Int, Carried(q, S, z), NEW e \in Frames, e.flow = 0,
         \A j \in DOMAIN S : S[j].x # e.x
  PROVE  Carried(q, <<e>> \o S, z)
<1>1. PICK R : R = <<e>> \o S
  OBVIOUS
<1>2. /\ Len(S) \in Nat /\ DOMAIN S = 1..Len(S) /\ DOMAIN R = 1..Len(S) + 1
      /\ R[1] = e /\ \A j \in 1..Len(S) : R[j + 1] = S[j]
  BY <1>1, Pushed
<1>3. ASSUME NEW x \in Joint \ {Sink}, NEW j \in DOMAIN R, R[j].x = x
      PROVE  Outward(q, x) = Base(x, z) + R[j].flow
  <2>1. CASE j = 1
    <3>1. \A l \in DOMAIN S : S[l].x # x
      BY <1>2, <1>3, <2>1
    <3>2. Outward(q, x) = Base(x, z) /\ Base(x, z) \in Int
      BY <3>1, BaseIs DEF Carried
    <3> QED
      BY <3>2, <2>1, <1>2
  <2>2. CASE j # 1
    <3>1. PICK l \in DOMAIN S : j = l + 1
      <4>1. j - 1 \in DOMAIN S /\ j = (j - 1) + 1
        BY <2>2, <1>2
      <4> QED
        BY <4>1
    <3>2. R[j] = S[l]
      BY <3>1, <1>2
    <3> QED
      BY <3>2, <1>3 DEF Carried
  <2> QED
    BY <2>1, <2>2
<1>4. ASSUME NEW x \in Joint \ {Sink}, \A j \in DOMAIN R : R[j].x # x
      PROVE  Outward(q, x) = Base(x, z)
  <2>1. ASSUME NEW j \in DOMAIN S
        PROVE  S[j].x # x
    <3>1. j + 1 \in DOMAIN R /\ R[j + 1] = S[j]
      BY <1>2
    <3> QED
      BY <3>1, <1>4
  <2> QED
    BY <2>1 DEF Carried
<1>5. Carried(q, R, z)
  BY <1>3, <1>4 DEF Carried
<1> QED
  BY <1>1, <1>5

-----------------------------------------------------------------------------
DITypes ==
  /\ Network(edges) /\ FN!WithinCapacity(edges)
  /\ marked \in SUBSET Joint /\ d \in Levels /\ cur \in Arcs
  /\ pc \in {"idle", "bfs", "dfs", "returned"}
  /\ queue \in Seq(Joint)
  /\ flow \in Int /\ total \in Int

DIInv ==
  /\ DITypes
  /\ pc \in {"idle", "returned"} => flow = 0
  /\ pc # "dfs" => Settled(edges, total + flow)
  /\ pc = "dfs" => Chained(edges, cur, d, descent) /\ Carried(edges, descent, total + flow)
  /\ UnderCuts(edges, total + flow)

(* What leaves the source and gets lost nowhere crosses every cut. *)
LEMMA SettledUnderCuts ==
  ASSUME NEW q, Network(q), FN!WithinCapacity(q), NEW z \in Int, Settled(q, z)
  PROVE  /\ Balanced(q) /\ Outward(q, Source) = z
         /\ UnderCuts(q, z)
<1>1. Balanced(q) /\ Outward(q, Source) = z
  BY EndsAreJoints DEF Settled, Balanced, Base
<1>2. ASSUME NEW S \in SUBSET (Joint \ {Source, Sink})
      PROVE  z <= Crossing(q, {Source} \cup S)
  <2>1. PICK U \in SUBSET Joint : U = {Source} \cup S
    BY EndsAreJoints
  <2>2. Source \in U /\ Sink \notin U
    BY <2>1, EndsAreJoints
  <2>3. Outward(q, Source) <= Crossing(q, U)
    BY <2>2, <1>1, CutFlow
  <2> QED
    BY <2>1, <2>3, <1>1
<1> QED
  BY <1>1, <1>2 DEF UnderCuts

(* What the innermost call has left and what it has sent, after an answer. *)
LEMMA FrameChanges ==
  ASSUME NEW v \in Frames, NEW f \in Nat, f <= v.a,
         NEW e, e = [x |-> v.x, a |-> v.a - f, flow |-> v.flow + f]
  PROVE  e \in Frames /\ e.x = v.x /\ e.a = v.a - f /\ e.flow = v.flow + f
<1>1. v.x \in Joint /\ v.a \in Nat /\ v.flow \in Nat
  BY DEF Frames
<1>2. PICK x \in Joint, l \in Nat, g \in Nat : x = v.x /\ l = v.a - f /\ g = v.flow + f
  BY <1>1
<1>3. e = [x |-> x, a |-> l, flow |-> g]
  BY <1>1, <1>2
<1>4. e \in Frames /\ e.x = v.x /\ e.a = l /\ e.flow = g
  BY <1>1, <1>3 DEF Frames
<1> QED
  BY <1>2, <1>4

LEMMA RoomIsNat ==
  ASSUME NEW q, Network(q), FN!WithinCapacity(q), NEW k \in DOMAIN q
  PROVE  FN!Room(q, k) \in Nat
<1>1. q[k].cap \in Nat /\ q[k].flow \in Int
  BY PiecesAre DEF Network
<1>2. q[k].flow <= q[k].cap
  BY DEF FN!WithinCapacity
<1> QED
  BY <1>1, <1>2 DEF FN!Room

(* The answer f to the innermost call of S. *)
Answered(q, c, S, f, r, b, R) ==
  /\ r = FN!Push(q, ArcOf(q, c, S[1].x), f)
  /\ R = <<[x |-> S[1].x, a |-> S[1].a - f, flow |-> S[1].flow + f]>> \o Tail(S)
  /\ b = IF f > 0 /\ S[1].a = f THEN c ELSE [c EXCEPT ![S[1].x] = @ + 1]

(* It leaves a stack of calls and a flow. *)
AnswerKept(q, D, S, f, r, b, R) ==
  /\ Network(r) /\ FN!WithinCapacity(r) /\ b \in Arcs
  /\ Chained(r, b, D, R)
  /\ \A U : Crossing(r, U) = Crossing(q, U)
  /\ \E e \in Frames : e.x = S[1].x /\ e.flow = S[1].flow + f /\ R = <<e>> \o Tail(S)

LEMMA AnswerKeeps ==
  ASSUME NEW q, Network(q), FN!WithinCapacity(q), NEW c \in Arcs, NEW D \in Levels,
         NEW S, Chained(q, c, D, S), c[S[1].x] <= Len(FN!Leaving(q, S[1].x)),
         NEW f \in Nat, f <= FN!Room(q, ArcOf(q, c, S[1].x)), f <= S[1].a,
         NEW r, NEW b, NEW R, Answered(q, c, S, f, r, b, R)
  PROVE  AnswerKept(q, D, S, f, r, b, R)
<1>1. S \in Seq(Frames) /\ S # <<>>
  BY DEF Chained
<1>2. Len(S) \in Nat /\ Len(S) >= 1 /\ S[1] \in Frames /\ S[1].x \in Joint
  <2>1. Len(S) \in Nat /\ Len(S) # 0 /\ 1 \in DOMAIN S
    BY <1>1
  <2> QED
    BY <2>1, <1>1, FramesAre
<1>3. PICK v \in Frames : v = S[1]
  BY <1>2
<1>4. PICK e : e = [x |-> v.x, a |-> v.a - f, flow |-> v.flow + f]
  OBVIOUS
<1>5. e \in Frames /\ e.x = S[1].x /\ e.a = S[1].a - f /\ e.flow = S[1].flow + f
  <2>1. f <= v.a
    BY <1>3
  <2> QED
    BY <2>1, <1>3, <1>4, FrameChanges
<1>6. R = <<e>> \o Tail(S)
  BY <1>3, <1>4 DEF Answered
<1>7. b \in Arcs /\ \A x \in Joint \ {S[1].x} : b[x] = c[x]
  <2>1. PICK y \in Joint : y = S[1].x
    BY <1>2
  <2>2. PICK g \in Nat \ {0} : g = c[y] + 1
    BY DEF Arcs
  <2>3. b = c \/ b = [c EXCEPT ![y] = g]
    BY <2>1, <2>2 DEF Answered
  <2> QED
    BY <2>1, <2>3 DEF Arcs
<1>8. PICK k \in DOMAIN q : k = ArcOf(q, c, S[1].x)
  <2>1. PICK y \in Joint : y = S[1].x
    BY <1>2
  <2> QED
    BY <2>1, ArcIs
<1>9. r = FN!Push(q, k, f) /\ f <= FN!Room(q, k)
  BY <1>8 DEF Answered
<1>10. FN!WithinCapacity(r)
  BY ONLY <1>9, Network(q), FN!WithinCapacity(q), k \in DOMAIN q, f \in Nat, PushKeepsWithin
<1>11. SameShape(r, q) /\ Network(r)
  <2>1. PICK g \in Int : g = f
    OBVIOUS
  <2>2. r = FN!Push(q, k, g)
    BY <1>9, <2>1
  <2> QED
    BY ONLY <2>2, Network(q), k \in DOMAIN q, g \in Int, PushIs
<1>12. \A U : Crossing(r, U) = Crossing(q, U)
  BY ONLY <1>11, Network(q), ShapeKept
<1>13. Chained(r, b, D, <<e>> \o Tail(S))
  BY <1>5, <1>7, <1>8, <1>9, AnswerChained
<1>14. \E o \in Frames : o.x = S[1].x /\ o.flow = S[1].flow + f /\ R = <<o>> \o Tail(S)
  BY <1>5, <1>6
<1> QED
  BY <1>6, <1>7, <1>10, <1>11, <1>12, <1>13, <1>14 DEF AnswerKept

(* The stack of calls of DI, in the terms of the invariant. *)
LEMMA TopFrameIs ==
  ASSUME NEW S, S = descent, S \in Seq(Frames), S # <<>>, cur \in Arcs, edges \in Seq(Pieces)
  PROVE  /\ DI!Top = S[1] /\ S[1] \in Frames /\ S[1].x \in Joint /\ S[1].a \in Nat /\ S[1].flow \in Nat
         /\ DI!Arc = ArcOf(edges, cur, S[1].x)
         /\ ~DI!Ended => cur[S[1].x] <= Len(FN!Leaving(edges, S[1].x))
<1>1. Len(S) \in Nat /\ Len(S) # 0 /\ Head(S) = S[1] /\ 1 \in DOMAIN S
  OBVIOUS
<1>2. DI!Top = S[1]
  BY <1>1 DEF DI!Top
<1>3. S[1] \in Frames /\ S[1].x \in Joint /\ S[1].a \in Nat /\ S[1].flow \in Nat
  BY <1>1, FramesAre
<1>4. DI!Arc = ArcOf(edges, cur, S[1].x)
  BY <1>2, DIIsNet DEF DI!Arc, ArcOf
<1>5. ASSUME ~DI!Ended
      PROVE  cur[S[1].x] <= Len(FN!Leaving(edges, S[1].x))
  <2>1. ~(cur[S[1].x] > Len(FN!Leaving(edges, S[1].x)))
    BY <1>2, <1>5, DIIsNet DEF DI!Ended
  <2>2. cur[S[1].x] \in Nat
    BY <1>3 DEF Arcs
  <2>3. Len(FN!Leaving(edges, S[1].x)) \in Nat
    BY LeavingHolds
  <2> QED
    BY <2>1, <2>2, <2>3
<1> QED
  BY <1>2, <1>3, <1>4, <1>5

LEMMA AnswerIs ==
  ASSUME NEW S, S \in Seq(Frames), S # <<>>, NEW f, DI!Answer(S, f)
  PROVE  Answered(edges, cur, S, f, edges', cur', descent')
<1>1. Head(S) = S[1]
  OBVIOUS
<1> QED
  BY <1>1, DIIsNet DEF DI!Answer, Answered, ArcOf

-----------------------------------------------------------------------------
LEMMA DIInit == DI!Init => DIInv
<1> SUFFICES ASSUME DI!Init PROVE DIInv
  OBVIOUS
<1> USE DEF DI!Init
<1>1. Network(edges) /\ FN!WithinCapacity(edges) /\ \A v : Outward(edges, v) = 0
  BY NoPipes
<1>2. DITypes
  BY <1>1, EndsAreJoints DEF DITypes, Levels, Arcs
<1>3. Settled(edges, total + flow)
  BY <1>1 DEF Settled, Base
<1>4. UnderCuts(edges, total + flow)
  <2>1. PICK z \in Int : z = total + flow
    OBVIOUS
  <2> QED
    BY <2>1, <1>1, <1>3, SettledUnderCuts
<1> QED
  BY <1>2, <1>3, <1>4 DEF DIInv

LEMMA DIAddPipe ==
  ASSUME DIInv, NEW e \in Pipes, DI!AddPipe(e)
  PROVE  DIInv'
<1>1. PICK x \in Joint, y \in Joint, c \in Nat : x = e[1] /\ y = e[2] /\ c = e[3]
  BY PipesAreEdges
<1>2. edges' = FN!AddEdge(edges, x, y, c)
  BY <1>1, DIIsNet DEF DI!AddPipe
<1>3. PICK r : r = edges'
  OBVIOUS
<1>4. Network(r) /\ FN!WithinCapacity(r) /\ \A v : Outward(r, v) = Outward(edges, v)
  <2>1. Network(edges) /\ FN!WithinCapacity(edges) /\ r = FN!AddEdge(edges, x, y, c)
    BY <1>2, <1>3 DEF DIInv, DITypes
  <2> QED
    BY <2>1, AddIs
<1>5. /\ pc \in {"idle", "returned"} /\ pc' = "idle"
      /\ marked' = marked /\ d' = d /\ cur' = cur /\ queue' = queue /\ flow' = flow /\ total' = total
  BY DEF DI!AddPipe
<1>6. DITypes'
  BY <1>3, <1>4, <1>5 DEF DIInv, DITypes
<1>7. PICK z \in Int : z = total + flow
  BY DEF DIInv, DITypes
<1>8. Settled(r, z)
  BY <1>4, <1>5, <1>7 DEF DIInv, Settled
<1>9. UnderCuts(r, z)
  BY <1>4, <1>8, SettledUnderCuts
<1> QED
  BY <1>3, <1>5, <1>6, <1>7, <1>8, <1>9 DEF DIInv

LEMMA StartTyped ==
  ASSUME DITypes, DI!StartBFS
  PROVE  pc' = "bfs" /\ queue' \in Seq(Joint) /\ d' \in Levels /\ marked' \in SUBSET Joint
<1>1. <<Source>> \in Seq(Joint) /\ {Source} \in SUBSET Joint
  BY EndsAreJoints
<1>2. PICK g \in Nat : g = 0
  OBVIOUS
<1>3. [d EXCEPT ![Source] = g] \in Levels
  BY DEF DITypes, Levels
<1> QED
  BY <1>1, <1>2, <1>3 DEF DI!StartBFS

LEMMA DIMaxFlow ==
  ASSUME DIInv, DI!MaxFlow
  PROVE  DIInv'
<1>1. /\ pc \in {"idle", "returned"} /\ edges' = edges /\ total' = total /\ cur' = cur /\ flow' = 0
      /\ DI!StartBFS
  BY DEF DI!MaxFlow
<1>2. flow = 0 /\ DITypes /\ Settled(edges, total + flow) /\ UnderCuts(edges, total + flow)
  BY <1>1 DEF DIInv
<1>3. pc' = "bfs" /\ queue' \in Seq(Joint) /\ d' \in Levels /\ marked' \in SUBSET Joint
  BY <1>1, <1>2, StartTyped
<1>4. DITypes'
  BY <1>1, <1>2, <1>3 DEF DITypes
<1> QED
  BY <1>1, <1>2, <1>3, <1>4 DEF DIInv

LEMMA DIINFIsNat == DI!INF \in Nat
BY DEF DI!INF

LEMMA DILevelled ==
  ASSUME DIInv, DI!Levelled
  PROVE  DIInv'
<1>1. /\ pc = "bfs" /\ pc' = "dfs" /\ cur' = [x \in Joint |-> 1] /\ descent' = <<DI!Frame(Source, DI!INF)>>
      /\ edges' = edges /\ marked' = marked /\ d' = d /\ queue' = queue /\ flow' = flow /\ total' = total
  BY DEF DI!Levelled
<1>2. DITypes /\ Settled(edges, total + flow) /\ UnderCuts(edges, total + flow)
  BY <1>1 DEF DIInv
<1>i. PICK m \in Nat : m = DI!INF
  BY DIINFIsNat
<1>p. PICK o : o = [x |-> Source, a |-> m, flow |-> 0]
  OBVIOUS
<1>q. o \in Frames /\ o.x = Source /\ o.flow = 0 /\ o = DI!Frame(Source, DI!INF)
  BY <1>i, <1>p, EndsAreJoints DEF Frames, DI!Frame
<1>3. PICK e \in Frames : e = DI!Frame(Source, DI!INF) /\ e.x = Source /\ e.flow = 0
  BY <1>q
<1>4. PICK R : R = <<e>>
  OBVIOUS
<1>5. R \in Seq(Frames) /\ R # <<>> /\ Len(R) = 1 /\ DOMAIN R = {1} /\ R[1] = e
  BY <1>4
<1>6. cur' \in Arcs
  BY <1>1 DEF Arcs
<1>7. Chained(edges, cur', d, R)
  <2>1. R[Len(R)].x = Source /\ \A j \in DOMAIN R : j = 1 /\ R[j].x # Sink
    BY <1>3, <1>5, EndsAreJoints
  <2>2. \A j, l \in DOMAIN R : ~(j < l)
    BY <1>5
  <2> QED
    BY <2>1, <2>2, <1>5 DEF Chained
<1>8. PICK z \in Int : z = total + flow
  BY <1>2 DEF DITypes
<1>9. Carried(edges, R, z)
  <2>1. \A x : Base(x, z) \in Int
    BY BaseIs
  <2>2. \A x \in Joint \ {Sink} : Outward(edges, x) = Base(x, z) /\ Base(x, z) = Base(x, z) + 0
    BY <2>1, <1>2, <1>8 DEF Settled
  <2>3. \A j \in DOMAIN R : R[j].flow = 0
    BY <1>3, <1>5
  <2> QED
    BY <2>2, <2>3 DEF Carried
<1>10. DITypes'
  BY <1>1, <1>2, <1>6 DEF DITypes
<1>11. descent' = R
  BY <1>1, <1>3, <1>4
<1> QED
  BY <1>1, <1>2, <1>7, <1>8, <1>9, <1>10, <1>11 DEF DIInv

LEMMA DIReturn ==
  ASSUME DIInv, DI!Return
  PROVE  DIInv'
<1>1. /\ pc = "bfs" /\ pc' = "returned" /\ total' = total + flow /\ flow' = 0
      /\ edges' = edges /\ marked' = marked /\ d' = d /\ cur' = cur /\ queue' = queue
  BY DEF DI!Return
<1>2. DITypes /\ Settled(edges, total + flow) /\ UnderCuts(edges, total + flow)
  BY <1>1 DEF DIInv
<1>3. total' + flow' = total + flow
  BY <1>1, <1>2 DEF DITypes
<1>4. DITypes'
  BY <1>1, <1>2 DEF DITypes
<1> QED
  BY <1>1, <1>2, <1>3, <1>4 DEF DIInv

LEMMA InCalls ==
  ASSUME DIInv, pc = "dfs"
  PROVE  /\ DITypes /\ Network(edges) /\ FN!WithinCapacity(edges) /\ edges \in Seq(Pieces)
         /\ cur \in Arcs /\ d \in Levels
         /\ Chained(edges, cur, d, descent) /\ Carried(edges, descent, total + flow)
         /\ descent \in Seq(Frames) /\ descent # <<>>
         /\ UnderCuts(edges, total + flow) /\ total + flow \in Int
<1>1. DITypes /\ Chained(edges, cur, d, descent) /\ Carried(edges, descent, total + flow)
      /\ UnderCuts(edges, total + flow)
  BY DEF DIInv
<1>2. /\ Network(edges) /\ FN!WithinCapacity(edges) /\ cur \in Arcs /\ d \in Levels
      /\ flow \in Int /\ total \in Int
  BY <1>1 DEF DITypes
<1>3. edges \in Seq(Pieces)
  BY <1>2 DEF Network
<1>4. descent \in Seq(Frames) /\ descent # <<>>
  BY <1>1 DEF Chained
<1>5. total + flow \in Int
  BY <1>2
<1> QED
  BY <1>1, <1>2, <1>3, <1>4, <1>5

(* What the callers wait for does not depend on the arc of the innermost   *)
(* call.                                                                   *)
LEMMA NextArcChained ==
  ASSUME NEW q, NEW c \in Arcs, NEW D \in Levels, NEW S, Chained(q, c, D, S),
         NEW b \in Arcs, \A x \in Joint \ {S[1].x} : b[x] = c[x]
  PROVE  Chained(q, b, D, S)
<1>1. S \in Seq(Frames) /\ S # <<>>
  BY DEF Chained
<1>2. DOMAIN S = 1..Len(S) /\ Len(S) \in Nat /\ 1 \in DOMAIN S /\ \A j \in DOMAIN S : S[j].x \in Joint
  <2>1. DOMAIN S = 1..Len(S) /\ Len(S) \in Nat /\ Len(S) # 0
    BY <1>1
  <2> QED
    BY <2>1, <1>1, FramesAre
<1>3. ASSUME NEW j \in DOMAIN S, j # 1
      PROVE  Waits(q, b, S[j - 1], S[j])
  <2>1. PICK v : v = S[j]
    OBVIOUS
  <2>2. v.x \in Joint /\ v.x # S[1].x
    BY <2>1, <1>2, <1>3, CallsDiffer
  <2>3. b[v.x] = c[v.x]
    BY <2>2
  <2>4. Waits(q, c, S[j - 1], v)
    BY <1>3, <2>1 DEF Chained
  <2> QED
    BY <2>1, <2>3, <2>4 DEF Waits, ArcOf
<1> QED
  BY <1>3 DEF Chained

LEMMA DINotNextLevel ==
  ASSUME DIInv, DI!NotNextLevel
  PROVE  DIInv'
<1>1. /\ pc = "dfs" /\ pc' = pc /\ cur' = [cur EXCEPT ![DI!Top.x] = @ + 1] /\ descent' = descent
      /\ edges' = edges /\ marked' = marked /\ d' = d /\ queue' = queue /\ flow' = flow /\ total' = total
  BY DEF DI!NotNextLevel
<1>2. PICK S : S = descent
  OBVIOUS
<1>3. /\ DITypes /\ edges \in Seq(Pieces) /\ cur \in Arcs /\ d \in Levels
      /\ Chained(edges, cur, d, S) /\ S \in Seq(Frames) /\ S # <<>>
  BY <1>1, <1>2, InCalls
<1>4. PICK y \in Joint : y = S[1].x /\ y = DI!Top.x
  BY <1>2, <1>3, TopFrameIs
<1>5. PICK g \in Nat \ {0} : g = cur[y] + 1
  BY <1>3 DEF Arcs
<1>6. cur' = [cur EXCEPT ![y] = g]
  BY <1>1, <1>4, <1>5
<1>7. PICK b \in Arcs : b = [cur EXCEPT ![y] = g]
  BY <1>3 DEF Arcs
<1>8. \A x \in Joint \ {S[1].x} : b[x] = cur[x]
  BY <1>3, <1>4, <1>7 DEF Arcs
<1>9. Chained(edges, b, d, S)
  BY <1>3, <1>8, NextArcChained
<1>10. DITypes'
  BY <1>1, <1>3, <1>6, <1>7 DEF DITypes
<1> QED
  BY <1>1, <1>2, <1>6, <1>7, <1>9, <1>10 DEF DIInv

LEMMA DINextBFS ==
  ASSUME DIInv, DI!NextBFS
  PROVE  DIInv'
<1>1. /\ pc = "dfs" /\ Len(descent) = 1 /\ flow' = flow + DI!Top.flow /\ DI!StartBFS
      /\ edges' = edges /\ cur' = cur /\ total' = total
  BY DEF DI!NextBFS
<1>2. PICK S : S = descent
  OBVIOUS
<1>3. /\ DITypes /\ edges \in Seq(Pieces) /\ cur \in Arcs /\ d \in Levels
      /\ Network(edges) /\ FN!WithinCapacity(edges)
      /\ Chained(edges, cur, d, S) /\ S \in Seq(Frames) /\ S # <<>>
      /\ Carried(edges, S, total + flow)
  BY <1>1, <1>2, InCalls
<1>4. S[1].x = Source /\ DOMAIN S = {1}
  <2>0. Len(S) = 1
    BY <1>1, <1>2
  <2>1. Len(S) = 1 /\ DOMAIN S = 1..Len(S)
    BY <2>0, <1>3, FramesAre
  <2> QED
    BY <2>1, <1>3 DEF Chained
<1>5. PICK f \in Nat : f = S[1].flow /\ flow' = flow + f
  BY <1>1, <1>2, <1>3, TopFrameIs
<1>6. PICK y \in Int : y = total + flow
  BY <1>3 DEF DITypes
<1>t. flow \in Int /\ total \in Int
  BY <1>3 DEF DITypes
<1>7. PICK z \in Int : z = y + f /\ total' + flow' = z
  <2>1. total' = total /\ flow' = flow + f /\ y = total + flow
    BY <1>1, <1>5, <1>6
  <2>2. total' + flow' = y + f
    BY ONLY <2>1, <1>t, f \in Nat, y \in Int
  <2> QED
    BY <2>2
<1>8. Settled(edges, z)
  <2>1. ASSUME NEW x \in Joint \ {Sink}
        PROVE  Outward(edges, x) = Base(x, z)
    <3>1. CASE x = Source
      <4>1. Outward(edges, x) = Base(x, y) + S[1].flow
        BY <3>1, <1>3, <1>4, <1>6 DEF Carried
      <4> QED
        BY <4>1, <3>1, <1>5, <1>7 DEF Base
    <3>2. CASE x # Source
      <4>1. Outward(edges, x) = Base(x, y)
        BY <3>2, <1>3, <1>4, <1>6 DEF Carried
      <4> QED
        BY <4>1, <3>2 DEF Base
    <3> QED
      BY <3>1, <3>2
  <2> QED
    BY <2>1 DEF Settled
<1>9. UnderCuts(edges, z)
  BY <1>3, <1>8, SettledUnderCuts
<1>10. pc' = "bfs" /\ queue' \in Seq(Joint) /\ d' \in Levels /\ marked' \in SUBSET Joint
  BY <1>1, <1>3, StartTyped
<1>11. DITypes'
  BY <1>1, <1>3, <1>5, <1>10 DEF DITypes
<1> QED
  BY <1>1, <1>7, <1>8, <1>9, <1>10, <1>11 DEF DIInv

(* An answer keeps the invariant if what flows is accounted for. *)
LEMMA AnswerTyped ==
  ASSUME DIInv, pc = "dfs", pc' = pc,
         Network(edges'), FN!WithinCapacity(edges'), cur' \in Arcs,
         Chained(edges', cur', d, descent'), Carried(edges', descent', total + flow),
         NEW r, r = edges', \A U : Crossing(r, U) = Crossing(edges, U),
         marked' = marked, d' = d, queue' = queue, flow' = flow, total' = total
  PROVE  DIInv'
<1>1. DITypes /\ UnderCuts(edges, total + flow)
  BY InCalls
<1>2. DITypes'
  BY <1>1 DEF DITypes
<1>3. PICK z \in Int : z = total + flow
  BY <1>1 DEF DITypes
<1>4. UnderCuts(r, z)
  BY <1>1, <1>3 DEF UnderCuts
<1> QED
  BY <1>1, <1>2, <1>3, <1>4 DEF DIInv

LEMMA DIAscend ==
  ASSUME DIInv, DI!Ascend
  PROVE  DIInv'
<1>1. /\ pc = "dfs" /\ pc' = pc /\ Len(descent) > 1 /\ DI!Answer(Tail(descent), DI!Top.flow)
      /\ marked' = marked /\ d' = d /\ queue' = queue /\ flow' = flow /\ total' = total
  BY DEF DI!Ascend
<1>2. PICK S, q, c, D, z : S = descent /\ q = edges /\ c = cur /\ D = d /\ z = total + flow
  OBVIOUS
<1>3. /\ q \in Seq(Pieces) /\ c \in Arcs /\ D \in Levels /\ z \in Int
      /\ Network(q) /\ FN!WithinCapacity(q)
      /\ Chained(q, c, D, S) /\ S \in Seq(Frames) /\ S # <<>> /\ Len(S) > 1
      /\ Carried(q, S, z)
  BY <1>1, <1>2, InCalls
<1>4. PICK f \in Nat : f = S[1].flow /\ f = DI!Top.flow
  BY <1>2, <1>3, TopFrameIs
<1>5. PICK T : T = Tail(S)
  OBVIOUS
<1>6. T \in Seq(Frames) /\ T # <<>> /\ T[1] = S[2] /\ 2 \in DOMAIN S /\ 1 \in DOMAIN S
  <2>1. /\ Len(S) \in Nat /\ DOMAIN S = 1..Len(S)
        /\ T \in Seq(Frames) /\ Len(T) = Len(S) - 1
        /\ \A j \in 1..Len(S) - 1 : T[j] = S[j + 1]
    BY ONLY <1>3, <1>5, Popped
  <2>2. 1 \in 1..Len(S) - 1 /\ 2 = 1 + 1
    BY <1>3, <2>1
  <2>3. T[1] = S[1 + 1]
    BY <2>1, <2>2
  <2> QED
    BY <2>1, <2>2, <2>3
<1>7. Chained(q, c, D, T)
  BY ONLY <1>3, <1>5, TailChained
<1>8. PICK r, b, R : r = edges' /\ b = cur' /\ R = descent'
  OBVIOUS
<1>9. Answered(q, c, T, f, r, b, R)
  <2>1. DI!Answer(T, f)
    BY <1>1, <1>2, <1>4, <1>5
  <2>2. Answered(edges, cur, T, f, edges', cur', descent')
    BY <1>6, <2>1, AnswerIs
  <2> QED
    BY <1>2, <1>8, <2>2
<1>10. /\ c[T[1].x] <= Len(FN!Leaving(q, T[1].x)) /\ q[ArcOf(q, c, T[1].x)].to = S[1].x
       /\ f <= FN!Room(q, ArcOf(q, c, T[1].x)) /\ f <= T[1].a
  <2>0. \A l \in DOMAIN S : l # 1 => Waits(q, c, S[l - 1], S[l])
    BY <1>3 DEF Chained
  <2>1. Waits(q, c, S[1], S[2])
    <3>1. 2 - 1 = 1 /\ 2 # 1
      OBVIOUS
    <3>2. Waits(q, c, S[2 - 1], S[2])
      BY ONLY <2>0, <1>6, <3>1
    <3> QED
      BY <3>1, <3>2
  <2>2. S[1].a \in Nat /\ S[1].flow \in Nat /\ S[2].a \in Nat /\ S[2].x \in Joint
    BY <1>3, <1>6, FramesAre
  <2>3. /\ c[T[1].x] <= Len(FN!Leaving(q, T[1].x)) /\ q[ArcOf(q, c, T[1].x)].to = S[1].x
        /\ S[1].a + S[1].flow <= FN!Room(q, ArcOf(q, c, T[1].x)) /\ S[1].a + S[1].flow <= T[1].a
    BY <2>1, <1>6 DEF Waits
  <2>4. PICK k \in DOMAIN q : k = ArcOf(q, c, T[1].x)
    BY <2>2, <2>3, <1>3, <1>6, ArcIs
  <2>5. FN!Room(q, k) \in Nat
    BY <1>3, RoomIsNat
  <2>6. S[1].a + S[1].flow <= FN!Room(q, k)
    BY <2>3, <2>4
  <2>7. f <= FN!Room(q, k)
    BY ONLY <2>2, <2>5, <2>6, <1>4
  <2>8. f <= T[1].a
    BY ONLY <2>2, <2>3, <1>4, <1>6
  <2> QED
    BY <2>3, <2>4, <2>7, <2>8
<1>11. /\ Network(r) /\ FN!WithinCapacity(r) /\ b \in Arcs
       /\ Chained(r, b, D, R)
       /\ \A U : Crossing(r, U) = Crossing(q, U)
       /\ \E e \in Frames : e.x = T[1].x /\ e.flow = T[1].flow + f /\ R = <<e>> \o Tail(T)
  <2>1. AnswerKept(q, D, T, f, r, b, R)
    BY ONLY <1>3, f \in Nat, <1>7, <1>9, <1>10, AnswerKeeps
  <2> QED
    BY <2>1 DEF AnswerKept
<1>12. PICK e \in Frames : e.x = T[1].x /\ e.flow = T[1].flow + f /\ R = <<e>> \o Tail(T)
  BY <1>11
<1>13. PICK k \in DOMAIN q : k = ArcOf(q, c, T[1].x) /\ q[k].from = T[1].x
  <2>1. T[1].x \in Joint
    BY <1>3, <1>6, FramesAre
  <2> QED
    BY <2>1, <1>3, <1>10, ArcIs
<1>14. q[k].from = S[2].x /\ q[k].to = S[1].x /\ r = FN!Push(q, k, f) /\ e.x = S[2].x /\ e.flow = S[2].flow + f
  BY <1>6, <1>9, <1>10, <1>12, <1>13 DEF Answered
<1>15. Carried(r, R, z)
  <2>1. Carried(r, <<e>> \o Tail(Tail(S)), z)
    BY ONLY <1>3, <1>4, <1>14, k \in DOMAIN q, f \in Nat, e \in Frames, ReturnCarried
  <2> QED
    BY <2>1, <1>5, <1>12
<1> QED
  BY <1>1, <1>2, <1>8, <1>11, <1>15, AnswerTyped

LEMMA DIDescend ==
  ASSUME DIInv, DI!Descend
  PROVE  DIInv'
<1>1. /\ pc = "dfs" /\ pc' = pc /\ ~DI!Ended
      /\ d[edges[DI!Arc].to] = d[DI!Top.x] + 1
      /\ marked' = marked /\ d' = d /\ queue' = queue /\ flow' = flow /\ total' = total
  BY DEF DI!Descend
<1>2. PICK S, q, c, D, z : S = descent /\ q = edges /\ c = cur /\ D = d /\ z = total + flow
  OBVIOUS
<1>3. /\ q \in Seq(Pieces) /\ c \in Arcs /\ D \in Levels /\ z \in Int
      /\ Network(q) /\ FN!WithinCapacity(q)
      /\ Chained(q, c, D, S) /\ S \in Seq(Frames) /\ S # <<>>
      /\ Carried(q, S, z)
  BY <1>1, <1>2, InCalls
<1>4. /\ DI!Top = S[1] /\ S[1] \in Frames /\ S[1].x \in Joint /\ S[1].a \in Nat /\ S[1].flow \in Nat
      /\ DI!Arc = ArcOf(q, c, S[1].x)
      /\ c[S[1].x] <= Len(FN!Leaving(q, S[1].x))
  BY <1>1, <1>2, <1>3, TopFrameIs
<1>5. PICK k \in DOMAIN q : k = ArcOf(q, c, S[1].x) /\ q[k].from = S[1].x
  BY <1>3, <1>4, ArcIs
<1>6. PICK m \in Nat : m = FN!Room(q, k)
  BY <1>3, RoomIsNat
<1>7. PICK y \in Joint : y = q[k].to
  BY <1>3, PiecesAre
<1>8. D[y] = D[S[1].x] + 1
  BY <1>1, <1>2, <1>4, <1>5, <1>7
<1>9. PICK j \in Nat : j = S[1].a
  BY <1>4
<1>10. PICK f \in Nat : f = DI!Min({j, m}) /\ f <= j /\ f <= m
  <2>1. DI!Min({j, m}) = IF j <= m THEN j ELSE m
    BY DIMinIs
  <2> QED
    BY <2>1
<1>11. IF y = Sink \/ f = 0
         THEN DI!Answer(descent, f)
         ELSE descent' = <<DI!Frame(y, f)>> \o descent /\ edges' = edges /\ cur' = cur
  <2>1. f = DI!Min({DI!Top.a, DI!Room(edges, DI!Arc)})
    BY <1>2, <1>4, <1>5, <1>6, <1>9, <1>10, DIIsNet
  <2>2. edges[DI!Arc].to = y
    BY <1>2, <1>4, <1>5, <1>7
  <2> QED
    BY <2>1, <2>2, Zenon DEF DI!Descend
<1>12. CASE y = Sink \/ f = 0
  <2>8. PICK r, b, R : r = edges' /\ b = cur' /\ R = descent'
    OBVIOUS
  <2>9. Answered(q, c, S, f, r, b, R)
    <3>1. DI!Answer(S, f)
      BY <1>2, <1>11, <1>12
    <3>2. Answered(edges, cur, S, f, edges', cur', descent')
      BY <1>3, <3>1, AnswerIs
    <3> QED
      BY <1>2, <2>8, <3>2
  <2>10. f <= FN!Room(q, ArcOf(q, c, S[1].x)) /\ f <= S[1].a
    BY <1>5, <1>6, <1>9, <1>10
  <2>11. /\ Network(r) /\ FN!WithinCapacity(r) /\ b \in Arcs
         /\ Chained(r, b, D, R)
         /\ \A U : Crossing(r, U) = Crossing(q, U)
         /\ \E e \in Frames : e.x = S[1].x /\ e.flow = S[1].flow + f /\ R = <<e>> \o Tail(S)
    <3>1. AnswerKept(q, D, S, f, r, b, R)
      BY ONLY <1>3, <1>4, f \in Nat, <2>9, <2>10, AnswerKeeps
    <3> QED
      BY <3>1 DEF AnswerKept
  <2>12. PICK e \in Frames : e.x = S[1].x /\ e.flow = S[1].flow + f /\ R = <<e>> \o Tail(S)
    BY <2>11
  <2>13. r = FN!Push(q, k, f) /\ (q[k].to = Sink \/ f = 0) /\ q[k].from = S[1].x
    BY <1>5, <1>7, <1>12, <2>9 DEF Answered
  <2>14. Carried(r, R, z)
    BY ONLY <1>3, <2>12, <2>13, k \in DOMAIN q, f \in Nat, e \in Frames, AnswerCarried
  <2> QED
    BY <1>1, <1>2, <2>8, <2>11, <2>14, AnswerTyped
<1>13. CASE ~(y = Sink \/ f = 0)
  <2>1. descent' = <<DI!Frame(y, f)>> \o descent /\ edges' = edges /\ cur' = cur
    BY <1>11, <1>13
  <2>2. PICK e : e = DI!Frame(y, f)
    OBVIOUS
  <2>3. e \in Frames /\ e.x = y /\ e.a = f /\ e.flow = 0
    BY <2>2 DEF Frames, DI!Frame
  <2>4. PICK R : R = <<e>> \o S
    OBVIOUS
  <2>5. Waits(q, c, e, S[1])
    <3>1. f + 0 <= m /\ f + 0 <= j
      BY <1>10
    <3> QED
      BY <3>1, <2>3, <1>4, <1>5, <1>6, <1>7, <1>9 DEF Waits
  <2>6. Chained(q, c, D, R)
    <3>1. e.x # Sink /\ D[e.x] = D[S[1].x] + 1
      BY <1>8, <1>13, <2>3
    <3> QED
      BY ONLY <3>1, <1>3, <2>3, <2>4, <2>5, CallChained
  <2>7. \A l \in DOMAIN S : S[l].x # e.x
    <3>1. /\ Len(S) \in Nat /\ DOMAIN S = 1..Len(S) /\ DOMAIN R = 1..Len(S) + 1
          /\ R[1] = e /\ \A l \in 1..Len(S) : R[l + 1] = S[l]
      BY ONLY <1>3, <2>3, <2>4, Pushed
    <3> TAKE l \in DOMAIN S
    <3>2. 1 \in DOMAIN R /\ l + 1 \in DOMAIN R /\ l + 1 # 1 /\ R[l + 1] = S[l]
      BY <3>1
    <3>3. PICK w \in DOMAIN R, v \in DOMAIN R : w = 1 /\ v = l + 1 /\ w # v
      BY <3>2
    <3>4. R[w].x # R[v].x
      BY ONLY <2>6, w \in DOMAIN R, v \in DOMAIN R, <3>3, CallsDiffer, <1>3
    <3> QED
      BY <3>1, <3>2, <3>3, <3>4
  <2>8. Carried(q, R, z)
    BY ONLY <1>3, <2>3, <2>4, <2>7, CallCarried
  <2>9. DITypes'
    BY <1>1, <2>1, InCalls DEF DITypes
  <2>10. descent' = R
    BY <1>2, <2>1, <2>2, <2>4
  <2>11. UnderCuts(edges, total + flow)
    BY <1>1, InCalls
  <2> QED
    BY <1>1, <1>2, <2>1, <2>6, <2>8, <2>9, <2>10, <2>11 DEF DIInv
<1> QED
  BY <1>12, <1>13

LEMMA DIMaxIs ==
  ASSUME NEW U
  PROVE  DI!Max(U) = Highest(U)
BY Zenon DEF DI!Max, Highest

Marks == [vis : SUBSET Joint, d : Levels, queue : Seq(Joint)]

(* What the loop of BFS does with one edge. *)
Mark(x, st, k) ==
  IF edges[k].to \notin st.vis /\ edges[k].cap > edges[k].flow
    THEN [vis |-> st.vis \cup {x},
          d |-> [st.d EXCEPT ![edges[k].to] = st.d[x] + 1],
          queue |-> Append(st.queue, edges[k].to)]
    ELSE st

LEMMA MarkTyped ==
  ASSUME DITypes, NEW x \in Joint, NEW st \in Marks, NEW k \in DOMAIN edges
  PROVE  Mark(x, st, k) \in Marks
<1>1. PICK y \in Joint : y = edges[k].to
  BY PiecesAre DEF DITypes, Network
<1>2. st.vis \in SUBSET Joint /\ st.d \in Levels /\ st.queue \in Seq(Joint)
  BY DEF Marks
<1>3. PICK g \in Nat : g = st.d[x] + 1
  BY <1>2 DEF Levels
<1>4. st.vis \cup {x} \in SUBSET Joint /\ [st.d EXCEPT ![y] = g] \in Levels /\ Append(st.queue, y) \in Seq(Joint)
  BY <1>2 DEF Levels
<1>5. [vis |-> st.vis \cup {x}, d |-> [st.d EXCEPT ![y] = g], queue |-> Append(st.queue, y)] \in Marks
  BY <1>4 DEF Marks
<1> QED
  BY <1>1, <1>3, <1>5, Zenon DEF Mark

LEMMA DIScanTyped ==
  ASSUME DITypes, queue # <<>>, NEW x \in Joint
  PROVE  DI!Scan(x) \in Marks
<1> DEFINE l == DI!Leaving(edges, x)
           c == [vis |-> marked, d |-> d, queue |-> Tail(queue)]
           Unfolded(f) == f = [U \in SUBSET (DOMAIN l) |->
                                 IF U = {} THEN c
                                 ELSE Mark(x, f[U \ {DI!Max(U)}], l[DI!Max(U)])]
<1>p. PICK o, b : o = FN!Leaving(edges, x) /\ b = [vis |-> marked, d |-> d, queue |-> Tail(queue)]
  OBVIOUS
<1> DEFINE S == DOMAIN o
           m == Len(o)
           g == [z \in (1..m) \X Marks |-> Mark(x, z[2], o[z[1]])]
           Folds(f) == f = [U \in SUBSET S |->
                              IF U = {} THEN b
                              ELSE Mark(x, f[U \ {DI!Max(U)}], o[DI!Max(U)])]
<1>0. edges \in Seq(Pieces)
  BY DEF DITypes, Network
<1>1. b \in Marks
  <2>1. Tail(queue) \in Seq(Joint)
    BY DEF DITypes
  <2> QED
    BY <2>1, <1>p DEF Marks, DITypes
<1>2. m \in Nat /\ S = 1..m /\ \A j \in 1..m : o[j] \in DOMAIN edges
  BY <1>0, <1>p, LeavingHolds
<1>3. \A t \in Marks, k \in 1..m : g[<<k, t>>] = Mark(x, t, o[k]) /\ g[<<k, t>>] \in Marks
  BY <1>2, MarkTyped
<1> HIDE DEF g, m, S, Folds, Unfolded
<1>4. PICK f : FoldsLeft(f, m, b, g) /\ \A U \in SUBSET (1..m) : f[U] \in Marks
  <2>1. \A t \in Marks, k \in 1..m : g[<<k, t>>] \in Marks
    BY <1>3
  <2> QED
    BY <1>1, <1>2, <2>1, LeftFold
<1>5. Folds(f)
  <2>1. ASSUME NEW U \in SUBSET (1..m)
        PROVE  f[U] = IF U = {} THEN b ELSE Mark(x, f[U \ {DI!Max(U)}], o[DI!Max(U)])
    <3>1. f[U] = IF U = {} THEN b ELSE g[<<Highest(U), f[U \ {Highest(U)}]>>]
      BY <1>4, Zenon DEF FoldsLeft
    <3>2. CASE U = {}
      BY <3>1, <3>2, Zenon
    <3>3. CASE U # {}
      <4>1. PICK k \in U : k = Highest(U)
        BY <1>2, <3>3, HighestChooses
      <4>2. k = DI!Max(U) /\ k \in 1..m /\ f[U \ {k}] \in Marks
        BY <1>4, <4>1, DIMaxIs
      <4>3. g[<<k, f[U \ {k}]>>] = Mark(x, f[U \ {k}], o[k])
        BY <1>3, <4>2
      <4> QED
        BY <3>1, <3>3, <4>1, <4>2, <4>3, Zenon
    <3> QED
      BY <3>2, <3>3
  <2>2. f = [U \in SUBSET (1..m) |-> f[U]]
    BY <1>4, Zenon DEF FoldsLeft
  <2> QED
    BY <1>2, <2>1, <2>2, Zenon DEF Folds
<1>6. PICK h : h = CHOOSE e : Folds(e)
  OBVIOUS
<1>7. Folds(h)
  BY <1>5, <1>6, Zenon
<1>8. DI!Scan(x) = h[S]
  <2>1. l = o /\ c = b
    BY <1>p, DIIsNet
  <2>2. DI!Scan(x) = (CHOOSE e : Unfolded(e))[DOMAIN l]
    BY Zenon DEF DI!Scan, DI!FoldLeft, DI!MapThenFoldSet, Mark, Unfolded
  <2> HIDE DEF l, c
  <2>3. ASSUME NEW e
        PROVE  Unfolded(e) <=> Folds(e)
    BY <2>1, Zenon DEF Unfolded, Folds, S
  <2>4. (CHOOSE e : Unfolded(e)) = (CHOOSE e : Folds(e))
    BY <2>3, Zenon
  <2> QED
    BY <2>1, <2>2, <2>4, <1>6, Zenon DEF S
<1>9. \A U \in SUBSET (1..m) : h[U] = IF U = {} THEN b ELSE Mark(x, h[U \ {DI!Max(U)}], o[DI!Max(U)])
  BY <1>2, <1>7, Zenon DEF Folds
<1> DEFINE R == {U \in SUBSET (1..m) : h[U] \in Marks}
<1>10. ASSUME NEW U \in SUBSET (1..m), \A y \in U : U \ {y} \in R
       PROVE  U \in R
  <2>1. CASE U = {}
    <3>1. h[U] = b
      BY <2>1, <1>9
    <3> QED
      BY <3>1, <1>1
  <2>2. CASE U # {}
    <3>1. PICK k \in U : k = DI!Max(U)
      BY <1>2, <2>2, HighestChooses, DIMaxIs
    <3>2. U \ {k} \in R /\ o[k] \in DOMAIN edges
      BY <1>2, <1>10
    <3>3. h[U] = Mark(x, h[U \ {k}], o[k])
      BY <1>9, <2>2, <3>1, Zenon
    <3>4. h[U \ {k}] \in Marks
      BY <3>2
    <3>5. Mark(x, h[U \ {k}], o[k]) \in Marks
      BY <3>2, <3>4, MarkTyped
    <3> QED
      BY <3>3, <3>5
  <2> QED
    BY <2>1, <2>2
<1>11. 1..m \in R
  <2>1. IsFiniteSet(1..m)
    BY <1>2, FS_Interval
  <2>2. \A U \in SUBSET (1..m) : (\A y \in U : U \ {y} \in R) => U \in R
    <3> HIDE DEF R
    <3> QED
      BY <1>10
  <2>3. PICK I : I = 1..m
    OBVIOUS
  <2> HIDE DEF R
  <2>4. \A U \in SUBSET I : U \in R
    BY ONLY <2>1, <2>2, <2>3, SubsetInduction
  <2> QED
    BY <2>3, <2>4
<1> QED
  BY <1>2, <1>8, <1>11

LEMMA DIExpand ==
  ASSUME DIInv, DI!Expand
  PROVE  DIInv'
<1>1. PICK t : t = DI!Scan(Head(queue))
  OBVIOUS
<1>2. /\ pc = "bfs" /\ queue # <<>> /\ marked' = t.vis /\ d' = t.d /\ queue' = t.queue
      /\ edges' = edges /\ cur' = cur /\ pc' = pc /\ flow' = flow /\ total' = total
  BY <1>1 DEF DI!Expand
<1>3. DITypes /\ Settled(edges, total + flow) /\ UnderCuts(edges, total + flow)
  BY <1>2 DEF DIInv
<1>4. PICK x \in Joint : x = Head(queue)
  BY <1>2, <1>3, TailIs DEF DITypes
<1>5. t \in Marks
  BY <1>1, <1>2, <1>3, <1>4, DIScanTyped
<1>6. t.vis \in SUBSET Joint /\ t.d \in Levels /\ t.queue \in Seq(Joint)
  BY <1>5 DEF Marks
<1>7. DITypes'
  BY <1>2, <1>3, <1>6 DEF DITypes
<1> QED
  BY <1>2, <1>3, <1>7 DEF DIInv

LEMMA DINext == DIInv /\ DI!Next => DIInv'
BY DIAddPipe, DIMaxFlow, DIExpand, DILevelled, DIReturn, DINotNextLevel, DIDescend, DIAscend, DINextBFS
   DEF DI!Next, DI!Step

LEMMA DIStutters == DIInv /\ UNCHANGED dinicVars => DIInv'
BY DEF DIInv, dinicVars, flowVars, DITypes

LEMMA DIImplies == DIInv => DI!FlowSound /\ DI!FlowBounded
<1> SUFFICES ASSUME DIInv PROVE DI!FlowSound /\ DI!FlowBounded
  OBVIOUS
<1>0. Network(edges) /\ FN!WithinCapacity(edges) /\ edges \in Seq(Pieces)
  BY DEF DIInv, DITypes, Network
<1>1. PICK z \in Int : z = total + flow
  BY DEF DIInv, DITypes
<1>2. ASSUME pc = "bfs"
      PROVE  DI!Conserves(edges, Joint, Source, Sink, total + flow)
  <2>1. Settled(edges, z)
    BY <1>1, <1>2 DEF DIInv
  <2>2. \A x \in Joint \ {Source, Sink} : Outward(edges, x) = 0
    BY <2>1 DEF Settled, Base
  <2>3. Balanced(edges) /\ Outward(edges, Source) = z
    BY <2>1, <1>0, SettledUnderCuts
  <2>4. Outward(edges, Sink) = -z
    BY <2>3, <1>0, SinkTakes
  <2>5. \A x : DI!Outflow(edges, x) = Outward(edges, x)
    BY <1>0, DIFoldsAre, OutflowIs
  <2> QED
    BY <1>1, <2>2, <2>3, <2>4, <2>5 DEF DI!Conserves
<1>3. DI!WithinCapacity(edges)
  BY <1>0, DIIsNet
<1>4. DI!FlowBounded
  <2>1. PICK V, x, y : V = Joint /\ x = Source /\ y = Sink
    OBVIOUS
  <2>2. \E T \in SUBSET (V \ {x, y}) : FN!MinCut(edges, V, x, y) = Crossing(edges, {x} \cup T)
    <3>1. PICK q \in Seq(Pieces) : q = edges
      BY <1>0
    <3>2. /\ \E T \in SUBSET (V \ {x, y}) : FN!MinCut(q, V, x, y) = Crossing(q, {x} \cup T)
          /\ \A T \in SUBSET (V \ {x, y}) : FN!MinCut(q, V, x, y) <= Crossing(q, {x} \cup T)
          /\ FN!MinCut(q, V, x, y) \in Nat
      BY MinCutIs, Zenon
    <3> QED
      BY <3>1, <3>2, Zenon
  <2>3. \E T \in SUBSET (Joint \ {Source, Sink}) : FN!MinCut(edges, Joint, Source, Sink) = Crossing(edges, {Source} \cup T)
    BY <2>1, <2>2, Zenon
  <2>4. \A T \in SUBSET (Joint \ {Source, Sink}) : total + flow <= Crossing(edges, {Source} \cup T)
    BY DEF DIInv, UnderCuts
  <2>5. total + flow <= FN!MinCut(edges, Joint, Source, Sink)
    BY <2>3, <2>4
  <2> QED
    BY <2>5, DIFoldsAre DEF DI!FlowBounded
<1> QED
  BY <1>2, <1>3, <1>4 DEF DI!FlowSound

-----------------------------------------------------------------------------
(* Strongly connected components.                                          *)

Verts == 1..VertexNum
Links == SUBSET (Verts \X Verts)

Onward(E, W) == W \cup {e[2] : e \in {f \in E : f[1] \in W}}
Shut(E, U) == \A e \in E : e[1] \in U => e[2] \in U

(* step of Reaches *)
Rounds(h, E, x) == h[0] = {x} /\ \A k \in Nat : h[k] \in SUBSET Verts /\ h[k + 1] = Onward(E, h[k])

LEMMA VertsAre == VertexNum \in Nat /\ IsFiniteSet(Verts) /\ Cardinality(Verts) = VertexNum
BY DigraphsOnVertices, FS_Interval DEF Verts

LEMMA OnwardTyped ==
  ASSUME NEW E \in Links, NEW W \in SUBSET Verts
  PROVE  Onward(E, W) \in SUBSET Verts
<1>1. \A e \in E : e[2] \in Verts
  BY DEF Links
<1> QED
  BY <1>1 DEF Onward

LEMMA RoundsExist ==
  ASSUME NEW E \in Links, NEW x \in Verts
  PROVE  \E h : Rounds(h, E, x) /\ SC!Reaches(E, x) = h[VertexNum]
<1> DEFINE T == SUBSET Verts
           g == [W \in T |-> Onward(E, W)]
           Is(f) == f = [k \in Nat |-> IF k = 0 THEN {x} ELSE Onward(E, f[k - 1])]
<1>0. {x} \in T
  OBVIOUS
<1>1. \A W \in T : g[W] \in T /\ g[W] = Onward(E, W)
  BY OnwardTyped
<1>r. PICK f : Repeats(f, {x}, g)
  BY NatRecursion
<1>2. f = [k \in Nat |-> IF k = 0 THEN {x} ELSE g[f[k - 1]]]
  BY <1>r DEF Repeats
<1> HIDE DEF T, g
<1>3. ASSUME NEW k \in Nat
      PROVE  f[k] \in T
  <2> DEFINE B == {m \in Nat : f[m] \notin T}
  <2> SUFFICES ASSUME B # {} PROVE FALSE
    OBVIOUS
  <2>1. PICK m \in B : \A j \in B : m <= j
    BY Smallest
  <2>2. m # 0
    BY <2>1, <1>0, <1>2
  <2>3. m - 1 \in Nat /\ m - 1 \notin B
    BY <2>1, <2>2
  <2>4. f[m - 1] \in T
    BY <2>3
  <2>5. f[m] = g[f[m - 1]]
    BY <2>1, <2>2, <1>2
  <2> QED
    BY <2>1, <2>4, <2>5, <1>1
<1>4. ASSUME NEW k \in Nat
      PROVE  f[k] = IF k = 0 THEN {x} ELSE Onward(E, f[k - 1])
  <2>1. CASE k = 0
    BY <1>2, <2>1
  <2>2. CASE k # 0
    <3>1. k - 1 \in Nat
      BY <2>2
    <3>2. f[k] = g[f[k - 1]] /\ f[k - 1] \in T
      BY <1>2, <1>3, <2>2, <3>1
    <3> QED
      BY <3>2, <2>2, <1>1
  <2> QED
    BY <2>1, <2>2
<1>5. Is(f)
  <2>1. f = [k \in Nat |-> f[k]]
    BY <1>2, Zenon
  <2> QED
    BY <2>1, <1>4, Zenon
<1>6. PICK h : h = CHOOSE e : Is(e)
  OBVIOUS
<1>7. Is(h)
  BY <1>5, <1>6, Zenon
<1>8. \A k \in Nat : h[k] = IF k = 0 THEN {x} ELSE Onward(E, h[k - 1])
  BY <1>7, Zenon
<1>9. ASSUME NEW k \in Nat
      PROVE  h[k] \in T
  <2> DEFINE B == {m \in Nat : h[m] \notin T}
  <2> SUFFICES ASSUME B # {} PROVE FALSE
    OBVIOUS
  <2>1. PICK m \in B : \A j \in B : m <= j
    BY Smallest
  <2>2. m # 0
    BY <2>1, <1>0, <1>8
  <2>3. m - 1 \in Nat /\ m - 1 \notin B
    BY <2>1, <2>2
  <2>4. h[m - 1] \in T
    BY <2>3
  <2>5. h[m] = Onward(E, h[m - 1])
    BY <2>1, <2>2, <1>8
  <2> QED
    BY <2>1, <2>4, <2>5, <1>1
<1>10. ASSUME NEW k \in Nat
       PROVE  h[k + 1] = Onward(E, h[k])
  <2>1. k + 1 \in Nat /\ k + 1 # 0 /\ (k + 1) - 1 = k
    OBVIOUS
  <2> QED
    BY <2>1, <1>8
<1>11. h[0] = {x}
  BY <1>8
<1>12. SC!Reaches(E, x) = h[VertexNum]
  BY <1>6, Zenon DEF SC!Reaches, Onward
<1> QED
  BY <1>9, <1>10, <1>11, <1>12 DEF Rounds, T

LEMMA RoundsGrow ==
  ASSUME NEW h, NEW E, NEW x, Rounds(h, E, x), NEW k \in Nat, NEW l \in Nat, k <= l
  PROVE  h[k] \subseteq h[l]
<1> DEFINE B == {m \in Nat : k <= m /\ ~(h[k] \subseteq h[m])}
<1> SUFFICES ASSUME B # {} PROVE FALSE
  OBVIOUS
<1>1. PICK m \in B : \A j \in B : m <= j
  BY Smallest
<1>2. m # k
  BY <1>1
<1>3. m - 1 \in Nat /\ k <= m - 1 /\ (m - 1) + 1 = m /\ m - 1 \notin B
  BY <1>1, <1>2
<1>4. h[k] \subseteq h[m - 1]
  BY <1>3
<1>5. h[(m - 1) + 1] = Onward(E, h[m - 1])
  BY <1>3 DEF Rounds
<1> QED
  BY <1>1, <1>3, <1>4, <1>5 DEF Onward

LEMMA RoundsWithin ==
  ASSUME NEW h, NEW E, NEW x, Rounds(h, E, x), NEW U, x \in U, Shut(E, U), NEW k \in Nat
  PROVE  h[k] \subseteq U
<1> DEFINE B == {m \in Nat : ~(h[m] \subseteq U)}
<1> SUFFICES ASSUME B # {} PROVE FALSE
  OBVIOUS
<1>1. PICK m \in B : \A j \in B : m <= j
  BY Smallest
<1>2. m # 0
  BY <1>1 DEF Rounds
<1>3. m - 1 \in Nat /\ (m - 1) + 1 = m /\ m - 1 \notin B
  BY <1>1, <1>2
<1>4. h[m - 1] \subseteq U
  BY <1>3
<1>5. h[m] = Onward(E, h[m - 1])
  BY <1>3 DEF Rounds
<1>6. Onward(E, h[m - 1]) \subseteq U
  BY <1>4 DEF Onward, Shut
<1> QED
  BY <1>1, <1>5, <1>6

(* After as many rounds as there are vertices nothing is added.            *)
LEMMA RoundsEnd ==
  ASSUME NEW h, NEW E \in Links, NEW x \in Verts, Rounds(h, E, x), NEW k \in Nat
  PROVE  h[k] \subseteq h[VertexNum]
<1> DEFINE R == {v \in Verts : \E m \in Nat : v \in h[m]}
           When(v) == {m \in Nat : v \in h[m]}
           t == [v \in R |-> Lowest(When(v))]
<1>1. ASSUME NEW v \in R
      PROVE  t[v] \in Nat /\ v \in h[t[v]] /\ \A m \in Nat : v \in h[m] => t[v] <= m
  <2>1. When(v) \in SUBSET Nat /\ When(v) # {} /\ t[v] = Lowest(When(v))
    OBVIOUS
  <2>2. t[v] \in When(v) /\ \A m \in When(v) : t[v] <= m
    <3> HIDE DEF When, t, R
    <3> QED
      BY <2>1, LowestIs
  <2> HIDE DEF t, R
  <2> QED
    BY <2>2
<1>2. ASSUME NEW v \in R, t[v] > 0
      PROVE  \E u \in R : t[u] = t[v] - 1
  <2>1. PICK m \in Nat : m = t[v] - 1 /\ m + 1 = t[v] /\ ~(t[v] <= m)
    <3>1. t[v] \in Nat
      BY <1>1
    <3> HIDE DEF t, R
    <3>2. t[v] - 1 \in Nat /\ (t[v] - 1) + 1 = t[v] /\ ~(t[v] <= t[v] - 1)
      BY <3>1, <1>2
    <3> QED
      BY <3>2
  <2>2. v \in h[m + 1] /\ v \notin h[m]
    <3> HIDE DEF t, R
    <3> QED
      BY <1>1, <2>1
  <2>3. h[m + 1] = Onward(E, h[m])
    BY DEF Rounds
  <2>4. PICK e \in E : e[1] \in h[m] /\ e[2] = v
    BY <2>2, <2>3 DEF Onward
  <2>5. PICK u : u = e[1]
    OBVIOUS
  <2>6. u \in R /\ u \in h[m]
    BY <2>4, <2>5 DEF Links
  <2>7. t[u] \in Nat /\ t[u] <= m
    <3> HIDE DEF t, R
    <3> QED
      BY <1>1, <2>6
  <2>8. t[v] <= t[u] + 1
    <3>1. h[t[u] + 1] = Onward(E, h[t[u]])
      BY <2>7 DEF Rounds
    <3>2. u \in h[t[u]]
      <4> HIDE DEF t, R
      <4> QED
        BY <1>1, <2>6
    <3>3. v \in h[t[u] + 1] /\ t[u] + 1 \in Nat
      <4> HIDE DEF t, R
      <4> QED
        BY <3>1, <3>2, <2>4, <2>5, <2>7 DEF Onward
    <3> HIDE DEF t, R
    <3> QED
      BY <3>3, <1>1
  <2> HIDE DEF t
  <2>9. t[v] \in Nat
    BY <2>1
  <2>10. t[u] = t[v] - 1
    BY ONLY <2>1, <2>7, <2>8, <2>9, m \in Nat
  <2> QED
    BY <2>6, <2>10
<1>3. R \in SUBSET Verts /\ t \in [R -> Nat]
  <2>1. t = [v \in R |-> t[v]]
    OBVIOUS
  <2>2. \A v \in R : t[v] \in Nat
    BY <1>1
  <2> HIDE DEF t
  <2> QED
    BY <2>1, <2>2
<1>4. ASSUME NEW v \in h[k]
      PROVE  v \in h[VertexNum]
  <2>1. v \in R
    BY DEF Rounds
  <2> HIDE DEF t, R
  <2>2. t[v] < VertexNum
    BY <2>1, <1>2, <1>3, VertsAre, LevelsAreFew
  <2>3. t[v] \in Nat /\ v \in h[t[v]]
    BY <2>1, <1>1
  <2>4. t[v] <= VertexNum
    BY <2>2, <2>3, VertsAre
  <2>5. h[t[v]] \subseteq h[VertexNum]
    BY <2>3, <2>4, VertsAre, RoundsGrow
  <2> QED
    BY <2>3, <2>5
<1> QED
  BY <1>4

(* What can be reached from x: the smallest set that holds x and that no   *)
(* edge leaves.                                                            *)
LEMMA ReachesIs ==
  ASSUME NEW E \in Links, NEW x \in Verts
  PROVE  /\ SC!Reaches(E, x) \in SUBSET Verts /\ x \in SC!Reaches(E, x)
         /\ Shut(E, SC!Reaches(E, x))
         /\ \A U : x \in U /\ Shut(E, U) => SC!Reaches(E, x) \subseteq U
<1>1. PICK h : Rounds(h, E, x) /\ SC!Reaches(E, x) = h[VertexNum]
  BY RoundsExist
<1>2. PICK R : R = h[VertexNum]
  OBVIOUS
<1>3. R \in SUBSET Verts
  BY <1>1, <1>2, VertsAre DEF Rounds
<1>4. x \in R
  <2>1. h[0] \subseteq h[VertexNum]
    BY <1>1, VertsAre, RoundsGrow
  <2> QED
    BY <2>1, <1>1, <1>2 DEF Rounds
<1>5. Shut(E, R)
  <2>1. h[VertexNum + 1] \subseteq R /\ h[VertexNum + 1] = Onward(E, R)
    BY <1>1, <1>2, VertsAre, RoundsEnd DEF Rounds
  <2> QED
    BY <2>1 DEF Onward, Shut
<1>6. \A U : x \in U /\ Shut(E, U) => R \subseteq U
  BY <1>1, <1>2, VertsAre, RoundsWithin
<1> QED
  BY <1>1, <1>2, <1>3, <1>4, <1>5, <1>6

LEMMA WaitingPushed ==
  ASSUME NEW T, NEW Q \in Seq(T), NEW y \in T
  PROVE  <<y>> \o Q \in Seq(T) /\ Waiting(<<y>> \o Q) = Waiting(Q) \cup {y}
<1>0. PICK R : R = <<y>> \o Q
  OBVIOUS
<1>1. /\ R \in Seq(T) /\ Len(Q) \in Nat /\ DOMAIN Q = 1..Len(Q) /\ DOMAIN R = 1..Len(Q) + 1
      /\ R[1] = y /\ \A j \in 1..Len(Q) : R[j + 1] = Q[j]
  BY <1>0, Pushed
<1>2. ASSUME NEW z \in Waiting(R)
      PROVE  z \in Waiting(Q) \cup {y}
  <2>1. PICK j \in DOMAIN R : z = R[j]
    BY DEF Waiting
  <2>2. CASE j = 1
    BY <2>1, <2>2, <1>1
  <2>3. CASE j # 1
    <3>1. j - 1 \in 1..Len(Q) /\ (j - 1) + 1 = j
      BY <2>3, <1>1
    <3>2. R[(j - 1) + 1] = Q[j - 1]
      BY <3>1, <1>1
    <3> QED
      BY <3>1, <3>2, <2>1, <1>1 DEF Waiting
  <2> QED
    BY <2>2, <2>3
<1>3. y \in Waiting(R)
  <2>1. 1 \in DOMAIN R
    BY <1>1
  <2> QED
    BY <2>1, <1>1 DEF Waiting
<1>4. ASSUME NEW z \in Waiting(Q)
      PROVE  z \in Waiting(R)
  <2>1. PICK j \in 1..Len(Q) : z = Q[j]
    BY <1>1 DEF Waiting
  <2>2. j + 1 \in DOMAIN R /\ R[j + 1] = z
    BY <2>1, <1>1
  <2> QED
    BY <2>2 DEF Waiting
<1>5. Waiting(R) = Waiting(Q) \cup {y}
  BY <1>2, <1>3, <1>4
<1> QED
  BY <1>0, <1>1, <1>5

LEMMA WaitingPopped ==
  ASSUME NEW T, NEW Q \in Seq(T), Q # <<>>
  PROVE  /\ Tail(Q) \in Seq(T) /\ Head(Q) \in T /\ Head(Q) \in Waiting(Q)
         /\ Waiting(Q) = Waiting(Tail(Q)) \cup {Head(Q)}
<1>1. PICK R : R = Tail(Q)
  OBVIOUS
<1>2. /\ Len(Q) \in Nat /\ Len(Q) >= 1 /\ DOMAIN Q = 1..Len(Q) /\ Head(Q) = Q[1] /\ Q[1] \in T
      /\ R \in Seq(T) /\ DOMAIN R = 1..Len(Q) - 1
      /\ \A j \in 1..Len(Q) - 1 : R[j] = Q[j + 1]
  BY <1>1, Popped
<1>3. ASSUME NEW z \in Waiting(Q)
      PROVE  z \in Waiting(R) \cup {Head(Q)}
  <2>1. PICK j \in 1..Len(Q) : z = Q[j]
    BY <1>2 DEF Waiting
  <2>2. CASE j = 1
    BY <2>1, <2>2, <1>2
  <2>3. CASE j # 1
    <3>1. j - 1 \in DOMAIN R /\ (j - 1) + 1 = j
      BY <2>3, <1>2
    <3>2. R[j - 1] = z
      BY <3>1, <2>1, <1>2
    <3> QED
      BY <3>1, <3>2 DEF Waiting
  <2> QED
    BY <2>2, <2>3
<1>4. Head(Q) \in Waiting(Q)
  <2>1. 1 \in DOMAIN Q
    BY <1>2
  <2> QED
    BY <2>1, <1>2 DEF Waiting
<1>5. ASSUME NEW z \in Waiting(R)
      PROVE  z \in Waiting(Q)
  <2>1. PICK j \in 1..Len(Q) - 1 : z = R[j]
    BY <1>2 DEF Waiting
  <2>2. j + 1 \in DOMAIN Q /\ Q[j + 1] = z
    BY <2>1, <1>2
  <2> QED
    BY <2>2 DEF Waiting
<1> QED
  BY <1>1, <1>2, <1>3, <1>4, <1>5

-----------------------------------------------------------------------------
(* addEdge, one edge after the other, for the edges from x. *)
Chains(h, q, x) ==
  /\ h[0] = <<>>
  /\ \A k \in 1..Len(q) : h[k] = IF q[k][1] = x THEN <<q[k][2]>> \o h[k - 1] ELSE h[k - 1]

LEMMA ChainIs ==
  ASSUME NEW q \in Seq(Verts \X Verts), NEW x
  PROVE  \E h : Chains(h, q, x) /\ SC!Chain(q, x) = h[Len(q)]
<1>0. PICK T, b, m : T = Seq(Verts) /\ b = <<>> /\ m = Len(q)
  OBVIOUS
<1> DEFINE g == [z \in (1..m) \X T |-> IF q[z[1]][1] = x THEN <<q[z[1]][2]>> \o z[2] ELSE z[2]]
           Is(f) == f = [k \in 0..m |-> IF k = 0 THEN b
                                        ELSE IF q[k][1] = x THEN <<q[k][2]>> \o f[k - 1] ELSE f[k - 1]]
<1>m. m \in Nat /\ \A k \in 1..m : q[k] \in Verts \X Verts
  BY <1>0
<1>1. \A t \in T, k \in 1..m : /\ g[<<k, t>>] \in T
                               /\ g[<<k, t>>] = IF q[k][1] = x THEN <<q[k][2]>> \o t ELSE t
  <2> TAKE t \in T, k \in 1..m
  <2>1. g[<<k, t>>] = IF q[k][1] = x THEN <<q[k][2]>> \o t ELSE t
    OBVIOUS
  <2>2. q[k][2] \in Verts
    BY <1>m
  <2>3. <<q[k][2]>> \o t \in T
    <3>1. PICK D, y : D = Verts /\ y = q[k][2]
      OBVIOUS
    <3>2. t \in Seq(D) /\ y \in D
      BY <1>0, <2>2, <3>1
    <3>3. <<y>> \o t \in Seq(D)
      BY ONLY <3>2, WaitingPushed
    <3> QED
      BY <1>0, <3>1, <3>3
  <2> HIDE DEF g
  <2> QED
    BY <2>1, <2>3
<1>b. b \in T
  <2>1. PICK D : D = Verts
    OBVIOUS
  <2>2. <<>> \in Seq(D)
    OBVIOUS
  <2> QED
    BY <1>0, <2>1, <2>2
<1>c. \A t \in T, k \in 1..m : g[<<k, t>>] \in T
  <2> HIDE DEF g
  <2> QED
    BY <1>1
<1> HIDE DEF g, Is
<1>2. PICK f : Steps(f, m, b, g)
  <2>1. b \in T /\ \A t \in T, k \in 1..m : g[<<k, t>>] \in T
    BY <1>b, <1>c
  <2> QED
    BY <2>1, <1>m, StepsExist
<1>3. f[0] = b /\ \A k \in 1..m : f[k] = g[<<k, f[k - 1]>>]
  <2>1. \A k \in 0..m : f[k] = IF k = 0 THEN b ELSE g[<<k, f[k - 1]>>]
    BY <1>2, Zenon DEF Steps
  <2>2. 0 \in 0..m /\ \A k \in 1..m : k \in 0..m /\ k # 0
    BY <1>m
  <2> QED
    BY <2>1, <2>2, Zenon
<1>4. \A k \in 0..m : f[k] \in T
  <2>0. m \in Nat
    BY <1>m
  <2>1. b \in T /\ \A t \in T, k \in 1..m : g[<<k, t>>] \in T
    BY <1>b, <1>c
  <2>2. f[0] = b /\ \A k \in 1..m : f[k - 1] \in T => f[k] = g[<<k, f[k - 1]>>]
    BY <1>3
  <2> QED
    <3> DEFINE B == {k \in 0..m : f[k] \notin T}
    <3> SUFFICES ASSUME B # {} PROVE FALSE
      OBVIOUS
    <3>0. B \in SUBSET Nat
      BY <2>0
    <3>1. PICK k \in B : \A j \in B : k <= j
      <4> HIDE DEF B
      <4> QED
        BY <3>0, Smallest
    <3>2. k # 0
      BY <2>1, <2>2, <3>1
    <3>3. k \in 1..m /\ k - 1 \in 0..m /\ ~(k <= k - 1)
      BY <2>0, <3>1, <3>2
    <3>4. k - 1 \notin B
      <4> HIDE DEF B
      <4> QED
        BY <3>1, <3>3
    <3>5. f[k - 1] \in T
      BY <3>3, <3>4
    <3>6. f[k] = g[<<k, f[k - 1]>>]
      BY <2>2, <3>3, <3>5
    <3> QED
      BY <2>1, <3>1, <3>3, <3>5, <3>6
<1>5. Is(f)
  <2>1. ASSUME NEW k \in 0..m
        PROVE  f[k] = IF k = 0 THEN b ELSE IF q[k][1] = x THEN <<q[k][2]>> \o f[k - 1] ELSE f[k - 1]
    <3>1. CASE k = 0
      BY <3>1, <1>3
    <3>2. CASE k # 0
      <4>1. k \in 1..m /\ k - 1 \in 0..m
        BY <1>m, <3>2
      <4>2. f[k] = g[<<k, f[k - 1]>>] /\ f[k - 1] \in T
        BY <4>1, <1>3, <1>4
      <4> QED
        BY <3>2, <4>1, <4>2, <1>1
    <3> QED
      BY <3>1, <3>2
  <2>2. f = [k \in 0..m |-> f[k]]
    BY <1>2, Zenon DEF Steps
  <2> QED
    BY <2>1, <2>2, Zenon DEF Is
<1>6. PICK h : h = CHOOSE e : Is(e)
  OBVIOUS
<1>7. Is(h)
  BY <1>5, <1>6, Zenon
<1>8. \A k \in 0..m : h[k] = IF k = 0 THEN b ELSE IF q[k][1] = x THEN <<q[k][2]>> \o h[k - 1] ELSE h[k - 1]
  BY <1>7, Zenon DEF Is
<1>9. 0 \in 0..m /\ \A k \in 1..m : k \in 0..m /\ k # 0
  BY <1>m
<1>10. Chains(h, q, x)
  BY <1>0, <1>8, <1>9, Zenon DEF Chains
<1>11. SC!Chain(q, x) = h[m]
  BY <1>0, <1>6, Zenon DEF SC!Chain, Is
<1> QED
  BY <1>0, <1>10, <1>11

(* The chain of x holds the ends of the edges from x. *)
LEMMA ChainHolds ==
  ASSUME NEW q \in Seq(Verts \X Verts), NEW x
  PROVE  /\ SC!Chain(q, x) \in Seq(Verts)
         /\ \A y : y \in Waiting(SC!Chain(q, x)) <=> \E j \in DOMAIN q : q[j] = <<x, y>>
<1>1. PICK h : Chains(h, q, x) /\ SC!Chain(q, x) = h[Len(q)]
  BY ChainIs
<1>2. Len(q) \in Nat /\ DOMAIN q = 1..Len(q) /\ \A k \in 1..Len(q) : q[k] \in Verts \X Verts
  OBVIOUS
<1> DEFINE Good(w, k) == /\ w \in Seq(Verts)
                         /\ \A y : y \in Waiting(w) <=> \E j \in 1..k : q[j] = <<x, y>>
           B == {k \in 0..Len(q) : ~Good(h[k], k)}
<1>3. B = {}
  <2> SUFFICES ASSUME B # {} PROVE FALSE
    OBVIOUS
  <2>0. B \in SUBSET Nat
    BY <1>2
  <2>1. PICK k \in B : \A j \in B : k <= j
    <3> HIDE DEF B
    <3> QED
      BY <2>0, Smallest
  <2>2. k \in 0..Len(q) /\ ~Good(h[k], k)
    BY <2>1
  <2>3. k # 0
    <3>1. Good(<<>>, 0)
      BY DEF Waiting
    <3>2. h[0] = <<>>
      BY <1>1 DEF Chains
    <3> HIDE DEF Good
    <3> QED
      BY <2>2, <3>1, <3>2
  <2>4. k \in 1..Len(q) /\ k - 1 \in 0..Len(q) /\ k - 1 \notin B
    <3>1. k \in 1..Len(q) /\ k - 1 \in 0..Len(q) /\ k - 1 < k
      BY <1>2, <2>2, <2>3
    <3> HIDE DEF B
    <3> QED
      BY <2>1, <3>1
  <2>5. PICK w : w = h[k - 1] /\ Good(w, k - 1)
    BY <2>4
  <2>6. PICK r : r = h[k]
    OBVIOUS
  <2>7. r = IF q[k][1] = x THEN <<q[k][2]>> \o w ELSE w
    BY <2>4, <2>5, <2>6, <1>1 DEF Chains
  <2>8. \A j \in 1..k : j = k \/ j \in 1..k - 1
    BY <2>4
  <2>9. \A j \in 1..k - 1 : j \in 1..k
    BY <2>4
  <2>10. k \in 1..k /\ q[k] = <<q[k][1], q[k][2]>> /\ q[k][2] \in Verts
    BY <1>2, <2>4
  <2>11. CASE q[k][1] = x
    <3>1. PICK y \in Verts : y = q[k][2] /\ q[k] = <<x, y>>
      BY <2>10, <2>11
    <3>2. r = <<y>> \o w /\ w \in Seq(Verts)
      BY <2>5, <2>7, <2>11, <3>1
    <3>3. r \in Seq(Verts) /\ Waiting(r) = Waiting(w) \cup {y}
      <4>1. PICK D : D = Verts
        OBVIOUS
      <4>2. w \in Seq(D) /\ y \in D
        BY <3>2, <4>1
      <4>3. <<y>> \o w \in Seq(D) /\ Waiting(<<y>> \o w) = Waiting(w) \cup {y}
        BY ONLY <4>2, WaitingPushed
      <4> QED
        BY <3>2, <4>1, <4>3
    <3>4. ASSUME NEW z
          PROVE  z \in Waiting(r) <=> \E j \in 1..k : q[j] = <<x, z>>
      <4>1. z \in Waiting(w) <=> \E j \in 1..k - 1 : q[j] = <<x, z>>
        BY <2>5
      <4>2. (\E j \in 1..k : q[j] = <<x, z>>) <=> (q[k] = <<x, z>> \/ \E j \in 1..k - 1 : q[j] = <<x, z>>)
        BY <2>8, <2>9, <2>10
      <4>3. q[k] = <<x, z>> <=> z = y
        BY <3>1
      <4> QED
        BY <3>3, <4>1, <4>2, <4>3
    <3> QED
      BY <2>2, <2>6, <3>3, <3>4
  <2>12. CASE q[k][1] # x
    <3>1. r = w
      BY <2>7, <2>12
    <3>2. ASSUME NEW z
          PROVE  z \in Waiting(r) <=> \E j \in 1..k : q[j] = <<x, z>>
      <4>1. z \in Waiting(w) <=> \E j \in 1..k - 1 : q[j] = <<x, z>>
        BY <2>5
      <4>2. q[k] # <<x, z>>
        BY <2>12
      <4> QED
        BY <3>1, <4>1, <4>2, <2>8, <2>9
    <3> QED
      BY <2>2, <2>5, <2>6, <3>1, <3>2
  <2> QED
    BY <2>11, <2>12
<1>4. Len(q) \in 0..Len(q)
  BY <1>2
<1>5. Good(h[Len(q)], Len(q))
  <2>1. ASSUME ~Good(h[Len(q)], Len(q))
        PROVE  Len(q) \in B
    <3> HIDE DEF Good
    <3> QED
      BY <2>1, <1>4
  <2> HIDE DEF B, Good
  <2> QED
    BY <2>1, <1>3
<1> QED
  BY <1>1, <1>2, <1>5

Mutual(E, v, w) == w \in SC!Reaches(E, v) /\ v \in SC!Reaches(E, w)

LEMMA ReachTrans ==
  ASSUME NEW E \in Links, NEW x \in Verts, NEW y \in SC!Reaches(E, x), NEW z \in SC!Reaches(E, y)
  PROVE  z \in SC!Reaches(E, x)
<1>1. SC!Reaches(E, x) \in SUBSET Verts /\ Shut(E, SC!Reaches(E, x))
  BY ReachesIs
<1>2. \A U : y \in U /\ Shut(E, U) => SC!Reaches(E, y) \subseteq U
  BY <1>1, ReachesIs
<1> QED
  BY <1>1, <1>2

LEMMA ReachEdge ==
  ASSUME NEW E \in Links, NEW x \in Verts, NEW y \in Verts, <<x, y>> \in E
  PROVE  y \in SC!Reaches(E, x)
<1>1. x \in SC!Reaches(E, x) /\ Shut(E, SC!Reaches(E, x))
  BY ReachesIs
<1>2. PICK e \in E : e = <<x, y>>
  OBVIOUS
<1>3. e[1] = x /\ e[2] = y
  BY <1>2
<1> QED
  BY <1>1, <1>3 DEF Shut

LEMMA MutualIs ==
  ASSUME NEW E \in Links
  PROVE  /\ \A x \in Verts : Mutual(E, x, x)
         /\ \A x, y \in Verts : Mutual(E, x, y) => Mutual(E, y, x)
         /\ \A x, y, z \in Verts : Mutual(E, x, y) /\ Mutual(E, y, z) => Mutual(E, x, z)
<1>1. \A x \in Verts : Mutual(E, x, x)
  BY ReachesIs DEF Mutual
<1>2. \A x, y \in Verts : Mutual(E, x, y) => Mutual(E, y, x)
  BY DEF Mutual
<1>3. ASSUME NEW x \in Verts, NEW y \in Verts, NEW z \in Verts, Mutual(E, x, y), Mutual(E, y, z)
      PROVE  Mutual(E, x, z)
  <2>1. z \in SC!Reaches(E, x)
    BY <1>3, ReachTrans DEF Mutual
  <2>2. x \in SC!Reaches(E, z)
    BY <1>3, ReachTrans DEF Mutual
  <2> QED
    BY <2>1, <2>2 DEF Mutual
<1> QED
  BY <1>1, <1>2, <1>3

-----------------------------------------------------------------------------
(* The calls of a search. F holds the edges that the search follows. *)
Visits == [x : Verts, todo : Seq(Verts)]
Grey(S) == {S[j].x : j \in DOMAIN S}

(* What is left to look at are ends of edges. *)
Follows(F, S) == \A j \in DOMAIN S : \A y \in Waiting(S[j].todo) : <<S[j].x, y>> \in F

(* An edge from M leads to N or is left to look at. *)
Scanned(F, M, N, S) ==
  \A x, y \in Verts : <<x, y>> \in F /\ x \in M =>
    y \in N \/ \E j \in DOMAIN S : S[j].x = x /\ y \in Waiting(S[j].todo)

Fresh(F, c) == c \in Visits /\ \A y \in Verts : y \in Waiting(c.todo) <=> <<c.x, y>> \in F

(* The innermost call goes on to its next edge. *)
Advance(S) == <<[x |-> Head(S).x, todo |-> Tail(Head(S).todo)]>> \o Tail(S)

LEMMA AdvanceIs ==
  ASSUME NEW S \in Seq(Visits), S # <<>>, Head(S).todo # <<>>
  PROVE  /\ Advance(S) \in Seq(Visits) /\ Advance(S) # <<>>
         /\ Len(Advance(S)) = Len(S) /\ DOMAIN Advance(S) = DOMAIN S
         /\ 1 \in DOMAIN S /\ Head(S) = S[1] /\ S[1].todo # <<>> /\ S[1].todo \in Seq(Verts)
         /\ Advance(S)[1].todo = Tail(S[1].todo)
         /\ \A j \in DOMAIN S : Advance(S)[j].x = S[j].x
         /\ \A j \in DOMAIN S : j # 1 => Advance(S)[j] = S[j]
<1>1. PICK e, P, R : e = [x |-> Head(S).x, todo |-> Tail(Head(S).todo)] /\ P = Tail(S) /\ R = Advance(S)
  OBVIOUS
<1>2. Len(S) \in Nat /\ Len(S) >= 1 /\ DOMAIN S = 1..Len(S) /\ Head(S) = S[1] /\ S[1] \in Visits
  BY <1>1, Popped
<1>3. S[1].x \in Verts /\ S[1].todo \in Seq(Verts) /\ S[1].todo # <<>>
  BY <1>2 DEF Visits
<1>4. Tail(S[1].todo) \in Seq(Verts)
  <2>1. PICK D, q : D = Verts /\ q = S[1].todo
    OBVIOUS
  <2>2. q \in Seq(D) /\ q # <<>>
    BY <1>3, <2>1
  <2>3. Tail(q) \in Seq(D)
    BY ONLY <2>2, WaitingPopped
  <2> QED
    BY <2>1, <2>3
<1>5. e.x = S[1].x /\ e.todo = Tail(S[1].todo) /\ e \in Visits
  BY <1>1, <1>2, <1>3, <1>4 DEF Visits
<1>6. R = <<e>> \o Tail(S)
  BY <1>1 DEF Advance
<1>7. /\ R \in Seq(Visits) /\ Len(R) = Len(S) /\ DOMAIN R = 1..Len(S)
      /\ R[1] = e /\ \A j \in 1..Len(S) : j # 1 => R[j] = S[j]
  <2>1. PICK D : D = Visits
    OBVIOUS
  <2>2. S \in Seq(D) /\ S # <<>> /\ e \in D /\ R = <<e>> \o Tail(S)
    BY <1>5, <1>6, <2>1
  <2>3. /\ R \in Seq(D) /\ Len(R) = Len(S) /\ DOMAIN R = 1..Len(S)
        /\ R[1] = e /\ \A j \in 1..Len(S) : j # 1 => R[j] = S[j]
    BY ONLY <2>2, Replaced
  <2> QED
    BY <2>1, <2>3
<1>8. \A j \in DOMAIN S : R[j].x = S[j].x
  <2> TAKE j \in DOMAIN S
  <2>1. CASE j = 1
    BY <2>1, <1>5, <1>7
  <2>2. CASE j # 1
    BY <2>2, <1>2, <1>7
  <2> QED
    BY <2>1, <2>2
<1>9. 1 \in DOMAIN S /\ R # <<>>
  BY <1>2, <1>7
<1> QED
  BY <1>1, <1>2, <1>3, <1>5, <1>7, <1>8, <1>9

(* The next edge leads to y. *)
LEMMA NextIs ==
  ASSUME NEW F, NEW S \in Seq(Visits), S # <<>>, Head(S).todo # <<>>, Follows(F, S),
         NEW y, y = Head(Head(S).todo)
  PROVE  y \in Verts /\ <<S[1].x, y>> \in F
<1>1. 1 \in DOMAIN S /\ Head(S) = S[1] /\ S[1].todo # <<>> /\ S[1].todo \in Seq(Verts)
  BY AdvanceIs
<1>2. PICK D, q : D = Verts /\ q = S[1].todo
  OBVIOUS
<1>3. q \in Seq(D) /\ q # <<>>
  BY <1>1, <1>2
<1>4. Head(q) \in D /\ Head(q) \in Waiting(q)
  BY ONLY <1>3, WaitingPopped
<1> QED
  BY <1>1, <1>2, <1>4 DEF Follows

LEMMA AdvanceScans ==
  ASSUME NEW F, NEW M, NEW N, NEW S \in Seq(Visits), S # <<>>, Head(S).todo # <<>>, Follows(F, S),
         Scanned(F, M, N, S), Head(Head(S).todo) \in N
  PROVE  Follows(F, Advance(S)) /\ Scanned(F, M, N, Advance(S))
<1>1. PICK R : R = Advance(S)
  OBVIOUS
<1>2. /\ DOMAIN R = DOMAIN S
      /\ 1 \in DOMAIN S /\ Head(S) = S[1] /\ S[1].todo # <<>> /\ S[1].todo \in Seq(Verts)
      /\ R[1].todo = Tail(S[1].todo)
      /\ \A j \in DOMAIN S : R[j].x = S[j].x
      /\ \A j \in DOMAIN S : j # 1 => R[j] = S[j]
  BY <1>1, AdvanceIs
<1>3. Waiting(S[1].todo) = Waiting(R[1].todo) \cup {Head(S[1].todo)}
  <2>1. PICK D, q : D = Verts /\ q = S[1].todo
    OBVIOUS
  <2>2. q \in Seq(D) /\ q # <<>>
    BY <1>2, <2>1
  <2>3. Waiting(q) = Waiting(Tail(q)) \cup {Head(q)}
    BY ONLY <2>2, WaitingPopped
  <2> QED
    BY <1>2, <2>1, <2>3
<1>4. \A j \in DOMAIN S : Waiting(R[j].todo) \subseteq Waiting(S[j].todo)
  BY <1>2, <1>3
<1>5. Follows(F, R)
  BY <1>2, <1>4 DEF Follows
<1>6. ASSUME NEW x \in Verts, NEW y \in Verts, <<x, y>> \in F, x \in M, y \notin N
      PROVE  \E j \in DOMAIN R : R[j].x = x /\ y \in Waiting(R[j].todo)
  <2>1. PICK j \in DOMAIN S : S[j].x = x /\ y \in Waiting(S[j].todo)
    BY <1>6 DEF Scanned
  <2>2. CASE j = 1
    BY <1>2, <1>3, <1>6, <2>1, <2>2
  <2>3. CASE j # 1
    BY <1>2, <2>1, <2>3
  <2> QED
    BY <2>2, <2>3
<1>7. Scanned(F, M, N, R)
  BY <1>6 DEF Scanned
<1> QED
  BY <1>1, <1>5, <1>7

LEMMA CallIsPushed ==
  ASSUME NEW c \in Visits, NEW S \in Seq(Visits), NEW R, R = <<c>> \o S
  PROVE  /\ R \in Seq(Visits) /\ Len(S) \in Nat /\ DOMAIN S = 1..Len(S)
         /\ Len(R) = Len(S) + 1 /\ DOMAIN R = 1..Len(S) + 1 /\ R # <<>>
         /\ R[1] = c /\ \A j \in 1..Len(S) : R[j + 1] = S[j]
         /\ \A j \in DOMAIN R : j = 1 \/ (j - 1 \in DOMAIN S /\ R[j] = S[j - 1])
<1>1. PICK D : D = Visits
  OBVIOUS
<1>2. c \in D /\ S \in Seq(D) /\ R = <<c>> \o S
  BY <1>1
<1>3. /\ R \in Seq(D) /\ Len(S) \in Nat /\ DOMAIN S = 1..Len(S)
      /\ Len(R) = Len(S) + 1 /\ DOMAIN R = 1..Len(S) + 1
      /\ R[1] = c /\ \A j \in 1..Len(S) : R[j + 1] = S[j]
  BY ONLY <1>2, Pushed
<1>4. ASSUME NEW j \in DOMAIN R, j # 1
      PROVE  j - 1 \in DOMAIN S /\ R[j] = S[j - 1]
  <2>1. j - 1 \in 1..Len(S) /\ (j - 1) + 1 = j
    BY <1>3, <1>4
  <2>2. R[(j - 1) + 1] = S[j - 1]
    BY <1>3, <2>1
  <2> QED
    BY <1>3, <2>1, <2>2
<1>5. R # <<>>
  BY <1>3
<1> QED
  BY <1>1, <1>3, <1>4, <1>5

LEMMA CallScans ==
  ASSUME NEW F, NEW M, NEW N, NEW c, Fresh(F, c), NEW S \in Seq(Visits), Follows(F, S),
         Scanned(F, M, N, S)
  PROVE  Follows(F, <<c>> \o S) /\ Scanned(F, M \cup {c.x}, N, <<c>> \o S)
<1>1. PICK R : R = <<c>> \o S
  OBVIOUS
<1>2. c \in Visits /\ c.x \in Verts /\ c.todo \in Seq(Verts)
  BY DEF Fresh, Visits
<1>3. /\ R \in Seq(Visits) /\ Len(S) \in Nat /\ DOMAIN S = 1..Len(S)
      /\ DOMAIN R = 1..Len(S) + 1
      /\ R[1] = c /\ \A j \in 1..Len(S) : R[j + 1] = S[j]
      /\ \A j \in DOMAIN R : j = 1 \/ (j - 1 \in DOMAIN S /\ R[j] = S[j - 1])
  BY <1>1, <1>2, CallIsPushed
<1>4. Follows(F, R)
  <2>1. \A y \in Waiting(c.todo) : y \in Verts
    BY <1>2 DEF Waiting
  <2> QED
    BY <1>3, <2>1 DEF Follows, Fresh
<1>5. ASSUME NEW x \in Verts, NEW y \in Verts, <<x, y>> \in F, x \in M \cup {c.x}, y \notin N
      PROVE  \E j \in DOMAIN R : R[j].x = x /\ y \in Waiting(R[j].todo)
  <2>1. CASE x = c.x
    <3>1. y \in Waiting(c.todo) /\ 1 \in DOMAIN R
      BY <1>3, <1>5, <2>1 DEF Fresh
    <3> QED
      BY <1>3, <2>1, <3>1
  <2>2. CASE x \in M
    <3>1. PICK j \in DOMAIN S : S[j].x = x /\ y \in Waiting(S[j].todo)
      BY <1>5, <2>2 DEF Scanned
    <3>2. j + 1 \in DOMAIN R /\ R[j + 1] = S[j]
      BY <1>3
    <3> QED
      BY <3>1, <3>2
  <2> QED
    BY <1>5, <2>1, <2>2
<1>6. Scanned(F, M \cup {c.x}, N, R)
  BY <1>5 DEF Scanned
<1> QED
  BY <1>1, <1>4, <1>6

LEMMA ReturnIsPopped ==
  ASSUME NEW S \in Seq(Visits), S # <<>>
  PROVE  /\ Tail(S) \in Seq(Visits) /\ Head(S) = S[1] /\ S[1] \in Visits /\ Len(S) \in Nat /\ Len(S) >= 1
         /\ DOMAIN S = 1..Len(S) /\ DOMAIN Tail(S) = 1..Len(S) - 1 /\ Len(Tail(S)) = Len(S) - 1
         /\ \A j \in 1..Len(S) - 1 : Tail(S)[j] = S[j + 1]
         /\ \A j \in DOMAIN S : j = 1 \/ (j - 1 \in DOMAIN Tail(S) /\ Tail(S)[j - 1] = S[j])
<1>1. PICK D, R : D = Visits /\ R = Tail(S)
  OBVIOUS
<1>2. S \in Seq(D) /\ S # <<>> /\ R = Tail(S)
  BY <1>1
<1>3. /\ Len(S) \in Nat /\ Len(S) >= 1 /\ DOMAIN S = 1..Len(S) /\ Head(S) = S[1] /\ S[1] \in D
      /\ R \in Seq(D) /\ Len(R) = Len(S) - 1 /\ DOMAIN R = 1..Len(S) - 1
      /\ \A j \in 1..Len(S) - 1 : R[j] = S[j + 1]
  BY ONLY <1>2, Popped
<1>4. ASSUME NEW j \in DOMAIN S, j # 1
      PROVE  j - 1 \in DOMAIN R /\ R[j - 1] = S[j]
  <2>1. j - 1 \in 1..Len(S) - 1 /\ (j - 1) + 1 = j
    BY <1>3, <1>4
  <2>2. R[j - 1] = S[(j - 1) + 1]
    BY <1>3, <2>1
  <2> QED
    BY <1>3, <2>1, <2>2
<1> QED
  BY <1>1, <1>3, <1>4

LEMMA ReturnScans ==
  ASSUME NEW F, NEW M, NEW N, NEW S \in Seq(Visits), S # <<>>, Head(S).todo = <<>>, Follows(F, S),
         Scanned(F, M, N, S)
  PROVE  Follows(F, Tail(S)) /\ Scanned(F, M, N, Tail(S))
<1>1. PICK R : R = Tail(S)
  OBVIOUS
<1>2. /\ R \in Seq(Visits) /\ Head(S) = S[1] /\ Len(S) \in Nat /\ Len(S) >= 1
      /\ DOMAIN S = 1..Len(S) /\ DOMAIN R = 1..Len(S) - 1
      /\ \A j \in 1..Len(S) - 1 : R[j] = S[j + 1]
      /\ \A j \in DOMAIN S : j = 1 \/ (j - 1 \in DOMAIN R /\ R[j - 1] = S[j])
  BY <1>1, ReturnIsPopped
<1>3. \A j \in DOMAIN R : j + 1 \in DOMAIN S
  BY <1>2
<1>4. Follows(F, R)
  BY <1>2, <1>3 DEF Follows
<1>5. Waiting(S[1].todo) = {}
  BY <1>2 DEF Waiting
<1>6. ASSUME NEW x \in Verts, NEW y \in Verts, <<x, y>> \in F, x \in M, y \notin N
      PROVE  \E j \in DOMAIN R : R[j].x = x /\ y \in Waiting(R[j].todo)
  <2>1. PICK j \in DOMAIN S : S[j].x = x /\ y \in Waiting(S[j].todo)
    BY <1>6 DEF Scanned
  <2>2. j # 1
    BY <1>5, <2>1
  <2> QED
    BY <1>2, <2>1, <2>2
<1>7. Scanned(F, M, N, R)
  BY <1>6 DEF Scanned
<1> QED
  BY <1>1, <1>4, <1>7

(* The first search: M is visited, Q the stack of the vertices left, S the *)
(* calls in progress. What a vertex of the stack reaches lies below it, or *)
(* the vertex belongs to a component that something above it or a call in  *)
(* progress belongs to.                                                    *)
Ranked(E, Q, S) ==
  \A k \in DOMAIN Q, l \in DOMAIN Q : l < k /\ Q[l] \in SC!Reaches(E, Q[k]) =>
    \/ \E z \in 1..l : Mutual(E, Q[z], Q[k])
    \/ \E z \in DOMAIN S : Mutual(E, S[z].x, Q[k])

Joined(E, Q, S) ==
  \A k \in DOMAIN Q, l \in DOMAIN S : S[l].x \in SC!Reaches(E, Q[k]) =>
    \E z \in DOMAIN S : l <= z /\ Mutual(E, S[z].x, Q[k])

Trail(E, S) == \A k \in DOMAIN S, l \in DOMAIN S : k < l => S[k].x \in SC!Reaches(E, S[l].x)

OneShape(E, M, Q, S) ==
  /\ Q \in Seq(Verts) /\ S \in Seq(Visits)
  /\ M = Waiting(Q) \cup Grey(S)
  /\ \A j \in DOMAIN S : S[j].x \notin Waiting(Q)
  /\ \A k \in DOMAIN S, l \in DOMAIN S : k < l => S[k].x # S[l].x
  /\ Trail(E, S) /\ Ranked(E, Q, S) /\ Joined(E, Q, S)

LEMMA QIn ==
  ASSUME NEW Q \in Seq(Verts)
  PROVE  Len(Q) \in Nat /\ DOMAIN Q = 1..Len(Q) /\ Waiting(Q) \in SUBSET Verts
         /\ \A j \in DOMAIN Q : Q[j] \in Verts /\ Q[j] \in Waiting(Q)
<1>1. Len(Q) \in Nat /\ DOMAIN Q = 1..Len(Q) /\ \A j \in 1..Len(Q) : Q[j] \in Verts
  OBVIOUS
<1> QED
  BY <1>1 DEF Waiting

LEMMA SIn ==
  ASSUME NEW S \in Seq(Visits)
  PROVE  Len(S) \in Nat /\ DOMAIN S = 1..Len(S)
         /\ \A j \in DOMAIN S : S[j].x \in Verts /\ S[j].todo \in Seq(Verts)
<1>1. Len(S) \in Nat /\ DOMAIN S = 1..Len(S) /\ \A j \in 1..Len(S) : S[j] \in Visits
  OBVIOUS
<1> QED
  BY <1>1 DEF Visits

LEMMA OneAdvances ==
  ASSUME NEW E, NEW M, NEW Q, NEW S, OneShape(E, M, Q, S), NEW R \in Seq(Visits),
         DOMAIN R = DOMAIN S, \A j \in DOMAIN S : R[j].x = S[j].x
  PROVE  OneShape(E, M, Q, R)
<1>1. Grey(R) = Grey(S)
  BY DEF Grey
<1>2. Trail(E, R) /\ Joined(E, Q, R) /\ Ranked(E, Q, R)
  <2>1. Trail(E, R)
    BY DEF OneShape, Trail
  <2>2. Joined(E, Q, R)
    BY DEF OneShape, Joined
  <2>3. Ranked(E, Q, R)
    BY DEF OneShape, Ranked
  <2> QED
    BY <2>1, <2>2, <2>3
<1> QED
  BY <1>1, <1>2 DEF OneShape

(* A vertex that the search left and that reaches one not yet visited also *)
(* reaches a call in progress.                                             *)
LEMMA WhiteBehindGrey ==
  ASSUME NEW E \in Links, NEW M, NEW Q, NEW S, OneShape(E, M, Q, S), Scanned(E, M, M, S),
         NEW v \in Waiting(Q), NEW y \in SC!Reaches(E, v), y \notin M
  PROVE  \E j \in DOMAIN S : S[j].x \in SC!Reaches(E, v)
<1> SUFFICES ASSUME \A j \in DOMAIN S : S[j].x \notin SC!Reaches(E, v) PROVE FALSE
  OBVIOUS
<1>1. v \in Verts /\ Waiting(Q) \in SUBSET Verts
  BY QIn DEF OneShape
<1>2. PICK W : W = SC!Reaches(E, v)
  OBVIOUS
<1>3. W \in SUBSET Verts /\ v \in W /\ Shut(E, W) /\ \A U : v \in U /\ Shut(E, U) => W \subseteq U
  BY <1>1, <1>2, ReachesIs
<1>4. M = Waiting(Q) \cup Grey(S)
  BY DEF OneShape
<1>5. ASSUME NEW e \in E, e[1] \in W \cap Waiting(Q)
      PROVE  e[2] \in W \cap Waiting(Q)
  <2>1. e[1] \in Verts /\ e[2] \in Verts /\ <<e[1], e[2]>> \in E
    BY DEF Links
  <2>2. e[2] \in W
    BY <1>3, <1>5 DEF Shut
  <2>3. e[2] \in M
    <3>1. ASSUME NEW j \in DOMAIN S
          PROVE  S[j].x # e[1]
      BY <1>5 DEF OneShape
    <3>2. e[1] \in M
      BY <1>4, <1>5
    <3> QED
      BY <2>1, <3>1, <3>2 DEF Scanned
  <2>4. e[2] \notin Grey(S)
    BY <1>2, <2>2 DEF Grey
  <2> QED
    BY <1>4, <2>2, <2>3, <2>4
<1>6. W \subseteq W \cap Waiting(Q)
  BY <1>3, <1>5 DEF Shut
<1> QED
  BY <1>2, <1>4, <1>6

LEMMA OneCalls ==
  ASSUME NEW E \in Links, NEW M, NEW Q, NEW S, OneShape(E, M, Q, S),
         NEW c \in Visits, c.x \notin M,
         \A j \in DOMAIN S : c.x \in SC!Reaches(E, S[j].x),
         \A v \in Waiting(Q) : c.x \in SC!Reaches(E, v) => \E j \in DOMAIN S : S[j].x \in SC!Reaches(E, v)
  PROVE  OneShape(E, M \cup {c.x}, Q, <<c>> \o S)
<1>1. PICK R : R = <<c>> \o S
  OBVIOUS
<1>2. /\ Q \in Seq(Verts) /\ S \in Seq(Visits) /\ M = Waiting(Q) \cup Grey(S)
      /\ Trail(E, S) /\ Ranked(E, Q, S) /\ Joined(E, Q, S)
  BY DEF OneShape
<1>3. /\ R \in Seq(Visits) /\ Len(S) \in Nat /\ DOMAIN S = 1..Len(S)
      /\ DOMAIN R = 1..Len(S) + 1
      /\ R[1] = c /\ \A j \in 1..Len(S) : R[j + 1] = S[j]
      /\ \A j \in DOMAIN R : j = 1 \/ (j - 1 \in DOMAIN S /\ R[j] = S[j - 1])
  BY <1>1, <1>2, CallIsPushed
<1>4. \A j \in DOMAIN S : j + 1 \in DOMAIN R /\ R[j + 1] = S[j]
  BY <1>3
<1>5. 1 \in DOMAIN R
  BY <1>3
<1>6. Grey(R) = Grey(S) \cup {c.x}
  <2>1. \A j \in DOMAIN R : R[j].x \in Grey(S) \cup {c.x}
    BY <1>3 DEF Grey
  <2>2. c.x \in Grey(R)
    BY <1>3, <1>5 DEF Grey
  <2>3. \A j \in DOMAIN S : S[j].x \in Grey(R)
    BY <1>4 DEF Grey
  <2> QED
    BY <2>1, <2>2, <2>3 DEF Grey
<1>7. \A j \in DOMAIN R : R[j].x \notin Waiting(Q)
  BY <1>2, <1>3 DEF OneShape
<1>8. \A k \in DOMAIN R, l \in DOMAIN R : k < l =>
        l - 1 \in DOMAIN S /\ R[l] = S[l - 1]
        /\ (k = 1 \/ (k - 1 \in DOMAIN S /\ k - 1 < l - 1 /\ R[k] = S[k - 1]))
  <2> TAKE k \in DOMAIN R, l \in DOMAIN R
  <2> HAVE k < l
  <2>1. k \in Nat /\ l \in Nat /\ k >= 1 /\ l # 1
    BY <1>3
  <2>2. l - 1 \in DOMAIN S /\ R[l] = S[l - 1]
    BY <1>3, <2>1
  <2>3. k = 1 \/ (k - 1 \in DOMAIN S /\ R[k] = S[k - 1])
    BY <1>3
  <2> QED
    BY <2>1, <2>2, <2>3
<1>9. \A k \in DOMAIN R, l \in DOMAIN R : k < l => R[k].x # R[l].x
  <2> TAKE k \in DOMAIN R, l \in DOMAIN R
  <2> HAVE k < l
  <2>1. l - 1 \in DOMAIN S /\ R[l] = S[l - 1]
    BY <1>8
  <2>2. CASE k = 1
    <3>1. S[l - 1].x \in M
      BY <1>2, <2>1 DEF Grey
    <3> QED
      BY <1>3, <2>1, <2>2, <3>1
  <2>3. CASE k # 1
    BY <1>8, <2>3 DEF OneShape
  <2> QED
    BY <2>2, <2>3
<1>10. Trail(E, R)
  <2> SUFFICES ASSUME NEW k \in DOMAIN R, NEW l \in DOMAIN R, k < l
               PROVE  R[k].x \in SC!Reaches(E, R[l].x)
    BY DEF Trail
  <2>1. l - 1 \in DOMAIN S /\ R[l] = S[l - 1]
    BY <1>8
  <2>2. CASE k = 1
    BY <1>3, <2>1, <2>2
  <2>3. CASE k # 1
    BY <1>2, <1>8, <2>3 DEF Trail
  <2> QED
    BY <2>2, <2>3
<1>11. Ranked(E, Q, R)
  <2> SUFFICES ASSUME NEW k \in DOMAIN Q, NEW l \in DOMAIN Q, l < k, Q[l] \in SC!Reaches(E, Q[k]),
                      ~\E z \in 1..l : Mutual(E, Q[z], Q[k])
               PROVE  \E z \in DOMAIN R : Mutual(E, R[z].x, Q[k])
    BY DEF Ranked
  <2>1. PICK z \in DOMAIN S : Mutual(E, S[z].x, Q[k])
    BY <1>2 DEF Ranked
  <2> QED
    BY <1>4, <2>1
<1>12. Joined(E, Q, R)
  <2> SUFFICES ASSUME NEW k \in DOMAIN Q, NEW l \in DOMAIN R, R[l].x \in SC!Reaches(E, Q[k])
               PROVE  \E z \in DOMAIN R : l <= z /\ Mutual(E, R[z].x, Q[k])
    BY DEF Joined
  <2>1. PICK j \in DOMAIN S : S[j].x \in SC!Reaches(E, Q[k]) /\ l <= j + 1
    <3>1. CASE l = 1
      <4>1. Q[k] \in Waiting(Q)
        BY DEF Waiting
      <4>2. PICK j \in DOMAIN S : S[j].x \in SC!Reaches(E, Q[k])
        BY <1>3, <3>1, <4>1
      <4>3. l <= j + 1
        BY <1>3, <3>1
      <4> QED
        BY <4>2, <4>3
    <3>2. CASE l # 1
      <4>1. l - 1 \in DOMAIN S /\ R[l] = S[l - 1] /\ l <= (l - 1) + 1
        BY <1>3, <3>2
      <4> QED
        BY <4>1
    <3> QED
      BY <3>1, <3>2
  <2>2. PICK z \in DOMAIN S : j <= z /\ Mutual(E, S[z].x, Q[k])
    BY <1>2, <2>1 DEF Joined
  <2>3. l <= z + 1
    BY <1>3, <2>1, <2>2
  <2> QED
    BY <1>4, <2>2, <2>3
<1>13. M \cup {c.x} = Waiting(Q) \cup Grey(R)
  BY <1>2, <1>6
<1>14. OneShape(E, M \cup {c.x}, Q, R)
  BY <1>2, <1>3, <1>7, <1>9, <1>10, <1>11, <1>12, <1>13 DEF OneShape
<1> QED
  BY <1>1, <1>14

LEMMA OneLeaves ==
  ASSUME NEW E \in Links, NEW M, NEW Q, NEW S, OneShape(E, M, Q, S), S # <<>>
  PROVE  OneShape(E, M, <<Head(S).x>> \o Q, Tail(S))
<1>1. PICK R, x : R = Tail(S) /\ x = Head(S).x
  OBVIOUS
<1>2. /\ Q \in Seq(Verts) /\ S \in Seq(Visits) /\ M = Waiting(Q) \cup Grey(S)
      /\ Trail(E, S) /\ Ranked(E, Q, S) /\ Joined(E, Q, S)
  BY DEF OneShape
<1>3. /\ R \in Seq(Visits) /\ Len(S) \in Nat /\ Len(S) >= 1 /\ x = S[1].x
      /\ DOMAIN S = 1..Len(S) /\ DOMAIN R = 1..Len(S) - 1
      /\ \A j \in 1..Len(S) - 1 : R[j] = S[j + 1]
      /\ \A j \in DOMAIN S : j = 1 \/ (j - 1 \in DOMAIN R /\ R[j - 1] = S[j])
  BY <1>1, <1>2, ReturnIsPopped
<1>4. x \in Verts /\ 1 \in DOMAIN S
  BY <1>2, <1>3, SIn
<1>5. PICK P : P = <<x>> \o Q
  OBVIOUS
<1>6. /\ P \in Seq(Verts) /\ Len(Q) \in Nat /\ DOMAIN Q = 1..Len(Q) /\ DOMAIN P = 1..Len(Q) + 1
      /\ P[1] = x /\ \A j \in 1..Len(Q) : P[j + 1] = Q[j]
  <2>1. PICK D : D = Verts
    OBVIOUS
  <2>2. x \in D /\ Q \in Seq(D) /\ P = <<x>> \o Q
    BY <1>2, <1>4, <1>5, <2>1
  <2>3. /\ P \in Seq(D) /\ Len(Q) \in Nat /\ DOMAIN Q = 1..Len(Q) /\ DOMAIN P = 1..Len(Q) + 1
        /\ P[1] = x /\ \A j \in 1..Len(Q) : P[j + 1] = Q[j]
    BY ONLY <2>2, Pushed
  <2> QED
    BY <2>1, <2>3
<1>7. Waiting(P) = Waiting(Q) \cup {x}
  <2>1. PICK D : D = Verts
    OBVIOUS
  <2>2. x \in D /\ Q \in Seq(D)
    BY <1>2, <1>4, <2>1
  <2>3. Waiting(<<x>> \o Q) = Waiting(Q) \cup {x}
    BY ONLY <2>2, WaitingPushed
  <2> QED
    BY <1>5, <2>3
<1>8. \A j \in DOMAIN R : j + 1 \in DOMAIN S /\ j + 1 # 1 /\ R[j] = S[j + 1]
  BY <1>3
<1>9. Grey(S) = Grey(R) \cup {x}
  <2>1. \A j \in DOMAIN S : S[j].x \in Grey(R) \cup {x}
    BY <1>3 DEF Grey
  <2>2. x \in Grey(S)
    BY <1>3, <1>4 DEF Grey
  <2>3. \A j \in DOMAIN R : R[j].x \in Grey(S)
    BY <1>8 DEF Grey
  <2> QED
    BY <2>1, <2>2, <2>3 DEF Grey
<1>10. M = Waiting(P) \cup Grey(R)
  BY <1>2, <1>7, <1>9
<1>11. \A j \in DOMAIN R : R[j].x \notin Waiting(P)
  <2> TAKE j \in DOMAIN R
  <2>1. j + 1 \in DOMAIN S /\ 1 < j + 1 /\ R[j] = S[j + 1]
    BY <1>3
  <2>2. S[j + 1].x # S[1].x /\ S[j + 1].x \notin Waiting(Q)
    BY <1>4, <2>1 DEF OneShape
  <2> QED
    BY <1>3, <1>7, <2>1, <2>2
<1>12. \A k \in DOMAIN R, l \in DOMAIN R : k < l => R[k].x # R[l].x
  <2> TAKE k \in DOMAIN R, l \in DOMAIN R
  <2> HAVE k < l
  <2>1. k + 1 < l + 1
    BY <1>3
  <2> QED
    BY <1>8, <2>1 DEF OneShape
<1>13. Trail(E, R)
  <2> SUFFICES ASSUME NEW k \in DOMAIN R, NEW l \in DOMAIN R, k < l
               PROVE  R[k].x \in SC!Reaches(E, R[l].x)
    BY DEF Trail
  <2>1. k + 1 < l + 1
    BY <1>3
  <2> QED
    BY <1>2, <1>8, <2>1 DEF Trail
<1>14. \A k \in DOMAIN P : k = 1 \/ (k - 1 \in DOMAIN Q /\ P[k] = Q[k - 1])
  <2> TAKE k \in DOMAIN P
  <2> SUFFICES ASSUME k # 1 PROVE k - 1 \in DOMAIN Q /\ P[k] = Q[k - 1]
    OBVIOUS
  <2>1. k - 1 \in 1..Len(Q) /\ (k - 1) + 1 = k
    BY <1>6
  <2>2. P[(k - 1) + 1] = Q[k - 1]
    BY <1>6, <2>1
  <2> QED
    BY <1>6, <2>1, <2>2
<1>15. Ranked(E, P, R)
  <2> SUFFICES ASSUME NEW k \in DOMAIN P, NEW l \in DOMAIN P, l < k, P[l] \in SC!Reaches(E, P[k]),
                      ~\E z \in 1..l : Mutual(E, P[z], P[k])
               PROVE  \E z \in DOMAIN R : Mutual(E, R[z].x, P[k])
    BY DEF Ranked
  <2>0. k # 1 /\ 1 \in 1..l
    BY <1>6
  <2>1. k - 1 \in DOMAIN Q /\ P[k] = Q[k - 1]
    BY <1>14, <2>0
  <2>2. PICK w \in DOMAIN S : Mutual(E, S[w].x, Q[k - 1])
    <3>1. CASE l = 1
      <4>1. S[1].x \in SC!Reaches(E, Q[k - 1])
        BY <1>3, <1>6, <2>1, <3>1
      <4> QED
        BY <1>2, <1>4, <2>1, <4>1 DEF Joined
    <3>2. CASE l # 1
      <4>1. l - 1 \in DOMAIN Q /\ P[l] = Q[l - 1]
        BY <1>14, <3>2
      <4>2. l - 1 < k - 1
        BY <1>6
      <4>3. \A z \in 1..l - 1 : z + 1 \in 1..l /\ z \in 1..Len(Q)
        BY <1>6
      <4>4. ~\E z \in 1..l - 1 : Mutual(E, Q[z], Q[k - 1])
        BY <1>6, <2>1, <4>3
      <4> QED
        BY <1>2, <2>1, <4>1, <4>2, <4>4 DEF Ranked
    <3> QED
      BY <3>1, <3>2
  <2>3. w # 1
    BY <1>3, <1>6, <2>0, <2>1, <2>2
  <2> QED
    BY <1>3, <2>1, <2>2, <2>3
<1>16. Joined(E, P, R)
  <2> SUFFICES ASSUME NEW k \in DOMAIN P, NEW l \in DOMAIN R, R[l].x \in SC!Reaches(E, P[k])
               PROVE  \E z \in DOMAIN R : l <= z /\ Mutual(E, R[z].x, P[k])
    BY DEF Joined
  <2>1. l + 1 \in DOMAIN S /\ 1 < l + 1 /\ R[l] = S[l + 1]
    BY <1>3
  <2>2. CASE k = 1
    <3>1. S[1].x \in SC!Reaches(E, S[l + 1].x)
      BY <1>2, <1>4, <2>1 DEF Trail
    <3>2. Mutual(E, R[l].x, P[k]) /\ l <= l
      BY <1>3, <1>6, <2>1, <2>2, <3>1 DEF Mutual
    <3> QED
      BY <3>2
  <2>3. CASE k # 1
    <3>1. k - 1 \in DOMAIN Q /\ P[k] = Q[k - 1]
      BY <1>14, <2>3
    <3>2. PICK z \in DOMAIN S : l + 1 <= z /\ Mutual(E, S[z].x, Q[k - 1])
      BY <1>2, <2>1, <3>1 DEF Joined
    <3>3. z # 1 /\ l <= z - 1
      BY <1>3, <3>2
    <3> QED
      BY <1>3, <3>1, <3>2, <3>3
  <2> QED
    BY <2>2, <2>3
<1>17. OneShape(E, M, P, R)
  BY <1>3, <1>6, <1>10, <1>11, <1>12, <1>13, <1>15, <1>16 DEF OneShape
<1> QED
  BY <1>1, <1>5, <1>17

Back(E) == {<<e[2], e[1]>> : e \in E}
Outer(S) == S[Len(S)].x

(* The second search, of the reversed edges: what is in progress belongs   *)
(* to the component of the outermost call, and so does what is not visited *)
(* and reaches that call.                                                  *)
InComponent(E, M, S) ==
  /\ \A j \in DOMAIN S : S[j].x \in M /\ Mutual(E, Outer(S), S[j].x)
  /\ S # <<>> => \A u \in Verts \ M : Outer(S) \in SC!Reaches(E, u) => u \in SC!Reaches(E, Outer(S))

Placed(E, M, Q, S) ==
  \A k \in DOMAIN Q, l \in DOMAIN Q : l < k /\ Q[l] \in SC!Reaches(E, Q[k]) =>
    \/ \E z \in 1..l : Mutual(E, Q[z], Q[k])
    \/ Q[k] \in M
    \/ S # <<>> /\ Mutual(E, Q[k], Outer(S))

TwoShape(E, M, Q, S) ==
  /\ Q \in Seq(Verts) /\ S \in Seq(Visits) /\ M \in SUBSET Verts
  /\ Verts \subseteq M \cup Waiting(Q)
  /\ InComponent(E, M, S) /\ Placed(E, M, Q, S)

LEMMA BackIs ==
  ASSUME NEW E \in Links
  PROVE  Back(E) \in Links /\ \A x, y \in Verts : <<x, y>> \in Back(E) <=> <<y, x>> \in E
<1>1. \A e \in E : e[1] \in Verts /\ e[2] \in Verts /\ e = <<e[1], e[2]>>
  BY DEF Links
<1>2. Back(E) \in Links
  BY <1>1 DEF Links, Back
<1>3. ASSUME NEW x \in Verts, NEW y \in Verts, <<x, y>> \in Back(E)
      PROVE  <<y, x>> \in E
  <2>1. PICK e \in E : <<x, y>> = <<e[2], e[1]>>
    BY <1>3 DEF Back
  <2>2. e = <<y, x>>
    BY <1>1, <2>1
  <2> QED
    BY <2>2
<1>4. ASSUME NEW x \in Verts, NEW y \in Verts, <<y, x>> \in E
      PROVE  <<x, y>> \in Back(E)
  <2>1. PICK e \in E : e = <<y, x>>
    BY <1>4
  <2>2. <<x, y>> = <<e[2], e[1]>>
    BY <2>1
  <2> QED
    BY <2>2 DEF Back
<1> QED
  BY <1>2, <1>3, <1>4

(* Between two searches what reaches a visited vertex is visited.          *)
LEMMA VisitedBefore ==
  ASSUME NEW E \in Links, NEW M \in SUBSET Verts, Scanned(Back(E), M, M, <<>>),
         NEW v \in Verts, NEW w \in M, w \in SC!Reaches(E, v)
  PROVE  v \in M
<1> SUFFICES ASSUME v \notin M PROVE FALSE
  OBVIOUS
<1>1. Shut(E, Verts \ M)
  <2> SUFFICES ASSUME NEW e \in E, e[1] \in Verts \ M, e[2] \in M PROVE FALSE
    BY DEF Shut, Links
  <2>1. PICK x \in Verts, y \in Verts : x = e[1] /\ y = e[2] /\ <<x, y>> \in E
    BY DEF Links
  <2>2. <<y, x>> \in Back(E)
    BY <2>1, BackIs
  <2>3. DOMAIN <<>> = {}
    OBVIOUS
  <2> QED
    BY <2>1, <2>2, <2>3 DEF Scanned
<1>2. SC!Reaches(E, v) \subseteq Verts \ M
  BY <1>1, ReachesIs
<1> QED
  BY <1>2

LEMMA TwoBegins ==
  ASSUME NEW E, NEW Q, OneShape(E, Verts, Q, <<>>)
  PROVE  TwoShape(E, {}, Q, <<>>)
<1>1. Q \in Seq(Verts) /\ <<>> \in Seq(Visits) /\ Verts = Waiting(Q) \cup Grey(<<>>) /\ Ranked(E, Q, <<>>)
  BY DEF OneShape
<1>2. DOMAIN <<>> = {} /\ Grey(<<>>) = {}
  BY DEF Grey
<1>3. InComponent(E, {}, <<>>)
  BY <1>2 DEF InComponent
<1>4. Placed(E, {}, Q, <<>>)
  BY <1>1, <1>2 DEF Placed, Ranked
<1>5. Verts \subseteq {} \cup Waiting(Q)
  BY <1>1, <1>2
<1> QED
  BY <1>1, <1>3, <1>4, <1>5 DEF TwoShape

(* The rest of the stack, once its top is visited. *)
LEMMA PlacedTail ==
  ASSUME NEW E \in Links, NEW M, NEW N, NEW Q, NEW S, NEW R, Q \in Seq(Verts), Q # <<>>,
         Placed(E, M, Q, S),
         \A k \in DOMAIN Q : Q[k] \in M \/ (S # <<>> /\ Mutual(E, Q[k], Outer(S))) \/ Mutual(E, Q[1], Q[k])
           => Q[k] \in N \/ (R # <<>> /\ Mutual(E, Q[k], Outer(R)))
  PROVE  Placed(E, N, Tail(Q), R)
<1>1. PICK P : P = Tail(Q)
  OBVIOUS
<1>2. /\ Len(Q) \in Nat /\ Len(Q) >= 1 /\ DOMAIN Q = 1..Len(Q) /\ DOMAIN P = 1..Len(Q) - 1
      /\ \A j \in 1..Len(Q) - 1 : P[j] = Q[j + 1]
  <2>1. PICK D : D = Verts
    OBVIOUS
  <2>2. Q \in Seq(D) /\ Q # <<>> /\ P = Tail(Q)
    BY <1>1, <2>1
  <2> QED
    BY ONLY <2>2, Popped
<1>3. \A k \in DOMAIN P : k + 1 \in DOMAIN Q /\ P[k] = Q[k + 1]
  BY <1>2
<1>4. ASSUME NEW k \in DOMAIN P, NEW l \in DOMAIN P, l < k, P[l] \in SC!Reaches(E, P[k]),
             ~\E z \in 1..l : Mutual(E, P[z], P[k])
      PROVE  P[k] \in N \/ (R # <<>> /\ Mutual(E, P[k], Outer(R)))
  <2>1. l + 1 < k + 1
    BY <1>2, <1>4
  <2>2. \/ \E z \in 1..l + 1 : Mutual(E, Q[z], Q[k + 1])
        \/ Q[k + 1] \in M
        \/ S # <<>> /\ Mutual(E, Q[k + 1], Outer(S))
    BY <1>3, <1>4, <2>1 DEF Placed
  <2>3. ASSUME NEW z \in 1..l + 1, Mutual(E, Q[z], Q[k + 1])
        PROVE  z = 1
    <3> SUFFICES ASSUME z # 1 PROVE FALSE
      OBVIOUS
    <3>1. z - 1 \in 1..l /\ z - 1 \in 1..Len(Q) - 1 /\ (z - 1) + 1 = z
      BY <1>2
    <3>2. P[z - 1] = Q[(z - 1) + 1]
      BY <1>2, <3>1
    <3>3. Mutual(E, P[z - 1], P[k])
      BY <1>3, <2>3, <3>1, <3>2
    <3> QED
      BY <1>4, <3>1, <3>3
  <2>4. Q[k + 1] \in M \/ (S # <<>> /\ Mutual(E, Q[k + 1], Outer(S))) \/ Mutual(E, Q[1], Q[k + 1])
    BY <2>2, <2>3
  <2> QED
    BY <1>3, <2>4
<1> QED
  BY <1>1, <1>4 DEF Placed

LEMMA TwoSkips ==
  ASSUME NEW E \in Links, NEW M, NEW Q, TwoShape(E, M, Q, <<>>), Scanned(Back(E), M, M, <<>>),
         Q # <<>>, Head(Q) \in M
  PROVE  TwoShape(E, M, Tail(Q), <<>>)
<1>1. /\ Q \in Seq(Verts) /\ <<>> \in Seq(Visits) /\ M \in SUBSET Verts /\ Verts \subseteq M \cup Waiting(Q)
      /\ InComponent(E, M, <<>>) /\ Placed(E, M, Q, <<>>)
  BY DEF TwoShape
<1>2. Tail(Q) \in Seq(Verts) /\ Waiting(Q) = Waiting(Tail(Q)) \cup {Head(Q)} /\ Head(Q) = Q[1]
  <2>1. PICK D : D = Verts
    OBVIOUS
  <2>2. Q \in Seq(D) /\ Q # <<>>
    BY <1>1, <2>1
  <2>3. Tail(Q) \in Seq(D) /\ Waiting(Q) = Waiting(Tail(Q)) \cup {Head(Q)}
    BY ONLY <2>2, WaitingPopped
  <2> QED
    BY <1>1, <2>1, <2>3
<1>3. ASSUME NEW k \in DOMAIN Q, Mutual(E, Q[1], Q[k])
      PROVE  Q[k] \in M
  <2>1. Q[k] \in Verts /\ Q[1] \in M
    BY <1>1, <1>2, QIn
  <2> QED
    BY <1>1, <1>3, <2>1, VisitedBefore DEF Mutual
<1>4. Placed(E, M, Tail(Q), <<>>)
  BY <1>1, <1>3, PlacedTail
<1>5. Verts \subseteq M \cup Waiting(Tail(Q))
  BY <1>1, <1>2
<1> QED
  BY <1>1, <1>2, <1>4, <1>5 DEF TwoShape

LEMMA TwoStarts ==
  ASSUME NEW E \in Links, NEW M, NEW Q, TwoShape(E, M, Q, <<>>), Q # <<>>, NEW r, r = Head(Q), r \notin M,
         NEW R \in Seq(Visits), Len(R) = 1, R[1].x = r
  PROVE  TwoShape(E, M \cup {r}, Tail(Q), R)
<1>1. /\ Q \in Seq(Verts) /\ M \in SUBSET Verts /\ Verts \subseteq M \cup Waiting(Q)
      /\ Placed(E, M, Q, <<>>)
  BY DEF TwoShape
<1>2. Tail(Q) \in Seq(Verts) /\ Waiting(Q) = Waiting(Tail(Q)) \cup {r} /\ r = Q[1] /\ r \in Verts
  <2>1. PICK D : D = Verts
    OBVIOUS
  <2>2. Q \in Seq(D) /\ Q # <<>>
    BY <1>1, <2>1
  <2>3. Tail(Q) \in Seq(D) /\ Waiting(Q) = Waiting(Tail(Q)) \cup {Head(Q)} /\ Head(Q) \in D
    BY ONLY <2>2, WaitingPopped
  <2> QED
    BY <1>1, <2>1, <2>3
<1>3. R # <<>> /\ DOMAIN R = {1} /\ Outer(R) = r
  BY DEF Outer
<1>4. ASSUME NEW u \in Verts \ M, u # r, r \in SC!Reaches(E, u)
      PROVE  Mutual(E, r, u)
  <2>1. PICK k \in DOMAIN Q : u = Q[k]
    BY <1>1, <1>4 DEF Waiting
  <2>2. 1 \in DOMAIN Q /\ 1 < k
    BY <1>1, <1>2, <1>4, <2>1, QIn
  <2>3. \E z \in 1..1 : Mutual(E, Q[z], Q[k])
    BY <1>1, <1>2, <1>4, <2>1, <2>2 DEF Placed
  <2> QED
    BY <1>2, <2>1, <2>3
<1>5. InComponent(E, M \cup {r}, R)
  <2>1. Mutual(E, r, r)
    BY <1>2, MutualIs
  <2>2. \A u \in Verts \ (M \cup {r}) : r \in SC!Reaches(E, u) => u \in SC!Reaches(E, r)
    BY <1>4 DEF Mutual
  <2> QED
    BY <1>3, <2>1, <2>2 DEF InComponent
<1>6. ASSUME NEW k \in DOMAIN Q, Mutual(E, Q[1], Q[k])
      PROVE  Mutual(E, Q[k], Outer(R))
  <2>1. Q[k] \in Verts
    BY <1>1, QIn
  <2> QED
    BY <1>2, <1>3, <1>6, <2>1, MutualIs
<1>7. Placed(E, M \cup {r}, Tail(Q), R)
  <2>1. \A k \in DOMAIN Q :
          Q[k] \in M \/ (<<>> # <<>> /\ Mutual(E, Q[k], Outer(<<>>))) \/ Mutual(E, Q[1], Q[k])
            => Q[k] \in M \cup {r} \/ (R # <<>> /\ Mutual(E, Q[k], Outer(R)))
    BY <1>3, <1>6
  <2> QED
    BY <1>1, <2>1, PlacedTail
<1>8. Verts \subseteq (M \cup {r}) \cup Waiting(Tail(Q)) /\ M \cup {r} \in SUBSET Verts
  BY <1>1, <1>2
<1> QED
  BY <1>2, <1>5, <1>7, <1>8 DEF TwoShape

LEMMA TwoAdvances ==
  ASSUME NEW E, NEW M, NEW Q, NEW S, TwoShape(E, M, Q, S), S # <<>>, NEW R \in Seq(Visits), R # <<>>,
         Len(R) = Len(S), DOMAIN R = DOMAIN S, \A j \in DOMAIN S : R[j].x = S[j].x
  PROVE  TwoShape(E, M, Q, R) /\ Outer(R) = Outer(S)
<1>1. S \in Seq(Visits) /\ InComponent(E, M, S) /\ Placed(E, M, Q, S)
  BY DEF TwoShape
<1>2. Outer(R) = Outer(S)
  <2>1. Len(S) \in DOMAIN S
    BY <1>1
  <2> QED
    BY <2>1 DEF Outer
<1>3. InComponent(E, M, R)
  BY <1>1, <1>2 DEF InComponent
<1>4. Placed(E, M, Q, R)
  BY <1>1, <1>2 DEF Placed
<1> QED
  BY <1>2, <1>3, <1>4 DEF TwoShape

LEMMA TwoCalls ==
  ASSUME NEW E \in Links, NEW M, NEW Q, NEW S, TwoShape(E, M, Q, S), S # <<>>,
         NEW c \in Visits, c.x \notin M, S[1].x \in SC!Reaches(E, c.x)
  PROVE  /\ TwoShape(E, M \cup {c.x}, Q, <<c>> \o S)
         /\ Outer(<<c>> \o S) = Outer(S) /\ Outer(S) \in Verts /\ Mutual(E, Outer(S), c.x)
<1>1. PICK R : R = <<c>> \o S
  OBVIOUS
<1>2. /\ Q \in Seq(Verts) /\ S \in Seq(Visits) /\ M \in SUBSET Verts /\ Verts \subseteq M \cup Waiting(Q)
      /\ InComponent(E, M, S) /\ Placed(E, M, Q, S)
  BY DEF TwoShape
<1>3. /\ R \in Seq(Visits) /\ Len(S) \in Nat /\ DOMAIN S = 1..Len(S)
      /\ Len(R) = Len(S) + 1 /\ R # <<>>
      /\ R[1] = c /\ \A j \in 1..Len(S) : R[j + 1] = S[j]
      /\ \A j \in DOMAIN R : j = 1 \/ (j - 1 \in DOMAIN S /\ R[j] = S[j - 1])
  BY <1>1, <1>2, CallIsPushed
<1>4. Len(S) \in 1..Len(S) /\ 1 \in DOMAIN S
  BY <1>2, <1>3
<1>5. PICK x : x = Outer(S) /\ x = Outer(R)
  BY <1>3, <1>4 DEF Outer
<1>6. c.x \in Verts /\ x \in Verts
  <2>1. \A j \in DOMAIN S : S[j].x \in Verts
    BY <1>2, SIn
  <2> QED
    BY <1>3, <1>4, <1>5, <2>1 DEF Visits, Outer
<1>7. Mutual(E, x, c.x)
  <2>1. x \in SC!Reaches(E, S[1].x) /\ S[1].x \in Verts
    BY <1>2, <1>4, <1>5 DEF InComponent, Mutual
  <2>2. x \in SC!Reaches(E, c.x)
    BY <1>6, <2>1, ReachTrans
  <2>3. c.x \in SC!Reaches(E, x)
    BY <1>2, <1>5, <1>6, <2>2 DEF InComponent
  <2> QED
    BY <2>2, <2>3 DEF Mutual
<1>8. InComponent(E, M \cup {c.x}, R)
  <2>1. ASSUME NEW j \in DOMAIN R
        PROVE  R[j].x \in M \cup {c.x} /\ Mutual(E, Outer(R), R[j].x)
    <3>1. CASE j = 1
      BY <1>3, <1>5, <1>7, <3>1
    <3>2. CASE j # 1
      <4>1. j - 1 \in DOMAIN S /\ R[j] = S[j - 1]
        BY <1>3, <3>2
      <4> QED
        BY <1>2, <1>5, <4>1 DEF InComponent
    <3> QED
      BY <3>1, <3>2
  <2>2. \A u \in Verts \ (M \cup {c.x}) : x \in SC!Reaches(E, u) => u \in SC!Reaches(E, x)
    BY <1>2, <1>5 DEF InComponent
  <2> QED
    BY <1>5, <2>1, <2>2 DEF InComponent
<1>9. Placed(E, M \cup {c.x}, Q, R)
  BY <1>2, <1>3, <1>5 DEF Placed
<1>10. M \cup {c.x} \in SUBSET Verts /\ Verts \subseteq (M \cup {c.x}) \cup Waiting(Q)
  BY <1>2, <1>6
<1>11. TwoShape(E, M \cup {c.x}, Q, R)
  BY <1>2, <1>3, <1>8, <1>9, <1>10 DEF TwoShape
<1> QED
  BY <1>1, <1>5, <1>6, <1>7, <1>11

LEMMA TwoLeaves ==
  ASSUME NEW E \in Links, NEW M, NEW Q, NEW S, TwoShape(E, M, Q, S), S # <<>>, Len(S) # 1
  PROVE  TwoShape(E, M, Q, Tail(S)) /\ Tail(S) # <<>> /\ Outer(Tail(S)) = Outer(S)
<1>1. PICK R : R = Tail(S)
  OBVIOUS
<1>2. S \in Seq(Visits) /\ InComponent(E, M, S) /\ Placed(E, M, Q, S)
  BY DEF TwoShape
<1>3. /\ R \in Seq(Visits) /\ Len(S) \in Nat /\ Len(S) >= 1 /\ DOMAIN S = 1..Len(S)
      /\ DOMAIN R = 1..Len(S) - 1 /\ Len(R) = Len(S) - 1
      /\ \A j \in 1..Len(S) - 1 : R[j] = S[j + 1]
  BY <1>1, <1>2, ReturnIsPopped
<1>4. Len(S) - 1 \in 1..Len(S) - 1 /\ (Len(S) - 1) + 1 = Len(S)
  BY <1>3
<1>5. Outer(R) = Outer(S)
  BY <1>3, <1>4 DEF Outer
<1>6. R # <<>>
  BY <1>3, <1>4
<1>7. \A j \in DOMAIN R : j + 1 \in DOMAIN S /\ R[j] = S[j + 1]
  BY <1>3
<1>8. InComponent(E, M, R)
  BY <1>2, <1>5, <1>7 DEF InComponent
<1>9. Placed(E, M, Q, R)
  BY <1>2, <1>5, <1>6 DEF Placed
<1> QED
  BY <1>1, <1>3, <1>5, <1>6, <1>8, <1>9 DEF TwoShape

LEMMA TwoEnds ==
  ASSUME NEW E \in Links, NEW M, NEW Q, NEW S, TwoShape(E, M, Q, S), S # <<>>,
         Scanned(Back(E), M, M, <<>>)
  PROVE  /\ TwoShape(E, M, Q, <<>>)
         /\ Outer(S) \in M /\ \A v \in Verts : Outer(S) \in SC!Reaches(E, v) => v \in M
<1>1. /\ Q \in Seq(Verts) /\ S \in Seq(Visits) /\ M \in SUBSET Verts
      /\ InComponent(E, M, S) /\ Placed(E, M, Q, S)
  BY DEF TwoShape
<1>2. Outer(S) \in M
  <2>1. Len(S) \in DOMAIN S
    BY <1>1
  <2> QED
    BY <1>1, <2>1 DEF InComponent, Outer
<1>3. \A v \in Verts : Outer(S) \in SC!Reaches(E, v) => v \in M
  BY <1>1, <1>2, VisitedBefore
<1>4. DOMAIN <<>> = {} /\ <<>> \in Seq(Visits)
  OBVIOUS
<1>5. InComponent(E, M, <<>>)
  BY <1>4 DEF InComponent
<1>6. \A k \in DOMAIN Q : Mutual(E, Q[k], Outer(S)) => Q[k] \in M
  BY <1>1, <1>3, QIn DEF Mutual
<1>7. Placed(E, M, Q, <<>>)
  BY <1>1, <1>6 DEF Placed
<1> QED
  BY <1>2, <1>3, <1>4, <1>5, <1>7 DEF TwoShape

EdgesOf(q) == {q[j] : j \in DOMAIN q}

LEMMA EdgesOfIs ==
  ASSUME NEW q \in Seq(Verts \X Verts)
  PROVE  EdgesOf(q) \in Links
<1>1. \A j \in DOMAIN q : q[j] \in Verts \X Verts
  OBVIOUS
<1> QED
  BY <1>1 DEF EdgesOf, Links

LEMMA CallIs ==
  ASSUME NEW q \in Seq(Verts \X Verts), NEW x \in Verts
  PROVE  SC!Call(q, x).x = x /\ Fresh(EdgesOf(q), SC!Call(q, x)) /\ SC!Call(q, x) \in Visits
<1>1. PICK t : t = SC!Chain(q, x)
  OBVIOUS
<1>2. t \in Seq(Verts) /\ \A y : y \in Waiting(t) <=> \E j \in DOMAIN q : q[j] = <<x, y>>
  BY <1>1, ChainHolds
<1>3. PICK c : c = SC!Call(q, x)
  OBVIOUS
<1>4. c = [x |-> x, todo |-> t]
  BY <1>1, <1>3 DEF SC!Call
<1>5. c \in Visits /\ c.x = x /\ c.todo = t
  BY <1>2, <1>4 DEF Visits
<1>6. Fresh(EdgesOf(q), c)
  <2>1. \A y \in Verts : y \in Waiting(t) <=> <<x, y>> \in EdgesOf(q)
    BY <1>2 DEF EdgesOf
  <2> QED
    BY <1>5, <2>1 DEF Fresh
<1> QED
  BY <1>3, <1>5, <1>6

LEMMA SeqOf ==
  ASSUME NEW m \in Nat, NEW D, NEW A \in [1..m -> D]
  PROVE  A \in Seq(D)
OBVIOUS

LEMMA AntiIs ==
  ASSUME NEW q \in Seq(Verts \X Verts), NEW A, A = [j \in DOMAIN q |-> <<q[j][2], q[j][1]>>]
  PROVE  A \in Seq(Verts \X Verts) /\ EdgesOf(A) = Back(EdgesOf(q))
<1>1. PICK m \in Nat : m = Len(q) /\ DOMAIN q = 1..m
  OBVIOUS
<1>2. \A j \in 1..m : q[j] \in Verts \X Verts
  BY <1>1
<1>3. DOMAIN A = 1..m /\ \A j \in 1..m : A[j] = <<q[j][2], q[j][1]>>
  BY <1>1
<1>4. A \in Seq(Verts \X Verts)
  <2>1. \A j \in 1..m : A[j] \in Verts \X Verts
    BY <1>2, <1>3
  <2>2. A = [j \in 1..m |-> A[j]]
    BY <1>1
  <2>3. PICK D : D = Verts \X Verts
    OBVIOUS
  <2>4. A \in [1..m -> D]
    BY <2>1, <2>2, <2>3
  <2>5. A \in Seq(D)
    BY ONLY <2>4, m \in Nat, SeqOf
  <2> QED
    BY <2>3, <2>5
<1>5. EdgesOf(A) = Back(EdgesOf(q))
  <2>1. ASSUME NEW e \in EdgesOf(A)
        PROVE  e \in Back(EdgesOf(q))
    <3>1. PICK j \in 1..m : e = <<q[j][2], q[j][1]>>
      BY <1>3 DEF EdgesOf
    <3>2. q[j] \in EdgesOf(q)
      BY <1>1 DEF EdgesOf
    <3> QED
      BY <3>1, <3>2 DEF Back
  <2>2. ASSUME NEW e \in Back(EdgesOf(q))
        PROVE  e \in EdgesOf(A)
    <3>1. PICK f \in EdgesOf(q) : e = <<f[2], f[1]>>
      BY DEF Back
    <3>2. PICK j \in 1..m : f = q[j]
      BY <1>1 DEF EdgesOf
    <3>3. e = A[j]
      BY <1>3, <3>1, <3>2
    <3> QED
      BY <1>3, <3>3 DEF EdgesOf
  <2> QED
    BY <2>1, <2>2
<1> QED
  BY <1>4, <1>5

-----------------------------------------------------------------------------
(* Components and their sizes. *)
Comp(E, x) == {y \in SC!Reaches(E, x) : x \in SC!Reaches(E, y)}

LEMMA CompIs ==
  ASSUME NEW E \in Links, NEW x \in Verts
  PROVE  /\ Comp(E, x) \in SUBSET Verts /\ \A y \in Verts : y \in Comp(E, x) <=> Mutual(E, x, y)
         /\ IsFiniteSet(Comp(E, x)) /\ Cardinality(Comp(E, x)) \in 0..VertexNum
         /\ \A M : IsFiniteSet(M \cap Comp(E, x)) /\ Cardinality(M \cap Comp(E, x)) \in Nat
<1>1. Comp(E, x) \in SUBSET Verts
  BY ReachesIs DEF Comp
<1>2. \A y \in Verts : y \in Comp(E, x) <=> Mutual(E, x, y)
  BY DEF Comp, Mutual
<1>3. IsFiniteSet(Comp(E, x)) /\ Cardinality(Comp(E, x)) <= VertexNum
  BY <1>1, VertsAre, FS_Subset
<1>4. Cardinality(Comp(E, x)) \in Nat
  BY <1>3, FS_CardinalityType
<1>5. Cardinality(Comp(E, x)) \in 0..VertexNum
  BY <1>3, <1>4, VertsAre
<1>6. ASSUME NEW M
      PROVE  IsFiniteSet(M \cap Comp(E, x)) /\ Cardinality(M \cap Comp(E, x)) \in Nat
  <2>1. M \cap Comp(E, x) \subseteq Comp(E, x)
    OBVIOUS
  <2>2. IsFiniteSet(M \cap Comp(E, x))
    BY <1>3, <2>1, FS_Subset
  <2> QED
    BY <2>2, FS_CardinalityType
<1> QED
  BY <1>1, <1>2, <1>3, <1>5, <1>6

LEMMA CompSame ==
  ASSUME NEW E \in Links, NEW x \in Verts, NEW y \in Verts, Mutual(E, x, y)
  PROVE  Comp(E, x) = Comp(E, y)
<1>1. \A z \in Verts : Mutual(E, x, z) <=> Mutual(E, y, z)
  BY MutualIs
<1> QED
  BY <1>1, CompIs

LEMMA SCMaxIs ==
  ASSUME NEW U
  PROVE  SC!Max(U) = Highest(U)
BY Zenon DEF SC!Max, Highest

LEMMA SCCardinality == \A S : SC!Cardinality(S) = Cardinality(S)
BY Zenon DEF SC!Cardinality, Cardinality

LEMMA LargestIs ==
  ASSUME NEW E \in Links
  PROVE  /\ SC!LargestComponent(E) \in Nat
         /\ \A x \in Verts : Cardinality(Comp(E, x)) <= SC!LargestComponent(E)
         /\ \E x \in Verts : SC!LargestComponent(E) = Cardinality(Comp(E, x))
<1>1. PICK U : U = {Cardinality(Comp(E, x)) : x \in Verts}
  OBVIOUS
<1>2. SC!LargestComponent(E) = SC!Max(U)
  <2>1. SC!Vertex = Verts
    BY DEF SC!Vertex, Verts
  <2>2. SC!LargestComponent(E) = SC!Max({SC!Cardinality(Comp(E, x)) : x \in SC!Vertex})
    BY Zenon DEF SC!LargestComponent, Comp
  <2>3. U = {SC!Cardinality(Comp(E, x)) : x \in SC!Vertex}
    BY <1>1, <2>1, SCCardinality
  <2> QED
    BY <2>2, <2>3
<1>3. SC!LargestComponent(E) = Highest(U)
  BY <1>2, SCMaxIs
<1>4. \A m \in U : m \in 0..VertexNum
  BY <1>1, CompIs
<1>5. U # {}
  <2>1. 1 \in Verts
    BY DigraphsOnVertices DEF Verts
  <2> QED
    BY <1>1, <2>1
<1>6. VertexNum \in Int /\ U \in SUBSET Int /\ \A m \in U : m <= VertexNum
  BY <1>4, VertsAre
<1>7. Highest(U) \in U /\ \A m \in U : Highest(U) >= m
  BY <1>5, <1>6, HighestIs
<1>8. PICK k : k = Highest(U)
  OBVIOUS
<1>9. k \in Nat /\ \A m \in U : m <= k
  <2>1. k \in U /\ \A m \in U : k >= m
    BY <1>7, <1>8
  <2>2. VertexNum \in Nat
    BY VertsAre
  <2>3. \A m \in U : m \in Nat
    BY <1>4, <2>2
  <2> QED
    BY ONLY <2>1, <2>3
<1>10. PICK x \in Verts : k = Cardinality(Comp(E, x))
  BY <1>1, <1>7, <1>8
<1>11. \A y \in Verts : Cardinality(Comp(E, y)) <= k
  BY <1>1, <1>9
<1> QED
  BY <1>3, <1>8, <1>9, <1>10, <1>11

(* The number of visited vertices of the component being searched.         *)
Tallied(E, M, S, k) == S # <<>> => k = Cardinality(M \cap Comp(E, Outer(S)))

(* No component that was searched is larger than r.                        *)
Sized(E, M, S, r) ==
  \A v \in M : Cardinality(Comp(E, v)) <= r \/ (S # <<>> /\ Mutual(E, v, Outer(S)))

LEMMA OneMoreVisited ==
  ASSUME NEW E \in Links, NEW x \in Verts, NEW M, NEW y, y \in Comp(E, x), y \notin M
  PROVE  Cardinality((M \cup {y}) \cap Comp(E, x)) = Cardinality(M \cap Comp(E, x)) + 1
<1>1. PICK C, D : C = M \cap Comp(E, x) /\ D = (M \cup {y}) \cap Comp(E, x)
  OBVIOUS
<1>2. IsFiniteSet(C) /\ D = C \cup {y} /\ y \notin C
  BY <1>1, CompIs
<1>3. Cardinality(C \cup {y}) = Cardinality(C) + 1
  BY <1>2, FS_AddElement
<1> QED
  BY <1>1, <1>2, <1>3

LEMMA CountStarts ==
  ASSUME NEW E \in Links, NEW M \in SUBSET Verts, Scanned(Back(E), M, M, <<>>), NEW x \in Verts, x \notin M
  PROVE  Cardinality((M \cup {x}) \cap Comp(E, x)) = 1
<1>1. M \cap Comp(E, x) = {}
  <2> SUFFICES ASSUME NEW v \in M, v \in Comp(E, x) PROVE FALSE
    OBVIOUS
  <2>1. v \in SC!Reaches(E, x)
    BY DEF Comp
  <2> QED
    BY <2>1, VisitedBefore
<1>2. x \in Comp(E, x)
  BY CompIs, MutualIs
<1>3. Cardinality({}) = 0
  BY FS_EmptySet
<1>4. Cardinality((M \cup {x}) \cap Comp(E, x)) = Cardinality(M \cap Comp(E, x)) + 1
  BY <1>2, OneMoreVisited
<1> QED
  BY <1>1, <1>3, <1>4

LEMMA SizedMore ==
  ASSUME NEW E, NEW M, NEW S, NEW r, Sized(E, M, S, r), NEW R, NEW y, S = <<>> \/ Outer(R) = Outer(S),
         R # <<>>, Mutual(E, y, Outer(R))
  PROVE  Sized(E, M \cup {y}, R, r)
BY DEF Sized

(* Once the outermost call returns its component is counted.               *)
LEMMA CountEnds ==
  ASSUME NEW E \in Links, NEW M \in SUBSET Verts, NEW S, S # <<>>, NEW k, Tallied(E, M, S, k), NEW r \in Nat,
         Sized(E, M, S, r), Outer(S) \in M, \A v \in Verts : Outer(S) \in SC!Reaches(E, v) => v \in M,
         NEW o \in Nat, r <= o, k <= o
  PROVE  /\ k = Cardinality(Comp(E, Outer(S))) /\ k \in Nat
         /\ Sized(E, M, <<>>, o)
<1>1. PICK x \in Verts : x = Outer(S)
  OBVIOUS
<1>2. Comp(E, x) \subseteq M
  BY <1>1, CompIs DEF Comp
<1>3. M \cap Comp(E, x) = Comp(E, x)
  BY <1>2
<1>4. k = Cardinality(Comp(E, x)) /\ k \in Nat
  <2>1. k = Cardinality(M \cap Comp(E, x))
    BY <1>1 DEF Tallied
  <2> QED
    BY <1>3, <2>1, CompIs
<1>5. ASSUME NEW v \in M
      PROVE  Cardinality(Comp(E, v)) <= o
  <2>1. Cardinality(Comp(E, v)) \in Nat
    BY CompIs
  <2>2. CASE Cardinality(Comp(E, v)) <= r
    BY <2>1, <2>2
  <2>3. CASE Mutual(E, v, Outer(S))
    <3>1. Comp(E, v) = Comp(E, x)
      BY <1>1, <2>3, CompSame
    <3> QED
      BY <1>4, <3>1
  <2> QED
    BY <2>2, <2>3 DEF Sized
<1> QED
  BY <1>1, <1>4, <1>5 DEF Sized

OneInv(E, M, Q, S, r) ==
  /\ OneShape(E, M, Q, S) /\ Scanned(E, M, M, S) /\ Follows(E, S)
  /\ \A v \in Verts : v < r => v \in M

TwoInv(E, M, Q, S, k, r) ==
  /\ TwoShape(E, M, Q, S) /\ Scanned(Back(E), M, M, S) /\ Follows(Back(E), S)
  /\ Tallied(E, M, S, k) /\ Sized(E, M, S, r)

(* m is the size of the largest component of the current graph. *)
SizesInv(m, r, U) == m \in U /\ (\A z \in U : z <= r \/ z = m) /\ (r \in U \/ r <= m)

ReadInv(t, r, U) == (t = 0 /\ r = 0 /\ U = {}) \/ (r \in U /\ \A z \in U : z <= r)

SCTypes ==
  /\ graph \in Seq(Verts \X Verts) /\ phase \in {"read", "one", "two"} /\ root \in Nat /\ root >= 1
  /\ vis \in SUBSET Verts /\ s \in Seq(Verts) /\ dfs \in Seq(Visits)
  /\ affection_num \in Nat /\ res \in Nat /\ seen \in SUBSET Nat

SCInv ==
  /\ SCTypes
  /\ phase = "read" => s = <<>> /\ dfs = <<>> /\ ReadInv(tests, res, seen)
  /\ phase = "one" => OneInv(EdgesOf(graph), vis, s, dfs, root)
  /\ phase = "two" => TwoInv(EdgesOf(graph), vis, s, dfs, affection_num, res)
  /\ phase # "read" => SizesInv(SC!LargestComponent(EdgesOf(graph)), res, seen)

LEMMA NothingScanned ==
  ASSUME NEW F
  PROVE  Follows(F, <<>>) /\ Scanned(F, {}, {}, <<>>)
<1>1. DOMAIN <<>> = {}
  OBVIOUS
<1> QED
  BY <1>1 DEF Follows, Scanned

LEMMA OneBegins ==
  ASSUME NEW E
  PROVE  OneInv(E, {}, <<>>, <<>>, 1)
<1>1. PICK Q : Q = <<>>
  OBVIOUS
<1>2. DOMAIN Q = {} /\ Q \in Seq(Verts) /\ Q \in Seq(Visits)
  BY <1>1
<1>3. Waiting(Q) = {} /\ Grey(Q) = {}
  BY <1>2 DEF Waiting, Grey
<1>4. OneShape(E, {}, Q, Q)
  BY <1>2, <1>3 DEF OneShape, Trail, Ranked, Joined
<1>5. \A v \in Verts : ~(v < 1)
  BY VertsAre DEF Verts
<1> QED
  BY <1>1, <1>4, <1>5, NothingScanned DEF OneInv

LEMMA OneRoots ==
  ASSUME NEW q \in Seq(Verts \X Verts), NEW E, E = EdgesOf(q), NEW M, NEW Q,
         NEW r \in Verts, OneInv(E, M, Q, <<>>, r)
  PROVE  IF r \in M THEN OneInv(E, M, Q, <<>>, r + 1)
         ELSE OneInv(E, M \cup {r}, Q, <<SC!Call(q, r)>> \o <<>>, r + 1)
<1>1. E \in Links
  BY EdgesOfIs
<1>2. /\ OneShape(E, M, Q, <<>>) /\ Scanned(E, M, M, <<>>) /\ Follows(E, <<>>)
      /\ \A v \in Verts : v < r => v \in M
  BY DEF OneInv
<1>3. \A v \in Verts : v < r + 1 => v \in M \cup {r}
  <2>1. \A v \in Verts : v < r + 1 => v < r \/ v = r
    BY VertsAre DEF Verts
  <2> QED
    BY <1>2, <2>1
<1>4. CASE r \in M
  <2>1. M \cup {r} = M
    BY <1>4
  <2> QED
    BY <1>2, <1>3, <1>4, <2>1 DEF OneInv
<1>5. CASE r \notin M
  <2>1. PICK c : c = SC!Call(q, r)
    OBVIOUS
  <2>2. c.x = r /\ Fresh(E, c) /\ c \in Visits
    BY <2>1, CallIs
  <2>3. PICK S : S = <<>>
    OBVIOUS
  <2>4. S \in Seq(Visits) /\ DOMAIN S = {}
    BY <2>3
  <2>5. \A v \in Waiting(Q) : r \in SC!Reaches(E, v) => \E j \in DOMAIN S : S[j].x \in SC!Reaches(E, v)
    BY <1>1, <1>2, <1>5, <2>3, WhiteBehindGrey
  <2>6. OneShape(E, M \cup {r}, Q, <<c>> \o S)
    <3>1. OneShape(E, M, Q, S) /\ c.x \notin M
      BY <1>2, <1>5, <2>2, <2>3
    <3>2. \A j \in DOMAIN S : c.x \in SC!Reaches(E, S[j].x)
      BY <2>4
    <3>3. \A v \in Waiting(Q) : c.x \in SC!Reaches(E, v) => \E j \in DOMAIN S : S[j].x \in SC!Reaches(E, v)
      BY <2>2, <2>5
    <3>4. OneShape(E, M \cup {c.x}, Q, <<c>> \o S)
      BY <1>1, <2>2, <3>1, <3>2, <3>3, OneCalls
    <3> QED
      BY <2>2, <3>4
  <2>7. Scanned(E, M, M \cup {r}, S)
    BY <1>2, <2>3 DEF Scanned
  <2>8. Follows(E, <<c>> \o S) /\ Scanned(E, M \cup {c.x}, M \cup {r}, <<c>> \o S)
    BY <1>2, <2>2, <2>3, <2>4, <2>7, CallScans
  <2>9. OneInv(E, M \cup {r}, Q, <<c>> \o S, r + 1)
    BY <1>3, <2>2, <2>6, <2>8 DEF OneInv
  <2> QED
    BY <1>5, <2>1, <2>3, <2>9
<1> QED
  BY <1>4, <1>5

LEMMA OneVisits ==
  ASSUME NEW q \in Seq(Verts \X Verts), NEW E, E = EdgesOf(q), NEW M, NEW Q, NEW S, NEW r,
         OneInv(E, M, Q, S, r), S # <<>>, Head(S).todo # <<>>, NEW y, y = Head(Head(S).todo)
  PROVE  /\ y \in Verts
         /\ IF y \in M THEN OneInv(E, M, Q, Advance(S), r)
            ELSE OneInv(E, M \cup {y}, Q, <<SC!Call(q, y)>> \o Advance(S), r)
<1>1. E \in Links
  BY EdgesOfIs
<1>2. /\ OneShape(E, M, Q, S) /\ Scanned(E, M, M, S) /\ Follows(E, S) /\ S \in Seq(Visits)
      /\ \A v \in Verts : v < r => v \in M
  BY DEF OneInv, OneShape
<1>3. PICK R : R = Advance(S)
  OBVIOUS
<1>4. R \in Seq(Visits) /\ DOMAIN R = DOMAIN S /\ 1 \in DOMAIN S /\ \A j \in DOMAIN S : R[j].x = S[j].x
  BY <1>2, <1>3, AdvanceIs
<1>5. OneShape(E, M, Q, R)
  BY <1>2, <1>4, OneAdvances
<1>6. y \in Verts /\ <<S[1].x, y>> \in E
  BY <1>2, NextIs
<1>7. CASE y \in M
  <2>1. Follows(E, R) /\ Scanned(E, M, M, R)
    BY <1>2, <1>3, <1>7, AdvanceScans
  <2> QED
    BY <1>2, <1>3, <1>5, <1>6, <1>7, <2>1 DEF OneInv
<1>8. CASE y \notin M
  <2>1. PICK c : c = SC!Call(q, y)
    OBVIOUS
  <2>2. c.x = y /\ Fresh(E, c) /\ c \in Visits
    BY <1>6, <2>1, CallIs
  <2>3. \A j \in DOMAIN S : S[j].x \in Verts
    BY <1>2, SIn
  <2>4. \A j \in DOMAIN S : y \in SC!Reaches(E, S[j].x)
    <3>1. y \in SC!Reaches(E, S[1].x)
      BY <1>1, <1>4, <1>6, <2>3, ReachEdge
    <3>2. \A j \in DOMAIN S : j = 1 \/ 1 < j
      BY <1>2, SIn
    <3>3. ASSUME NEW j \in DOMAIN S, 1 < j
          PROVE  y \in SC!Reaches(E, S[j].x)
      <4>1. S[1].x \in SC!Reaches(E, S[j].x)
        BY <1>2, <1>4, <3>3 DEF OneShape, Trail
      <4> QED
        BY <1>1, <2>3, <3>1, <4>1, ReachTrans
    <3> QED
      BY <3>1, <3>2, <3>3
  <2>5. \A v \in Waiting(Q) : y \in SC!Reaches(E, v) => \E j \in DOMAIN S : S[j].x \in SC!Reaches(E, v)
    BY <1>1, <1>2, <1>8, WhiteBehindGrey
  <2>6. OneShape(E, M \cup {y}, Q, <<c>> \o R)
    <3>1. \A j \in DOMAIN R : c.x \in SC!Reaches(E, R[j].x)
      BY <1>4, <2>2, <2>4
    <3>2. \A v \in Waiting(Q) : c.x \in SC!Reaches(E, v) => \E j \in DOMAIN R : R[j].x \in SC!Reaches(E, v)
      BY <1>4, <2>2, <2>5
    <3>3. c.x \notin M
      BY <1>8, <2>2
    <3>4. OneShape(E, M \cup {c.x}, Q, <<c>> \o R)
      BY <1>1, <1>5, <2>2, <3>1, <3>2, <3>3, OneCalls
    <3> QED
      BY <2>2, <3>4
  <2>7. Scanned(E, M, M \cup {y}, S)
    BY <1>2 DEF Scanned
  <2>8. Follows(E, R) /\ Scanned(E, M, M \cup {y}, R)
    BY <1>2, <1>3, <2>7, AdvanceScans
  <2>9. Follows(E, <<c>> \o R) /\ Scanned(E, M \cup {c.x}, M \cup {y}, <<c>> \o R)
    BY <1>4, <2>2, <2>8, CallScans
  <2>10. OneInv(E, M \cup {y}, Q, <<c>> \o R, r)
    BY <1>2, <2>2, <2>6, <2>9 DEF OneInv
  <2> QED
    BY <1>3, <1>6, <1>8, <2>1, <2>10
<1> QED
  BY <1>7, <1>8

LEMMA OneReturns ==
  ASSUME NEW E \in Links, NEW M, NEW Q, NEW S, NEW r,
         OneInv(E, M, Q, S, r), S # <<>>, Head(S).todo = <<>>
  PROVE  OneInv(E, M, <<Head(S).x>> \o Q, Tail(S), r)
<1>1. /\ OneShape(E, M, Q, S) /\ Scanned(E, M, M, S) /\ Follows(E, S) /\ S \in Seq(Visits)
      /\ \A v \in Verts : v < r => v \in M
  BY DEF OneInv, OneShape
<1>2. OneShape(E, M, <<Head(S).x>> \o Q, Tail(S))
  BY <1>1, OneLeaves
<1>3. Follows(E, Tail(S)) /\ Scanned(E, M, M, Tail(S))
  BY <1>1, ReturnScans
<1> QED
  BY <1>1, <1>2, <1>3 DEF OneInv

LEMMA OneTurns ==
  ASSUME NEW E \in Links, NEW M \in SUBSET Verts, NEW Q, NEW r \in Nat, r > VertexNum,
         OneInv(E, M, Q, <<>>, r), NEW k, NEW z
  PROVE  TwoInv(E, {}, Q, <<>>, k, z)
<1>1. OneShape(E, M, Q, <<>>) /\ \A v \in Verts : v < r => v \in M
  BY DEF OneInv
<1>2. M = Verts
  <2>1. \A v \in Verts : v < r
    BY VertsAre DEF Verts
  <2> QED
    BY <1>1, <2>1
<1>3. TwoShape(E, {}, Q, <<>>)
  BY <1>1, <1>2, TwoBegins
<1> QED
  BY <1>3, NothingScanned DEF TwoInv, Tallied, Sized

LEMMA OneCall ==
  ASSUME NEW c \in Visits, NEW S, S = <<>>
  PROVE  <<c>> \o S = <<c>> /\ <<c>> \in Seq(Visits) /\ Len(<<c>>) = 1 /\ <<c>>[1] = c /\ <<c>> # <<>>
<1>1. <<c>> \in Seq(Visits) /\ Len(<<c>>) = 1 /\ <<c>>[1] = c /\ <<c>> # <<>>
  OBVIOUS
<1>2. <<c>> \o S = <<c>>
  OBVIOUS
<1> QED
  BY <1>1, <1>2

LEMMA TwoRoots ==
  ASSUME NEW q \in Seq(Verts \X Verts), NEW E \in Links, EdgesOf(q) = Back(E), NEW M, NEW Q, NEW k, NEW r,
         TwoInv(E, M, Q, <<>>, k, r), Q # <<>>, NEW x, x = Head(Q)
  PROVE  IF x \in M THEN TwoInv(E, M, Tail(Q), <<>>, k, r)
         ELSE x \in Verts /\ TwoInv(E, M \cup {x}, Tail(Q), <<SC!Call(q, x)>>, 1, r)
<1>1. /\ TwoShape(E, M, Q, <<>>) /\ Scanned(Back(E), M, M, <<>>) /\ Follows(Back(E), <<>>)
      /\ Sized(E, M, <<>>, r) /\ M \in SUBSET Verts /\ Q \in Seq(Verts)
  BY DEF TwoInv, TwoShape
<1>2. x \in Verts
  <2>1. PICK D : D = Verts
    OBVIOUS
  <2>2. Q \in Seq(D) /\ Q # <<>>
    BY <1>1, <2>1
  <2>3. Head(Q) \in D
    BY ONLY <2>2, WaitingPopped
  <2> QED
    BY <2>1, <2>3
<1>3. CASE x \in M
  <2>1. TwoShape(E, M, Tail(Q), <<>>)
    BY <1>1, <1>3, TwoSkips
  <2> QED
    BY <1>1, <1>3, <2>1 DEF TwoInv, Tallied
<1>4. CASE x \notin M
  <2>1. PICK c, R : c = SC!Call(q, x) /\ R = <<SC!Call(q, x)>>
    OBVIOUS
  <2>2. c.x = x /\ Fresh(Back(E), c) /\ c \in Visits
    BY <1>2, <2>1, CallIs
  <2>3. PICK S : S = <<>>
    OBVIOUS
  <2>4. R = <<c>> \o S /\ R \in Seq(Visits) /\ Len(R) = 1 /\ R[1] = c /\ R # <<>> /\ S \in Seq(Visits)
    BY <2>1, <2>2, <2>3, OneCall
  <2>5. TwoShape(E, M \cup {x}, Tail(Q), R)
    BY <1>1, <1>4, <2>2, <2>4, TwoStarts
  <2>6. Outer(R) = x
    BY <2>2, <2>4 DEF Outer
  <2>7. Follows(Back(E), R) /\ Scanned(Back(E), M \cup {x}, M \cup {x}, R)
    <3>1. Scanned(Back(E), M, M \cup {x}, S) /\ Follows(Back(E), S)
      BY <1>1, <2>3 DEF Scanned
    <3>2. Follows(Back(E), <<c>> \o S) /\ Scanned(Back(E), M \cup {c.x}, M \cup {x}, <<c>> \o S)
      BY <2>2, <2>4, <3>1, CallScans
    <3> QED
      BY <2>2, <2>4, <3>2
  <2>8. Tallied(E, M \cup {x}, R, 1)
    BY <1>1, <1>2, <1>4, <2>6, CountStarts DEF Tallied
  <2>9. Sized(E, M \cup {x}, R, r)
    <3>1. Mutual(E, x, Outer(R))
      BY <1>2, <2>6, MutualIs
    <3>2. Sized(E, M, S, r) /\ S = <<>>
      BY <1>1, <2>3
    <3> QED
      BY <2>4, <3>1, <3>2, SizedMore
  <2> QED
    BY <1>2, <1>4, <2>1, <2>5, <2>7, <2>8, <2>9 DEF TwoInv
<1> QED
  BY <1>3, <1>4

LEMMA TwoVisits ==
  ASSUME NEW q \in Seq(Verts \X Verts), NEW E \in Links, EdgesOf(q) = Back(E), NEW M, NEW Q, NEW S,
         NEW k, NEW r, TwoInv(E, M, Q, S, k, r), S # <<>>, Head(S).todo # <<>>,
         NEW y, y = Head(Head(S).todo)
  PROVE  /\ y \in Verts
         /\ IF y \in M THEN TwoInv(E, M, Q, Advance(S), k, r)
            ELSE TwoInv(E, M \cup {y}, Q, <<SC!Call(q, y)>> \o Advance(S), k + 1, r)
<1>1. /\ TwoShape(E, M, Q, S) /\ Scanned(Back(E), M, M, S) /\ Follows(Back(E), S)
      /\ Tallied(E, M, S, k) /\ Sized(E, M, S, r) /\ S \in Seq(Visits) /\ M \in SUBSET Verts
  BY DEF TwoInv, TwoShape
<1>2. PICK R : R = Advance(S)
  OBVIOUS
<1>3. /\ R \in Seq(Visits) /\ R # <<>> /\ Len(R) = Len(S) /\ DOMAIN R = DOMAIN S /\ 1 \in DOMAIN S
      /\ \A j \in DOMAIN S : R[j].x = S[j].x
  BY <1>1, <1>2, AdvanceIs
<1>4. TwoShape(E, M, Q, R) /\ Outer(R) = Outer(S)
  BY <1>1, <1>3, TwoAdvances
<1>5. y \in Verts /\ <<S[1].x, y>> \in Back(E)
  BY <1>1, NextIs
<1>6. CASE y \in M
  <2>1. Follows(Back(E), R) /\ Scanned(Back(E), M, M, R)
    BY <1>1, <1>2, <1>6, AdvanceScans
  <2>2. Tallied(E, M, R, k) /\ Sized(E, M, R, r)
    BY <1>1, <1>3, <1>4 DEF Tallied, Sized
  <2> QED
    BY <1>2, <1>4, <1>5, <1>6, <2>1, <2>2 DEF TwoInv
<1>7. CASE y \notin M
  <2>1. PICK c : c = SC!Call(q, y)
    OBVIOUS
  <2>2. c.x = y /\ Fresh(Back(E), c) /\ c \in Visits
    BY <1>5, <2>1, CallIs
  <2>3. R[1].x = S[1].x /\ S[1].x \in Verts
    BY <1>1, <1>3, SIn
  <2>4. R[1].x \in SC!Reaches(E, c.x)
    <3>1. <<y, S[1].x>> \in E
      BY <1>5, <2>3, BackIs
    <3> QED
      BY <1>5, <2>2, <2>3, <3>1, ReachEdge
  <2>5. /\ TwoShape(E, M \cup {c.x}, Q, <<c>> \o R)
        /\ Outer(<<c>> \o R) = Outer(R) /\ Outer(R) \in Verts /\ Mutual(E, Outer(R), c.x)
    <3>1. c.x \notin M
      BY <1>7, <2>2
    <3> QED
      BY <1>3, <1>4, <2>2, <2>4, <3>1, TwoCalls
  <2>6. Scanned(Back(E), M, M \cup {y}, S)
    BY <1>1 DEF Scanned
  <2>7. Follows(Back(E), R) /\ Scanned(Back(E), M, M \cup {y}, R)
    BY <1>1, <1>2, <2>6, AdvanceScans
  <2>8. Follows(Back(E), <<c>> \o R) /\ Scanned(Back(E), M \cup {c.x}, M \cup {y}, <<c>> \o R)
    BY <1>3, <2>2, <2>7, CallScans
  <2>9. PICK P : P = <<c>> \o R
    OBVIOUS
  <2>10. P # <<>>
    BY <1>3, <2>2, <2>9, CallIsPushed
  <2>11. PICK x \in Verts : x = Outer(S) /\ x = Outer(R) /\ x = Outer(P) /\ Mutual(E, x, y)
    BY <1>4, <2>2, <2>5, <2>9
  <2>12. Tallied(E, M \cup {y}, P, k + 1)
    <3>1. y \in Comp(E, x)
      BY <1>5, <2>11, CompIs
    <3>2. k = Cardinality(M \cap Comp(E, x))
      BY <1>1, <2>11 DEF Tallied
    <3>3. Cardinality((M \cup {y}) \cap Comp(E, x)) = Cardinality(M \cap Comp(E, x)) + 1
      BY <1>7, <3>1, OneMoreVisited
    <3> QED
      BY <2>11, <3>2, <3>3 DEF Tallied
  <2>13. Sized(E, M \cup {y}, P, r)
    <3>1. Mutual(E, y, Outer(P))
      BY <1>5, <2>11, MutualIs
    <3>2. Outer(P) = Outer(S)
      BY <2>11
    <3> QED
      BY <1>1, <2>10, <3>1, <3>2, SizedMore
  <2>14. TwoInv(E, M \cup {y}, Q, P, k + 1, r)
    BY <2>2, <2>5, <2>8, <2>9, <2>12, <2>13 DEF TwoInv
  <2> QED
    BY <1>2, <1>5, <1>7, <2>1, <2>9, <2>14
<1> QED
  BY <1>6, <1>7

LEMMA TwoReturns ==
  ASSUME NEW E \in Links, NEW M, NEW Q, NEW S, NEW k, NEW r,
         TwoInv(E, M, Q, S, k, r), S # <<>>, Len(S) # 1, Head(S).todo = <<>>
  PROVE  TwoInv(E, M, Q, Tail(S), k, r)
<1>1. /\ TwoShape(E, M, Q, S) /\ Scanned(Back(E), M, M, S) /\ Follows(Back(E), S)
      /\ Tallied(E, M, S, k) /\ Sized(E, M, S, r) /\ S \in Seq(Visits)
  BY DEF TwoInv, TwoShape
<1>2. PICK R : R = Tail(S)
  OBVIOUS
<1>3. TwoShape(E, M, Q, R) /\ R # <<>> /\ Outer(R) = Outer(S)
  BY <1>1, <1>2, TwoLeaves
<1>4. Follows(Back(E), R) /\ Scanned(Back(E), M, M, R)
  BY <1>1, <1>2, ReturnScans
<1>5. Tallied(E, M, R, k) /\ Sized(E, M, R, r)
  BY <1>1, <1>3 DEF Tallied, Sized
<1> QED
  BY <1>2, <1>3, <1>4, <1>5 DEF TwoInv

(* The outermost call returns. *)
LEMMA TwoDone ==
  ASSUME NEW E \in Links, NEW M, NEW Q, NEW S, NEW k, NEW r \in Nat,
         TwoInv(E, M, Q, S, k, r), S # <<>>, Len(S) = 1, Head(S).todo = <<>>,
         NEW o \in Nat, r <= o, k <= o
  PROVE  k \in Nat /\ k <= SC!LargestComponent(E) /\ TwoInv(E, M, Q, Tail(S), k, o)
<1>1. /\ TwoShape(E, M, Q, S) /\ Scanned(Back(E), M, M, S) /\ Follows(Back(E), S)
      /\ Tallied(E, M, S, k) /\ Sized(E, M, S, r) /\ S \in Seq(Visits) /\ M \in SUBSET Verts
  BY DEF TwoInv, TwoShape
<1>2. Follows(Back(E), Tail(S)) /\ Scanned(Back(E), M, M, Tail(S))
  BY <1>1, ReturnScans
<1>3. Tail(S) = <<>>
  <2>1. PICK R : R = Tail(S)
    OBVIOUS
  <2>2. R \in Seq(Visits) /\ Len(R) = Len(S) - 1 /\ Len(S) \in Nat
    BY <1>1, <2>1, ReturnIsPopped
  <2>3. Len(R) = 0
    BY <2>2
  <2>4. R = <<>>
    BY <2>2, <2>3
  <2> QED
    BY <2>1, <2>4
<1>4. Scanned(Back(E), M, M, <<>>) /\ Follows(Back(E), <<>>)
  BY <1>2, <1>3
<1>5. /\ TwoShape(E, M, Q, <<>>)
      /\ Outer(S) \in M /\ \A v \in Verts : Outer(S) \in SC!Reaches(E, v) => v \in M
  BY <1>1, <1>4, TwoEnds
<1>6. /\ k = Cardinality(Comp(E, Outer(S))) /\ k \in Nat
      /\ Sized(E, M, <<>>, o)
  BY <1>1, <1>5, CountEnds
<1>7. k <= SC!LargestComponent(E)
  <2>1. Outer(S) \in Verts
    BY <1>1, <1>5
  <2> QED
    BY <1>6, <2>1, LargestIs
<1>8. TwoInv(E, M, Q, <<>>, k, o)
  BY <1>4, <1>5, <1>6 DEF TwoInv, Tallied
<1> QED
  BY <1>3, <1>6, <1>7, <1>8

(* When the stack is empty every component is counted.                     *)
LEMMA TwoPrints ==
  ASSUME NEW E \in Links, NEW M, NEW k, NEW r \in Nat, TwoInv(E, M, <<>>, <<>>, k, r),
         NEW U \in SUBSET Nat, SizesInv(SC!LargestComponent(E), r, U)
  PROVE  r \in U /\ \A z \in U : z <= r
<1>1. TwoShape(E, M, <<>>, <<>>) /\ Sized(E, M, <<>>, r)
  BY DEF TwoInv
<1>2. PICK Q : Q = <<>>
  OBVIOUS
<1>3. Verts \subseteq M \cup Waiting(Q)
  BY <1>1, <1>2 DEF TwoShape
<1>4. Verts \subseteq M
  BY <1>2, <1>3 DEF Waiting
<1>5. PICK m \in Nat : m = SC!LargestComponent(E)
  BY LargestIs
<1>6. m <= r
  <2>1. PICK x \in Verts : m = Cardinality(Comp(E, x))
    BY <1>5, LargestIs
  <2> QED
    BY <1>1, <1>4, <2>1 DEF Sized
<1>7. m \in U /\ (\A z \in U : z <= r \/ z = m) /\ (r \in U \/ r <= m)
  BY <1>5 DEF SizesInv
<1>8. \A z \in U : z <= r
  BY <1>6, <1>7
<1>9. r \in U
  <2>1. CASE r <= m
    <3>1. r = m
      BY <1>6, <2>1
    <3> QED
      BY <1>7, <3>1
  <2> QED
    BY <1>7, <2>1
<1> QED
  BY <1>8, <1>9

LEMMA SCInit == SC!Init => SCInv
<1> SUFFICES ASSUME SC!Init PROVE SCInv
  OBVIOUS
<1>1. /\ tests = 0 /\ graph = <<>> /\ phase = "read" /\ root = 1 /\ vis = {} /\ s = <<>> /\ dfs = <<>>
      /\ affection_num = 0 /\ res = 0 /\ seen = {}
  BY DEF SC!Init
<1>2. <<>> \in Seq(Verts \X Verts) /\ <<>> \in Seq(Verts) /\ <<>> \in Seq(Visits)
  OBVIOUS
<1>3. SCTypes
  BY <1>1, <1>2 DEF SCTypes
<1> QED
  BY <1>1, <1>3 DEF SCInv, ReadInv

LEMMA SCReadGraph ==
  ASSUME SCInv, NEW g \in Digraphs, SC!ReadGraph(g)
  PROVE  SCInv'
<1>1. /\ phase = "read" /\ tests' = tests + 1 /\ graph' = g /\ phase' = "one" /\ root' = 1 /\ vis' = {}
      /\ s' = s /\ dfs' = dfs /\ affection_num' = affection_num /\ res' = res
      /\ seen' = seen \cup {SC!LargestComponent({g[j] : j \in DOMAIN g})}
  BY DEF SC!ReadGraph
<1>2. SCTypes /\ s = <<>> /\ dfs = <<>> /\ ReadInv(tests, res, seen)
  BY <1>1 DEF SCInv
<1>3. g \in Seq(Verts \X Verts)
  BY DigraphsOnVertices DEF Verts
<1>4. PICK E \in Links : E = EdgesOf(g)
  BY <1>3, EdgesOfIs
<1>5. PICK m \in Nat : m = SC!LargestComponent(E)
  BY LargestIs
<1>6. seen' = seen \cup {m}
  BY <1>1, <1>4, <1>5 DEF EdgesOf
<1>7. SizesInv(m, res, seen \cup {m})
  BY <1>2, <1>5 DEF SizesInv, ReadInv, SCTypes
<1>8. EdgesOf(graph') = E
  BY <1>1, <1>4
<1>9. SizesInv(SC!LargestComponent(EdgesOf(graph')), res', seen')
  BY <1>1, <1>5, <1>6, <1>7, <1>8
<1>10. OneInv(EdgesOf(graph'), vis', s', dfs', root')
  BY <1>1, <1>2, OneBegins
<1>11. SCTypes'
  <2>1. graph' \in Seq(Verts \X Verts)
    BY <1>1, <1>3
  <2>2. phase' \in {"read", "one", "two"} /\ root' \in Nat /\ root' >= 1 /\ vis' \in SUBSET Verts
    BY <1>1
  <2>3. s' \in Seq(Verts) /\ dfs' \in Seq(Visits) /\ affection_num' \in Nat /\ res' \in Nat
    BY <1>1, <1>2 DEF SCTypes
  <2>4. seen' \in SUBSET Nat
    BY <1>2, <1>5, <1>6 DEF SCTypes
  <2> QED
    BY <2>1, <2>2, <2>3, <2>4 DEF SCTypes
<1> QED
  BY <1>1, <1>9, <1>10, <1>11 DEF SCInv

(* What an action of the first search has to keep. *)
LEMMA OneKept ==
  ASSUME SCInv, phase = "one", phase' = "one", UNCHANGED <<graph, affection_num, res, seen>>,
         root' \in Nat, root' >= 1, NEW E, E = EdgesOf(graph), E \in Links, OneInv(E, vis', s', dfs', root')
  PROVE  SCInv'
<1>1. SCTypes /\ SizesInv(SC!LargestComponent(E), res, seen)
  BY DEF SCInv
<1>2. EdgesOf(graph') = E
  OBVIOUS
<1>3. s' \in Seq(Verts) /\ dfs' \in Seq(Visits) /\ vis' \in SUBSET Verts
  <2>1. PICK Q, S, M : Q = s' /\ S = dfs' /\ M = vis'
    OBVIOUS
  <2>2. Q \in Seq(Verts) /\ S \in Seq(Visits) /\ M = Waiting(Q) \cup Grey(S)
    BY <2>1 DEF OneInv, OneShape
  <2>3. Waiting(Q) \in SUBSET Verts
    BY <2>2, QIn
  <2>4. Grey(S) \in SUBSET Verts
    BY <2>2, SIn DEF Grey
  <2> QED
    BY <2>1, <2>2, <2>3, <2>4
<1>4. SCTypes'
  BY <1>1, <1>3 DEF SCTypes
<1>5. SizesInv(SC!LargestComponent(EdgesOf(graph')), res', seen')
  BY <1>1, <1>2
<1>6. OneInv(EdgesOf(graph'), vis', s', dfs', root')
  BY <1>2
<1> QED
  BY <1>4, <1>5, <1>6 DEF SCInv

LEMMA InOne ==
  ASSUME SCInv, phase = "one"
  PROVE  /\ SCTypes /\ graph \in Seq(Verts \X Verts) /\ EdgesOf(graph) \in Links
         /\ OneInv(EdgesOf(graph), vis, s, dfs, root)
<1>1. graph \in Seq(Verts \X Verts)
  BY DEF SCInv, SCTypes
<1> QED
  BY <1>1, EdgesOfIs DEF SCInv

LEMMA SCRootOne ==
  ASSUME SCInv, SC!RootOne
  PROVE  SCInv'
<1>1. /\ phase = "one" /\ phase' = "one" /\ dfs = <<>> /\ root <= VertexNum /\ root' = root + 1
      /\ IF root \in vis THEN vis' = vis /\ dfs' = dfs
         ELSE vis' = vis \cup {root} /\ dfs' = <<SC!Call(graph, root)>>
      /\ UNCHANGED <<graph, affection_num, res, seen>> /\ s' = s
  BY DEF SC!RootOne
<1>2. PICK E, q : E = EdgesOf(graph) /\ q = graph
  OBVIOUS
<1>3. SCTypes /\ q \in Seq(Verts \X Verts) /\ E \in Links /\ OneInv(E, vis, s, <<>>, root) /\ E = EdgesOf(q)
  BY <1>1, <1>2, InOne
<1>4. root \in Nat
  BY <1>3 DEF SCTypes
<1>5. root \in Verts
  <2>1. root # 0
    <3>1. root >= 1
      BY <1>1 DEF SCInv, SCTypes
    <3> QED
      BY <3>1
  <2> QED
    BY <1>1, <1>4, <2>1, VertsAre DEF Verts
<1>6. IF root \in vis THEN OneInv(E, vis, s, <<>>, root + 1)
      ELSE OneInv(E, vis \cup {root}, s, <<SC!Call(q, root)>> \o <<>>, root + 1)
  BY <1>3, <1>5, OneRoots
<1>7. SC!Call(q, root) \in Visits
  BY <1>3, <1>5, CallIs
<1>8. <<SC!Call(q, root)>> \o <<>> = <<SC!Call(q, root)>>
  <2>1. PICK c, S : c = SC!Call(q, root) /\ S = <<>>
    OBVIOUS
  <2> QED
    BY <1>7, <2>1, OneCall
<1>9. OneInv(E, vis', s', dfs', root')
  <2>1. CASE root \in vis
    BY <1>1, <1>6, <2>1
  <2>2. CASE root \notin vis
    BY <1>1, <1>2, <1>6, <1>8, <2>2
  <2> QED
    BY <2>1, <2>2
<1>10. root' \in Nat /\ root' >= 1
  BY <1>1, <1>4
<1> QED
  BY <1>1, <1>2, <1>3, <1>9, <1>10, OneKept

LEMMA SCVisitOne ==
  ASSUME SCInv, SC!VisitOne
  PROVE  SCInv'
<1>1. PICK y : y = Head(Head(dfs).todo)
  OBVIOUS
<1>2. /\ phase = "one" /\ phase' = "one" /\ dfs # <<>> /\ Head(dfs).todo # <<>> /\ root' = root /\ s' = s
      /\ IF y \in vis THEN dfs' = Advance(dfs) /\ vis' = vis
         ELSE vis' = vis \cup {y} /\ dfs' = <<SC!Call(graph, y)>> \o Advance(dfs)
      /\ UNCHANGED <<graph, affection_num, res, seen>>
  BY <1>1 DEF SC!VisitOne, Advance
<1>3. PICK E, q : E = EdgesOf(graph) /\ q = graph
  OBVIOUS
<1>4. SCTypes /\ q \in Seq(Verts \X Verts) /\ E \in Links /\ OneInv(E, vis, s, dfs, root) /\ E = EdgesOf(q)
  BY <1>2, <1>3, InOne
<1>5. /\ y \in Verts
      /\ IF y \in vis THEN OneInv(E, vis, s, Advance(dfs), root)
         ELSE OneInv(E, vis \cup {y}, s, <<SC!Call(q, y)>> \o Advance(dfs), root)
  BY <1>1, <1>2, <1>4, OneVisits
<1>6. OneInv(E, vis', s', dfs', root')
  <2>1. CASE y \in vis
    BY <1>2, <1>5, <2>1
  <2>2. CASE y \notin vis
    BY <1>2, <1>3, <1>5, <2>2
  <2> QED
    BY <2>1, <2>2
<1>7. root' \in Nat /\ root' >= 1
  BY <1>2, <1>4 DEF SCTypes
<1> QED
  BY <1>2, <1>3, <1>4, <1>6, <1>7, OneKept

LEMMA SCLeaveOne ==
  ASSUME SCInv, SC!LeaveOne
  PROVE  SCInv'
<1>1. /\ phase = "one" /\ phase' = "one" /\ dfs # <<>> /\ Head(dfs).todo = <<>> /\ root' = root
      /\ s' = <<Head(dfs).x>> \o s /\ dfs' = Tail(dfs) /\ vis' = vis
      /\ UNCHANGED <<graph, affection_num, res, seen>>
  BY DEF SC!LeaveOne
<1>2. PICK E : E = EdgesOf(graph)
  OBVIOUS
<1>3. SCTypes /\ E \in Links /\ OneInv(E, vis, s, dfs, root)
  BY <1>1, <1>2, InOne
<1>4. OneInv(E, vis, <<Head(dfs).x>> \o s, Tail(dfs), root)
  BY <1>1, <1>3, OneReturns
<1>5. OneInv(E, vis', s', dfs', root')
  BY <1>1, <1>4
<1>6. root' \in Nat /\ root' >= 1
  BY <1>1, <1>3 DEF SCTypes
<1> QED
  BY <1>1, <1>2, <1>3, <1>5, <1>6, OneKept

-----------------------------------------------------------------------------
LEMMA TwoKept ==
  ASSUME SCTypes, phase' = "two", UNCHANGED <<graph, root, seen>>,
         affection_num' \in Nat, res' \in Nat,
         NEW E, E = EdgesOf(graph), TwoInv(E, vis', s', dfs', affection_num', res'),
         SizesInv(SC!LargestComponent(E), res', seen)
  PROVE  SCInv'
<1>1. EdgesOf(graph') = E
  OBVIOUS
<1>2. s' \in Seq(Verts) /\ dfs' \in Seq(Visits) /\ vis' \in SUBSET Verts
  BY DEF TwoInv, TwoShape
<1>3. SCTypes'
  BY <1>2 DEF SCTypes
<1>4. SizesInv(SC!LargestComponent(EdgesOf(graph')), res', seen')
  BY <1>1
<1>5. TwoInv(EdgesOf(graph'), vis', s', dfs', affection_num', res')
  BY <1>1
<1> QED
  BY <1>3, <1>4, <1>5 DEF SCInv

LEMMA SCTurn ==
  ASSUME SCInv, SC!Turn
  PROVE  SCInv'
<1>1. /\ phase = "one" /\ phase' = "two" /\ dfs = <<>> /\ root > VertexNum /\ vis' = {} /\ s' = s /\ dfs' = dfs
      /\ affection_num' = affection_num /\ res' = res /\ UNCHANGED <<graph, root, seen>>
  BY DEF SC!Turn
<1>2. PICK E : E = EdgesOf(graph)
  OBVIOUS
<1>3. SCTypes /\ E \in Links /\ OneInv(E, vis, s, <<>>, root)
  BY <1>1, <1>2, InOne
<1>4. affection_num' \in Nat /\ res' \in Nat /\ root \in Nat /\ vis \in SUBSET Verts
  BY <1>1, <1>3 DEF SCTypes
<1>5. TwoInv(E, {}, s, <<>>, affection_num, res)
  BY <1>1, <1>3, <1>4, OneTurns
<1>6. TwoInv(E, vis', s', dfs', affection_num', res')
  BY <1>1, <1>5
<1>7. SizesInv(SC!LargestComponent(E), res', seen)
  BY <1>1, <1>2 DEF SCInv
<1> QED
  BY <1>1, <1>2, <1>3, <1>4, <1>6, <1>7, TwoKept

LEMMA InTwo ==
  ASSUME SCInv, phase = "two", NEW E, E = EdgesOf(graph), NEW A, A = SC!Anti
  PROVE  /\ SCTypes /\ E \in Links /\ A \in Seq(Verts \X Verts) /\ EdgesOf(A) = Back(E)
         /\ TwoInv(E, vis, s, dfs, affection_num, res)
         /\ SizesInv(SC!LargestComponent(E), res, seen)
         /\ affection_num \in Nat /\ res \in Nat /\ seen \in SUBSET Nat
<1>1. PICK q : q = graph
  OBVIOUS
<1>2. q \in Seq(Verts \X Verts)
  BY <1>1 DEF SCInv, SCTypes
<1>3. A = [j \in DOMAIN q |-> <<q[j][2], q[j][1]>>]
  BY <1>1 DEF SC!Anti
<1>4. A \in Seq(Verts \X Verts) /\ EdgesOf(A) = Back(EdgesOf(q))
  BY <1>2, <1>3, AntiIs
<1> QED
  BY <1>1, <1>2, <1>4, EdgesOfIs DEF SCInv, SCTypes

LEMMA SCRootTwo ==
  ASSUME SCInv, SC!RootTwo
  PROVE  SCInv'
<1>1. PICK x, A, E : x = Head(s) /\ A = SC!Anti /\ E = EdgesOf(graph)
  OBVIOUS
<1>2. /\ phase = "two" /\ phase' = "two" /\ dfs = <<>> /\ s # <<>> /\ s' = Tail(s)
      /\ IF x \in vis THEN vis' = vis /\ dfs' = dfs /\ affection_num' = affection_num
         ELSE affection_num' = 1 /\ vis' = vis \cup {x} /\ dfs' = <<SC!Call(A, x)>>
      /\ res' = res /\ UNCHANGED <<graph, root, seen>>
  BY <1>1 DEF SC!RootTwo
<1>3. /\ SCTypes /\ E \in Links /\ A \in Seq(Verts \X Verts) /\ EdgesOf(A) = Back(E)
      /\ TwoInv(E, vis, s, dfs, affection_num, res)
      /\ SizesInv(SC!LargestComponent(E), res, seen)
      /\ affection_num \in Nat /\ res \in Nat
  BY <1>1, <1>2, InTwo
<1>4. IF x \in vis THEN TwoInv(E, vis, Tail(s), <<>>, affection_num, res)
      ELSE x \in Verts /\ TwoInv(E, vis \cup {x}, Tail(s), <<SC!Call(A, x)>>, 1, res)
  BY <1>1, <1>2, <1>3, TwoRoots
<1>5. TwoInv(E, vis', s', dfs', affection_num', res') /\ affection_num' \in Nat
  <2>1. CASE x \in vis
    BY <1>2, <1>3, <1>4, <2>1
  <2>2. CASE x \notin vis
    <3>1. affection_num' = 1
      BY <1>2, <2>2
    <3>2. TwoInv(E, vis', s', dfs', affection_num', res')
      BY <1>2, <1>4, <2>2
    <3> QED
      BY <3>1, <3>2
  <2> QED
    BY <2>1, <2>2
<1>6. res' \in Nat /\ SizesInv(SC!LargestComponent(E), res', seen)
  BY <1>2, <1>3
<1> QED
  BY <1>1, <1>2, <1>3, <1>5, <1>6, TwoKept

LEMMA SCVisitTwo ==
  ASSUME SCInv, SC!VisitTwo
  PROVE  SCInv'
<1>1. PICK y, A, E : y = Head(Head(dfs).todo) /\ A = SC!Anti /\ E = EdgesOf(graph)
  OBVIOUS
<1>2. /\ phase = "two" /\ phase' = "two" /\ dfs # <<>> /\ Head(dfs).todo # <<>> /\ s' = s
      /\ IF y \in vis THEN vis' = vis /\ dfs' = Advance(dfs) /\ affection_num' = affection_num
         ELSE /\ affection_num' = affection_num + 1 /\ vis' = vis \cup {y}
              /\ dfs' = <<SC!Call(A, y)>> \o Advance(dfs)
      /\ res' = res /\ UNCHANGED <<graph, root, seen>>
  BY <1>1 DEF SC!VisitTwo, Advance
<1>3. /\ SCTypes /\ E \in Links /\ A \in Seq(Verts \X Verts) /\ EdgesOf(A) = Back(E)
      /\ TwoInv(E, vis, s, dfs, affection_num, res)
      /\ SizesInv(SC!LargestComponent(E), res, seen)
      /\ affection_num \in Nat /\ res \in Nat
  BY <1>1, <1>2, InTwo
<1>4. /\ y \in Verts
      /\ IF y \in vis THEN TwoInv(E, vis, s, Advance(dfs), affection_num, res)
         ELSE TwoInv(E, vis \cup {y}, s, <<SC!Call(A, y)>> \o Advance(dfs), affection_num + 1, res)
  <2>1. PICK M, Q, S, k, r : M = vis /\ Q = s /\ S = dfs /\ k = affection_num /\ r = res
    OBVIOUS
  <2>2. /\ A \in Seq(Verts \X Verts) /\ E \in Links /\ EdgesOf(A) = Back(E)
        /\ TwoInv(E, M, Q, S, k, r) /\ S # <<>> /\ Head(S).todo # <<>> /\ y = Head(Head(S).todo)
    BY <1>1, <1>2, <1>3, <2>1
  <2>3. /\ y \in Verts
        /\ IF y \in M THEN TwoInv(E, M, Q, Advance(S), k, r)
           ELSE TwoInv(E, M \cup {y}, Q, <<SC!Call(A, y)>> \o Advance(S), k + 1, r)
    BY ONLY <2>2, TwoVisits
  <2> QED
    BY <2>1, <2>3
<1>5. TwoInv(E, vis', s', dfs', affection_num', res') /\ affection_num' \in Nat
  <2>1. CASE y \in vis
    BY <1>2, <1>3, <1>4, <2>1
  <2>2. CASE y \notin vis
    <3>1. affection_num' = affection_num + 1
      BY <1>2, <2>2
    <3>2. affection_num' \in Nat
      BY <1>3, <3>1
    <3>3. TwoInv(E, vis', s', dfs', affection_num', res')
      BY <1>2, <1>4, <2>2
    <3> QED
      BY <3>2, <3>3
  <2> QED
    BY <2>1, <2>2
<1>6. res' \in Nat /\ SizesInv(SC!LargestComponent(E), res', seen)
  BY <1>2, <1>3
<1> QED
  BY <1>1, <1>2, <1>3, <1>5, <1>6, TwoKept

LEMMA SCMaxOfTwo ==
  ASSUME NEW x \in Nat, NEW y \in Nat
  PROVE  SC!Max({x, y}) \in Nat /\ SC!Max({x, y}) \in {x, y} /\ x <= SC!Max({x, y}) /\ y <= SC!Max({x, y})
<1>1. PICK m : m = SC!Max({x, y})
  OBVIOUS
<1>2. \E z \in {x, y} : \A v \in {x, y} : z >= v
  OBVIOUS
<1>3. m \in {x, y} /\ \A v \in {x, y} : m >= v
  BY <1>1, <1>2, Zenon DEF SC!Max
<1> QED
  BY <1>1, <1>3

LEMMA SCLeaveTwo ==
  ASSUME SCInv, SC!LeaveTwo
  PROVE  SCInv'
<1>1. PICK A, E, S, k, o : /\ A = SC!Anti /\ E = EdgesOf(graph) /\ S = dfs /\ k = affection_num
                           /\ o = SC!Max({res, affection_num})
  OBVIOUS
<1>2. /\ phase = "two" /\ phase' = "two" /\ S # <<>> /\ Head(S).todo = <<>> /\ dfs' = Tail(S)
      /\ res' = IF Len(S) = 1 THEN o ELSE res
      /\ s' = s /\ vis' = vis /\ affection_num' = k /\ UNCHANGED <<graph, root, seen>>
  BY <1>1 DEF SC!LeaveTwo
<1>3. /\ SCTypes /\ E \in Links
      /\ TwoInv(E, vis, s, S, k, res)
      /\ SizesInv(SC!LargestComponent(E), res, seen)
      /\ k \in Nat /\ res \in Nat /\ seen \in SUBSET Nat
  BY <1>1, <1>2, InTwo
<1>4. CASE Len(S) # 1
  <2>1. TwoInv(E, vis, s, Tail(S), k, res)
    BY <1>2, <1>3, <1>4, TwoReturns
  <2>2. res' = res
    BY <1>2, <1>4
  <2>3. TwoInv(E, vis', s', dfs', affection_num', res')
    BY <1>2, <2>1, <2>2
  <2>4. res' \in Nat /\ affection_num' \in Nat /\ SizesInv(SC!LargestComponent(E), res', seen)
    BY <1>2, <1>3, <2>2
  <2> QED
    BY <1>1, <1>2, <1>3, <2>3, <2>4, TwoKept
<1>5. CASE Len(S) = 1
  <2>1. o \in Nat /\ o \in {res, k} /\ res <= o /\ k <= o
    BY <1>1, <1>3, SCMaxOfTwo
  <2>2. k <= SC!LargestComponent(E) /\ TwoInv(E, vis, s, Tail(S), k, o)
    BY <1>2, <1>3, <1>5, <2>1, TwoDone
  <2>3. res' = o
    BY <1>2, <1>5
  <2>4. TwoInv(E, vis', s', dfs', affection_num', res')
    BY <1>2, <2>2, <2>3
  <2>5. SizesInv(SC!LargestComponent(E), o, seen)
    <3>1. PICK m : m = SC!LargestComponent(E)
      OBVIOUS
    <3>2. m \in seen /\ (\A z \in seen : z <= res \/ z = m) /\ (res \in seen \/ res <= m)
      BY <1>3, <3>1 DEF SizesInv
    <3>3. \A z \in seen : z <= o \/ z = m
      <4> TAKE z \in seen
      <4>1. z \in Nat
        BY <1>3
      <4>2. z <= res \/ z = m
        BY <3>2
      <4> QED
        BY <1>3, <2>1, <4>1, <4>2
    <3>4. o \in seen \/ o <= m
      BY <2>1, <2>2, <3>1, <3>2
    <3> QED
      BY <3>1, <3>2, <3>3, <3>4 DEF SizesInv
  <2>6. res' \in Nat /\ affection_num' \in Nat /\ SizesInv(SC!LargestComponent(E), res', seen)
    BY <1>2, <1>3, <2>1, <2>3, <2>5
  <2> QED
    BY <1>1, <1>2, <1>3, <2>4, <2>6, TwoKept
<1> QED
  BY <1>4, <1>5

LEMMA SCPrintRes ==
  ASSUME SCInv, SC!PrintRes
  PROVE  SCInv'
<1>1. /\ phase = "two" /\ phase' = "read" /\ dfs = <<>> /\ s = <<>>
      /\ UNCHANGED <<tests, graph, root, vis, s, dfs, affection_num, res, seen>>
  BY DEF SC!PrintRes
<1>2. PICK A, E : A = SC!Anti /\ E = EdgesOf(graph)
  OBVIOUS
<1>3. /\ SCTypes /\ E \in Links
      /\ TwoInv(E, vis, <<>>, <<>>, affection_num, res)
      /\ SizesInv(SC!LargestComponent(E), res, seen)
      /\ res \in Nat /\ seen \in SUBSET Nat
  BY <1>1, <1>2, InTwo
<1>4. res \in seen /\ \A z \in seen : z <= res
  BY <1>3, TwoPrints
<1>5. SCTypes'
  BY <1>1, <1>3 DEF SCTypes
<1>6. ReadInv(tests', res', seen')
  BY <1>1, <1>4 DEF ReadInv
<1> QED
  BY <1>1, <1>5, <1>6 DEF SCInv

LEMMA SCNext == SCInv /\ SC!Next => SCInv'
BY SCReadGraph, SCRootOne, SCVisitOne, SCLeaveOne, SCTurn, SCRootTwo, SCVisitTwo, SCLeaveTwo, SCPrintRes
   DEF SC!Next, SC!Step

LEMMA SCStutters == SCInv /\ UNCHANGED sccVars => SCInv'
BY DEF SCInv, SCTypes, sccVars

LEMMA SCImplies == SCInv => SC!OneComponent /\ SC!LargestSoFar
<1> SUFFICES ASSUME SCInv PROVE SC!OneComponent /\ SC!LargestSoFar
  OBVIOUS
<1>1. SC!OneComponent
  <2> SUFFICES ASSUME phase = "two", dfs # <<>>, NEW j \in DOMAIN dfs
               PROVE  /\ dfs[Len(dfs)].x \in SC!Reaches(SC!Edges, dfs[j].x)
                      /\ dfs[j].x \in SC!Reaches(SC!Edges, dfs[Len(dfs)].x)
    BY DEF SC!OneComponent
  <2>1. InComponent(EdgesOf(graph), vis, dfs)
    BY DEF SCInv, TwoInv, TwoShape
  <2>2. SC!Edges = EdgesOf(graph)
    BY DEF SC!Edges, EdgesOf
  <2> QED
    BY <2>1, <2>2 DEF InComponent, Mutual, Outer
<1>2. SC!LargestSoFar
  <2> SUFFICES ASSUME phase = "read", tests > 0
               PROVE  res = SC!Max(seen)
    BY DEF SC!LargestSoFar
  <2>1. seen \in SUBSET Nat /\ ReadInv(tests, res, seen)
    BY DEF SCInv, SCTypes
  <2>2. res \in seen /\ \A z \in seen : z <= res
    <3>1. tests # 0
      OBVIOUS
    <3> QED
      BY <2>1, <3>1 DEF ReadInv
  <2>3. \A z \in seen : res >= z
    BY <2>1, <2>2
  <2>4. PICK m : m = SC!Max(seen)
    OBVIOUS
  <2>5. m \in seen /\ \A z \in seen : m >= z
    BY <2>2, <2>3, <2>4, Zenon DEF SC!Max
  <2>6. m \in Nat /\ res \in Nat /\ m >= res /\ res >= m
    BY <2>1, <2>2, <2>3, <2>5
  <2> QED
    BY <2>4, <2>6
<1> QED
  BY <1>1, <1>2
-----------------------------------------------------------------------------
(* The program that runs keeps its own invariant; the others stand still.  *)
Holds(name, Inv) == runs = name => Inv

ProgramsInv ==
  /\ Holds("dijkstra", DijkstraInv)
  /\ Holds("lis", LISInv)
  /\ Holds("scc", SCInv)
  /\ Holds("edmonds-karp", EKInv)
  /\ Holds("dinic", DIInv)
  /\ Holds("StoreGraph", ListsInv)
  /\ Holds("MCMF", VectorsInv)
  /\ Holds("serial", SerialInv)

LEMMA ProgramsInit == Init => ProgramsInv
<1> SUFFICES ASSUME Init PROVE ProgramsInv
  OBVIOUS
<1>1. Holds("dijkstra", DijkstraInv)
  BY DijkstraInit DEF Init, Holds
<1>2. Holds("lis", LISInv)
  BY LISInit DEF Init, Holds
<1>3. Holds("scc", SCInv)
  BY SCInit DEF Init, Holds
<1>4. Holds("edmonds-karp", EKInv)
  BY EKInit DEF Init, Holds
<1>5. Holds("dinic", DIInv)
  BY DIInit DEF Init, Holds
<1>6. Holds("StoreGraph", ListsInv)
  BY ListsInit DEF Init, Holds
<1>7. Holds("MCMF", VectorsInv)
  BY VectorsInit DEF Init, Holds
<1>8. Holds("serial", SerialInv)
  BY SerialInit DEF Init, Holds
<1> QED
  BY <1>1, <1>2, <1>3, <1>4, <1>5, <1>6, <1>7, <1>8 DEF ProgramsInv

LEMMA ProgramsStep == ProgramsInv /\ [Next]_vars => ProgramsInv'
<1> SUFFICES ASSUME ProgramsInv, [Next]_vars PROVE ProgramsInv'
  OBVIOUS
<1>1. CASE RunsDijkstra
  <2>1. runs = "dijkstra" /\ runs' = runs /\ DijkstraInv /\ DK!Next
    BY <1>1 DEF RunsDijkstra, ProgramsInv, Holds
  <2>2. DijkstraInv'
    BY <2>1, DijkstraNext
  <2> QED
    BY <2>1, <2>2 DEF ProgramsInv, Holds
<1>2. CASE RunsLIS
  <2>1. runs = "lis" /\ runs' = runs /\ LISInv /\ LI!Next
    BY <1>2 DEF RunsLIS, ProgramsInv, Holds
  <2>2. LISInv'
    BY <2>1, LISNext
  <2> QED
    BY <2>1, <2>2 DEF ProgramsInv, Holds
<1>3. CASE RunsSCC
  <2>1. runs = "scc" /\ runs' = runs /\ SCInv /\ SC!Next
    BY <1>3 DEF RunsSCC, ProgramsInv, Holds
  <2>2. SCInv'
    BY <2>1, SCNext
  <2> QED
    BY <2>1, <2>2 DEF ProgramsInv, Holds
<1>4. CASE RunsEdmondsKarp
  <2>1. runs = "edmonds-karp" /\ runs' = runs /\ EKInv /\ EK!Next
    BY <1>4 DEF RunsEdmondsKarp, ProgramsInv, Holds
  <2>2. EKInv'
    BY <2>1, EKNext
  <2> QED
    BY <2>1, <2>2 DEF ProgramsInv, Holds
<1>5. CASE RunsDinic
  <2>1. runs = "dinic" /\ runs' = runs /\ DIInv /\ DI!Next
    BY <1>5 DEF RunsDinic, ProgramsInv, Holds
  <2>2. DIInv'
    BY <2>1, DINext
  <2> QED
    BY <2>1, <2>2 DEF ProgramsInv, Holds
<1>6. CASE RunsLists
  <2>1. runs = "StoreGraph" /\ runs' = runs /\ ListsInv /\ ES!Lists
    BY <1>6 DEF RunsLists, ProgramsInv, Holds
  <2>2. ListsInv'
    BY <2>1, ListsNext
  <2> QED
    BY <2>1, <2>2 DEF ProgramsInv, Holds
<1>7. CASE RunsVectors
  <2>1. runs = "MCMF" /\ runs' = runs /\ VectorsInv /\ ES!Vectors
    BY <1>7 DEF RunsVectors, ProgramsInv, Holds
  <2>2. VectorsInv'
    BY <2>1, VectorsNext
  <2> QED
    BY <2>1, <2>2 DEF ProgramsInv, Holds
<1>8. CASE RunsSerial
  <2>1. runs = "serial" /\ runs' = runs /\ SerialInv /\ CS!Next
    BY <1>8 DEF RunsSerial, ProgramsInv, Holds
  <2>2. SerialInv'
    BY <2>1, SerialNext
  <2> QED
    BY <2>1, <2>2 DEF ProgramsInv, Holds
<1>9. CASE UNCHANGED vars
  <2>1. /\ runs' = runs
        /\ UNCHANGED dijkstraVars /\ UNCHANGED lisVars /\ UNCHANGED sccVars /\ UNCHANGED ekVars
        /\ UNCHANGED dinicVars /\ UNCHANGED storeVars /\ UNCHANGED <<web, calls, fetched, stack>>
    BY <1>9 DEF vars, otherVars, serialVars
  <2>2. Holds("dijkstra", DijkstraInv)' /\ Holds("lis", LISInv)'
    BY <2>1, DijkstraStutters, LISStutters DEF ProgramsInv, Holds
  <2>3. Holds("scc", SCInv)' /\ Holds("edmonds-karp", EKInv)' /\ Holds("dinic", DIInv)'
    BY <2>1, SCStutters, EKStutters, DIStutters DEF ProgramsInv, Holds
  <2>4. Holds("StoreGraph", ListsInv)' /\ Holds("MCMF", VectorsInv)' /\ Holds("serial", SerialInv)'
    BY <2>1, ListsStutter, VectorsStutter, SerialStutters DEF ProgramsInv, Holds
  <2> QED
    BY <2>2, <2>3, <2>4 DEF ProgramsInv
<1> QED
  BY <1>1, <1>2, <1>3, <1>4, <1>5, <1>6, <1>7, <1>8, <1>9 DEF Next

LEMMA ProgramsAlways == Spec => []ProgramsInv
BY ProgramsInit, ProgramsStep, PTL DEF Spec

(* What the loops keep true on the way, on every input: no distance of     *)
(* Dijkstra.cpp is too short and none that could shrink another is         *)
(* forgotten; the tails of LIS.cpp end the best subsequences; the second   *)
(* search of SCC.cpp stays inside one component; Edmonds-Karp.cpp and      *)
(* Dinic.cpp push flows of the network, Dinic's under every cut; the lists *)
(* of StoreGraph.cpp and the vectors of MCMF.cpp hold the edges added; the *)
(* recursion of crawler.go is bounded by the pages it marked.              *)
THEOREM LoopsSound == Spec => []Sound
<1>1. ASSUME ProgramsInv PROVE Sound
  <2>1. runs = "dijkstra" => DK!NothingForgotten
    BY <1>1, DijkstraImplies DEF ProgramsInv, Holds
  <2>2. runs = "lis" => LI!BestTails
    BY <1>1, LISImplies DEF ProgramsInv, Holds
  <2>3. runs = "scc" => SC!OneComponent
    BY <1>1, SCImplies DEF ProgramsInv, Holds
  <2>4. runs = "edmonds-karp" => EK!FlowSound
    BY <1>1, EKImplies DEF ProgramsInv, Holds
  <2>5. runs = "dinic" => DI!FlowSound /\ DI!FlowBounded
    BY <1>1, DIImplies DEF ProgramsInv, Holds
  <2>6. runs = "StoreGraph" => ES!ListsAreEdges
    BY <1>1, ListsImply DEF ProgramsInv, Holds
  <2>7. runs = "MCMF" => ES!VectorsAreEdges
    BY <1>1, VectorsImply DEF ProgramsInv, Holds
  <2>8. runs = "serial" => CS!DepthBounded /\ CS!FetchedOnce /\ CS!OnlyReachable
    BY <1>1, SerialImplies DEF ProgramsInv, Holds
  <2> QED
    BY <2>1, <2>2, <2>3, <2>4, <2>5, <2>6, <2>7, <2>8 DEF Sound
<1> QED
  BY <1>1, ProgramsAlways, PTL

(* What the programs return, on every input: the shortest distances, a     *)
(* longest increasing subsequence, the size of a largest component among   *)
(* those searched, a maximum flow, all the pages the root leads to.        *)
THEOREM ReturnsCorrect == Spec => []Correct
<1>1. ASSUME ProgramsInv PROVE Correct
  <2>1. runs = "dijkstra" => DK!Shortest
    BY <1>1, DijkstraImplies DEF ProgramsInv, Holds
  <2>2. runs = "lis" => LI!PrintsLongest
    BY <1>1, LISImplies DEF ProgramsInv, Holds
  <2>3. runs = "scc" => SC!LargestSoFar
    BY <1>1, SCImplies DEF ProgramsInv, Holds
  <2>4. runs = "edmonds-karp" => EK!FlowMaximal
    BY <1>1, EKImplies DEF ProgramsInv, Holds
  <2>5. runs = "serial" => CS!CompleteAtReturn
    BY <1>1, SerialImplies DEF ProgramsInv, Holds
  <2> QED
    BY <2>1, <2>2, <2>3, <2>4, <2>5 DEF Correct
<1> QED
  BY <1>1, ProgramsAlways, PTL
=============================================================================
