----------------------------- MODULE Algorithms -----------------------------
(***************************************************************************)
(* The algorithms of algorithm/wheels and the recursive crawler of         *)
(* ds/6.824 side by side. They share nothing but the way the two flow      *)
(* classes keep their edges: runs names the one that runs.                 *)
(***************************************************************************)
EXTENDS Integers, Sequences, Web

CONSTANTS Graphs,                               \* Dijkstra.cpp
          Arrays,                               \* LIS.cpp
          Digraphs, VertexNum, Tests,           \* SCC.cpp
          Joint, Source, Sink, Pipes, Calls,    \* Edmonds-Karp.cpp, Dinic.cpp
          VertexCount, EdgeBound,               \* StoreGraph.cpp, MCMF.cpp
          Programs                              \* those that may run

ASSUME JointsAreFinite == IsFiniteSet(Joint) /\ Source \in Joint /\ Sink \in Joint
ASSUME SinkIsNotSource == Source # Sink
ASSUME PipesAreEdges == Pipes \subseteq Joint \X Joint \X Nat
ASSUME GraphsAreWeighted ==
  \A g \in Graphs : /\ g.size \in Nat \ {0}
                    /\ g.calls \in Seq((0..g.size - 1) \X (0..g.size - 1) \X Nat)
ASSUME ArraysOfNumbers ==
  \A f \in Arrays : /\ IsFiniteSet(DOMAIN f) /\ DOMAIN f # {}
                    /\ f \in [0..Cardinality(DOMAIN f) - 1 -> Int]
ASSUME DigraphsOnVertices ==
  VertexNum \in Nat \ {0} /\ Digraphs \subseteq Seq((1..VertexNum) \X (1..VertexNum))

VARIABLES runs,
          size, todo, given, adj, dist, pq, top, links,
          arr, tailIndices, prevIndices, len, next, at, chain, astray,
          tests, graph, phase, root, vis, s, dfs, affection_num, res, seen,
          edges, pc, queue, flow, made, total,
          a, p, i,
          marked, d, cur, descent,
          nodeHead, nodePointer, store, n, G, pairs, added,
          fetched, stack

dijkstraVars == <<size, todo, given, adj, dist, pq, top, links>>
lisVars == <<arr, tailIndices, prevIndices, len, next, at, chain, astray>>
sccVars == <<tests, graph, phase, root, vis, s, dfs, affection_num, res, seen>>
flowVars == <<edges, pc, queue, flow, made, total>>
ekVars == <<flowVars, a, p, i>>
dinicVars == <<flowVars, marked, d, cur, descent>>
storeVars == <<nodeHead, nodePointer, store, n, G, pairs, added>>
serialVars == <<web, calls, fetched, stack>>
otherVars == <<storeVars, serialVars>>
vars == <<runs, dijkstraVars, lisVars, sccVars, ekVars, dinicVars, otherVars>>

DK == INSTANCE Dijkstra
LI == INSTANCE LIS
SC == INSTANCE SCC
EK == INSTANCE EdmondsKarp
DI == INSTANCE Dinic WITH vis <- marked, dfs <- descent
ES == INSTANCE EdgeStores
CS == INSTANCE CrawlerSerial

(* What does not run has no input. *)
Init == /\ runs \in Programs
        /\ IF runs = "dijkstra" THEN DK!Init
           ELSE /\ size = 0 /\ todo = <<>> /\ given = {} /\ adj = <<>>
                /\ dist = <<>> /\ pq = {} /\ top = 0 /\ links = <<>>
        /\ IF runs = "lis" THEN LI!Init
           ELSE /\ arr = <<>> /\ tailIndices = <<>> /\ prevIndices = <<>> /\ len = 1
                /\ next = 1 /\ at = -1 /\ chain = <<>> /\ astray = FALSE
        /\ SC!Init
        /\ EK!Init /\ DI!Init
        /\ ES!Init
        /\ IF runs = "serial" THEN CS!Init
           ELSE web = <<>> /\ calls = <<>> /\ fetched = {} /\ stack = <<>>

RunsDijkstra == runs = "dijkstra" /\ DK!Next
                /\ UNCHANGED <<runs, lisVars, sccVars, ekVars, dinicVars, otherVars>>
RunsLIS == runs = "lis" /\ LI!Next
           /\ UNCHANGED <<runs, dijkstraVars, sccVars, ekVars, dinicVars, otherVars>>
RunsSCC == runs = "scc" /\ SC!Next
           /\ UNCHANGED <<runs, dijkstraVars, lisVars, ekVars, dinicVars, otherVars>>
RunsEdmondsKarp == runs = "edmonds-karp" /\ EK!Next
                   /\ UNCHANGED <<runs, dijkstraVars, lisVars, sccVars, marked, d, cur, descent, otherVars>>
RunsDinic == runs = "dinic" /\ DI!Next
             /\ UNCHANGED <<runs, dijkstraVars, lisVars, sccVars, a, p, i, otherVars>>
RunsLists == runs = "StoreGraph" /\ ES!Lists
             /\ UNCHANGED <<runs, dijkstraVars, lisVars, sccVars, ekVars, dinicVars, serialVars>>
RunsVectors == runs = "MCMF" /\ ES!Vectors
               /\ UNCHANGED <<runs, dijkstraVars, lisVars, sccVars, ekVars, dinicVars, serialVars>>
RunsSerial == runs = "serial" /\ CS!Next
              /\ UNCHANGED <<runs, dijkstraVars, lisVars, sccVars, ekVars, dinicVars, storeVars>>

Next == \/ RunsDijkstra \/ RunsLIS \/ RunsSCC \/ RunsEdmondsKarp \/ RunsDinic
        \/ RunsLists \/ RunsVectors \/ RunsSerial

(* A program that runs goes on; edges and calls come as the caller likes.  *)
Fairness == /\ WF_dijkstraVars(runs = "dijkstra" /\ DK!Next)
            /\ WF_lisVars(runs = "lis" /\ LI!Next)
            /\ WF_sccVars(runs = "scc" /\ SC!Step)
            /\ WF_ekVars(runs = "edmonds-karp" /\ EK!Step)
            /\ WF_dinicVars(runs = "dinic" /\ DI!Step)
            /\ WF_serialVars(runs = "serial" /\ CS!Next)

Spec == Init /\ [][Next]_vars /\ Fairness

-----------------------------------------------------------------------------
(* What the loops keep true on the way: no distance is too short and none  *)
(* that could shrink another is forgotten; the tails end the best          *)
(* subsequences; the second search stays inside one component; flows are   *)
(* flows of the network; the lists and vectors of a graph hold its edges;  *)
(* the recursion is bounded and fetches no page twice or out of reach.     *)
Sound == /\ runs = "dijkstra" => DK!NothingForgotten
         /\ runs = "lis" => LI!BestTails
         /\ runs = "scc" => SC!OneComponent
         /\ runs = "edmonds-karp" => EK!FlowSound
         /\ runs = "dinic" => DI!FlowSound /\ DI!FlowBounded
         /\ runs = "StoreGraph" => ES!ListsAreEdges
         /\ runs = "MCMF" => ES!VectorsAreEdges
         /\ runs = "serial" => CS!DepthBounded /\ CS!FetchedOnce /\ CS!OnlyReachable

(* What the programs return is what the definition of the problem says,    *)
(* over the edges, numbers and pages that the caller gave them.            *)
Correct == /\ runs = "dijkstra" => DK!Shortest
           /\ runs = "lis" => LI!PrintsLongest
           /\ runs = "scc" => SC!LargestSoFar
           /\ runs = "edmonds-karp" => EK!FlowMaximal
           /\ runs = "serial" => CS!CompleteAtReturn

(* The loops end. *)
Ends == /\ runs = "dijkstra" => <>DK!Done
        /\ runs = "lis" => <>(chain # <<>> /\ (at < 0 \/ astray))
        /\ runs = "scc" => SC!Returns
        /\ runs = "edmonds-karp" => EK!Returns
        /\ runs = "dinic" => DI!Returns
        /\ runs = "serial" => CS!Returns

(* BFS of Dinic determines the shortest distances of the vertices it can   *)
(* reach ("确定最短距离数值", Dinic.cpp, line 61).                         *)
DistancesShortest == runs = "dinic" => DI!DistancesShortest

-----------------------------------------------------------------------------
(* The inputs of the runs. *)
(* Every graph of up to three edges on three vertices, loops and parallel  *)
(* edges included, the graph of main, and one in which a vertex has been   *)
(* scanned when a shorter way to it is found by way of a stale entry.      *)
Edges3 == {e \in (0..2) \X (0..2) \X {1, 3} : e[1] <= e[2]}
MainCalls == << <<0, 1, 4>>, <<0, 7, 8>>, <<1, 2, 8>>, <<1, 7, 11>>, <<2, 3, 7>>,
                <<2, 8, 2>>, <<2, 5, 4>>, <<3, 4, 9>>, <<3, 5, 14>>, <<4, 5, 10>>,
                <<5, 6, 2>>, <<6, 7, 1>>, <<6, 8, 6>>, <<7, 8, 7>> >>
StaleCalls == << <<0, 1, 10>>, <<0, 2, 5>>, <<0, 3, 1>>, <<3, 1, 1>>, <<1, 2, 1>>, <<2, 4, 1>> >>
TestGraphs == {[size |-> 3, calls |-> c] : c \in UNION {[1..k -> Edges3] : k \in 0..3}}
                \cup {[size |-> 9, calls |-> MainCalls], [size |-> 5, calls |-> StaleCalls]}

(* Every array of up to four elements with values 1 to 4 or of five with   *)
(* values 1 to 3, and main's.                                              *)
MainArray == [k \in 0..8 |-> <<2, 5, 3, 7, 11, 8, 10, 13, 6>>[k + 1]]
TestArrays == UNION {[0..k - 1 -> 1..4] : k \in 1..4} \cup [0..4 -> 1..3] \cup {MainArray}

(* Every directed graph on three vertices, edges in one order. *)
Arcs3 == << <<1, 2>>, <<1, 3>>, <<2, 1>>, <<2, 3>>, <<3, 1>>, <<3, 2>> >>
TestDigraphs == {SelectSeq(Arcs3, LAMBDA e : e \in E) :
                   E \in SUBSET {Arcs3[k] : k \in DOMAIN Arcs3}}

(* Two paths from s to t that share their first edge. *)
TestPipes == {<<"s", "u", 2>>, <<"u", "v", 1>>, <<"u", "t", 1>>, <<"v", "t", 2>>}
=============================================================================
