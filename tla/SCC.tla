-------------------------------- MODULE SCC --------------------------------
(***************************************************************************)
(* SCC of algorithm/wheels/SCC.cpp: the size of the largest strongly       *)
(* connected component, by a search that stacks vertices as it leaves them *)
(* and one of the reversed graph in the order of that stack. A test is a   *)
(* graph; res is never reset between the tests of one run.                 *)
(***************************************************************************)
EXTENDS Naturals, Sequences, FiniteSetsExt

CONSTANTS Digraphs,   \* the graphs a test may have: sequences of edges <<x, y>>
          VertexNum,  \* on the vertices 1..VertexNum
          Tests       \* N

VARIABLES tests,      \* the tests that were read
          graph,      \* the edges of the current one, in the order of input
          phase,      \* "read", "one" or "two": the loop in progress
          root,       \* i of the first loop of SCC
          vis, s,
          dfs,        \* the calls of dfs_one or dfs_two in progress, innermost
                      \* first: the vertex and the successors left to look at
          affection_num, res,
          seen        \* history: the sizes of the largest components

sccVars == <<tests, graph, phase, root, vis, s, dfs, affection_num, res, seen>>

Vertex == 1..VertexNum

Init == /\ tests = 0 /\ graph = <<>> /\ phase = "read" /\ root = 1
        /\ vis = {} /\ s = <<>> /\ dfs = <<>>
        /\ affection_num = 0 /\ res = 0
        /\ seen = {}

(* The chains that addEdge builds from nodeHead, last edge first. *)
Chain(edges, x) ==
  LET out[k \in 0..Len(edges)] == IF k = 0 THEN <<>>
                                  ELSE IF edges[k][1] = x THEN <<edges[k][2]>> \o out[k - 1]
                                  ELSE out[k - 1]
  IN out[Len(edges)]

(* Mutant: the edges are copied as they are. *)
Anti_NotReversed == graph

(* generate_anti_graph *)
Anti == [j \in DOMAIN graph |-> <<graph[j][2], graph[j][1]>>]

Call(edges, x) == [x |-> x, todo |-> Chain(edges, x)]

Reaches(E, x) ==
  LET step[k \in Nat] == IF k = 0 THEN {x}
                         ELSE step[k - 1] \cup {e[2] : e \in {f \in E : f[1] \in step[k - 1]}}
  IN step[VertexNum]

(* The definition: vertices that reach each other. *)
LargestComponent(E) ==
  Max({Cardinality({y \in Reaches(E, x) : x \in Reaches(E, y)}) : x \in Vertex})

ReadGraph(g) == /\ phase = "read" /\ tests < Tests
                /\ tests' = tests + 1
                /\ graph' = g
                /\ phase' = "one" /\ root' = 1 /\ vis' = {}
                /\ seen' = seen \cup {LargestComponent({g[j] : j \in DOMAIN g})}
                /\ UNCHANGED <<s, dfs, affection_num, res>>

(* for (i = 1; i <= vertex_num; i++) if (!vis[i]) dfs_one(i) *)
RootOne == /\ phase = "one" /\ dfs = <<>> /\ root <= VertexNum
           /\ root' = root + 1
           /\ IF root \in vis THEN UNCHANGED <<vis, dfs>>
              ELSE /\ vis' = vis \cup {root}
                   /\ dfs' = <<Call(graph, root)>>
           /\ UNCHANGED <<tests, graph, phase, s, affection_num, res, seen>>

(* The next edge of the innermost dfs_one. *)
VisitOne == /\ phase = "one" /\ dfs # <<>> /\ Head(dfs).todo # <<>>
            /\ LET y == Head(Head(dfs).todo)
                   rest == <<[x |-> Head(dfs).x, todo |-> Tail(Head(dfs).todo)]>> \o Tail(dfs)
               IN IF y \in vis THEN dfs' = rest /\ UNCHANGED vis
                  ELSE /\ vis' = vis \cup {y}
                       /\ dfs' = <<Call(graph, y)>> \o rest
            /\ UNCHANGED <<tests, graph, phase, root, s, affection_num, res, seen>>

LeaveOne == /\ phase = "one" /\ dfs # <<>> /\ Head(dfs).todo = <<>>
            /\ s' = <<Head(dfs).x>> \o s
            /\ dfs' = Tail(dfs)
            /\ UNCHANGED <<tests, graph, phase, root, vis, affection_num, res, seen>>

(* generate_anti_graph and the second memset of vis. *)
Turn == /\ phase = "one" /\ dfs = <<>> /\ root > VertexNum
        /\ phase' = "two"
        /\ vis' = {}
        /\ UNCHANGED <<tests, graph, root, s, dfs, affection_num, res, seen>>

(* One turn of while (!s.empty()), up to dfs_two. *)
RootTwo == /\ phase = "two" /\ dfs = <<>> /\ s # <<>>
           /\ s' = Tail(s)
           /\ IF Head(s) \in vis THEN UNCHANGED <<vis, dfs, affection_num>>
              ELSE /\ affection_num' = 1
                   /\ vis' = vis \cup {Head(s)}
                   /\ dfs' = <<Call(Anti, Head(s))>>
           /\ UNCHANGED <<tests, graph, phase, root, res, seen>>

VisitTwo == /\ phase = "two" /\ dfs # <<>> /\ Head(dfs).todo # <<>>
            /\ LET y == Head(Head(dfs).todo)
                   rest == <<[x |-> Head(dfs).x, todo |-> Tail(Head(dfs).todo)]>> \o Tail(dfs)
               IN IF y \in vis THEN dfs' = rest /\ UNCHANGED <<vis, affection_num>>
                  ELSE /\ affection_num' = affection_num + 1
                       /\ vis' = vis \cup {y}
                       /\ dfs' = <<Call(Anti, y)>> \o rest
            /\ UNCHANGED <<tests, graph, phase, root, s, res, seen>>

(* dfs_two returns; the outermost to res = max(res, affection_num). *)
LeaveTwo == /\ phase = "two" /\ dfs # <<>> /\ Head(dfs).todo = <<>>
            /\ dfs' = Tail(dfs)
            /\ res' = IF Len(dfs) = 1 THEN Max({res, affection_num}) ELSE res
            /\ UNCHANGED <<tests, graph, phase, root, vis, s, affection_num, seen>>

(* printf of res; main reads the next test. *)
PrintRes == /\ phase = "two" /\ dfs = <<>> /\ s = <<>>
            /\ phase' = "read"
            /\ UNCHANGED <<tests, graph, root, vis, s, dfs, affection_num, res, seen>>

Step == \/ RootOne \/ VisitOne \/ LeaveOne \/ Turn
        \/ RootTwo \/ VisitTwo \/ LeaveTwo \/ PrintRes

Next == Step \/ \E g \in Digraphs : ReadGraph(g)

-----------------------------------------------------------------------------
Edges == {graph[j] : j \in DOMAIN graph}

(* What a call of dfs_two from the loop has counted lies in one component: *)
(* the order of the stack keeps the search of the reversed graph inside.   *)
OneComponent ==
  phase = "two" /\ dfs # <<>> =>
    LET x == dfs[Len(dfs)].x
    IN \A j \in DOMAIN dfs : x \in Reaches(Edges, dfs[j].x) /\ dfs[j].x \in Reaches(Edges, x)

(* The number printed is the size of the largest component, of this graph  *)
(* or of one of the tests before it.                                       *)
LargestSoFar == phase = "read" /\ tests > 0 => res = Max(seen)

Returns == phase # "read" ~> phase = "read"
=============================================================================
