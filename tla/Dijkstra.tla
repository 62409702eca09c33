------------------------------ MODULE Dijkstra ------------------------------
(***************************************************************************)
(* class Graph of algorithm/wheels/Dijkstra.cpp: main adds its edges and   *)
(* asks for the shortest paths from 0. A vertex may be in the priority     *)
(* queue several times; a stale entry is popped and relaxes its links once *)
(* more. The comment of the class calls the graph directed (line 16);      *)
(* addEdge lists an edge at both its ends, and so the paths are those of   *)
(* an undirected graph.                                                    *)
(***************************************************************************)
EXTENDS Naturals, Sequences, SequencesExt, FiniteSetsExt

CONSTANT Graphs       \* the graphs: each the calls of addEdge, <<u, v, w>>,
                      \* on the vertices V == 0..size-1

VARIABLES size,       \* V
          todo,       \* the calls of addEdge that main has still to make
          given,      \* history: the edges of the calls made
          adj,        \* the adjacency lists, pairs <<vertex, weight>>
          dist, pq,   \* dist is <<>> until shortestPath is called
          top,        \* u, the vertex whose list is scanned
          links       \* the rest of that list

dijkstraVars == <<size, todo, given, adj, dist, pq, top, links>>

INF == 1061109567     \* 0x3f3f3f3f

Vertices == 0..size - 1

(* Graph(V), and main before its first call. *)
Init == /\ \E g \in Graphs : size = g.size /\ todo = g.calls
        /\ given = {}
        /\ adj = [v \in Vertices |-> <<>>]
        /\ dist = <<>> /\ pq = {} /\ top = 0 /\ links = <<>>

(* Mutant: the edge is listed at its first end only. *)
AddEdge_Directed ==
  /\ todo # <<>>
  /\ LET e == Head(todo)
     IN /\ given' = given \cup {e}
        /\ adj' = [adj EXCEPT ![e[1]] = Append(@, <<e[2], e[3]>>)]
  /\ todo' = Tail(todo)
  /\ UNCHANGED <<size, dist, pq, top, links>>

(* addEdge(u, v, w): a loop is listed twice. *)
AddEdge ==
  /\ todo # <<>>
  /\ LET u == Head(todo)[1]
         v == Head(todo)[2]
         w == Head(todo)[3]
         once == [adj EXCEPT ![u] = Append(@, <<v, w>>)]
     IN /\ given' = given \cup {<<u, v, w>>}
        /\ adj' = [once EXCEPT ![v] = Append(@, <<u, w>>)]
  /\ todo' = Tail(todo)
  /\ UNCHANGED <<size, dist, pq, top, links>>

(* shortestPath(0), up to the loop. *)
ShortestPath ==
  /\ todo = <<>> /\ dist = <<>>
  /\ dist' = [v \in Vertices |-> IF v = 0 THEN 0 ELSE INF]
  /\ pq' = {<<0, 0>>}
  /\ UNCHANGED <<size, todo, given, adj, top, links>>

(* Compare puts the smallest distance on top, then the smallest vertex. *)
Before(p, q) == \/ p[1] < q[1]
                \/ p[1] = q[1] /\ p[2] <= q[2]

Top == CHOOSE p \in pq : \A q \in pq : Before(p, q)

Pop == /\ links = <<>> /\ pq # {}
       /\ top' = Top[2]
       /\ pq' = pq \ {Top}
       /\ links' = adj[Top[2]]
       /\ UNCHANGED <<size, todo, given, adj, dist>>

(* Mutant: a vertex whose distance shrinks is not queued again. *)
Relax_QueuedOnce ==
  /\ links # <<>>
  /\ LET v == Head(links)[1]
         through == dist[top] + Head(links)[2]
     IN IF dist[v] > through
          THEN /\ dist' = [dist EXCEPT ![v] = through]
               /\ pq' = IF dist[v] = INF THEN pq \cup {<<through, v>>} ELSE pq
          ELSE UNCHANGED <<dist, pq>>
  /\ links' = Tail(links)
  /\ UNCHANGED <<size, todo, given, adj, top>>

(* One turn of the loop over adj[u]. The pairs pushed differ: dist[v] has  *)
(* shrunk since v was last pushed.                                         *)
Relax == /\ links # <<>>
         /\ LET v == Head(links)[1]
                through == dist[top] + Head(links)[2]
            IN IF dist[v] > through
                 THEN /\ dist' = [dist EXCEPT ![v] = through]
                      /\ pq' = pq \cup {<<through, v>>}
                 ELSE UNCHANGED <<dist, pq>>
         /\ links' = Tail(links)
         /\ UNCHANGED <<size, todo, given, adj, top>>

Next == AddEdge \/ ShortestPath \/ Pop \/ Relax

-----------------------------------------------------------------------------
Done == dist # <<>> /\ pq = {} /\ links = <<>>

(* The edges main has given, walked either way. *)
Roads == given \cup {<<e[2], e[1], e[3]>> : e \in given}

(* The walks of at most k edges from 0: where they end, and their length.  *)
Walks[k \in Nat] ==
  IF k = 0 THEN {<<0, 0>>}
  ELSE LET shorter == Walks[k - 1]
       IN shorter \cup UNION {{<<e[2], q[2] + e[3]>> : e \in {r \in Roads : r[1] = q[1]}} :
                               q \in shorter}

(* Lists may be scanned with a distance that is not final, but no distance *)
(* is ever too short, and one that could still shrink another is in the    *)
(* queue or at the vertex being scanned, its links not yet done.           *)
NothingForgotten ==
  \A u \in DOMAIN dist : dist[u] # INF =>
    \A j \in DOMAIN adj[u] :
      dist[adj[u][j][1]] > dist[u] + adj[u][j][2] =>
        \/ <<dist[u], u>> \in pq
        \/ u = top /\ j > Len(adj[u]) - Len(links)

(* The distances printed are those of the shortest paths over the edges    *)
(* that main gave, walked either way, INF for a vertex that has none.      *)
Shortest == LET walks == Walks[size - 1]
                distance(v) == Min({q[2] : q \in {r \in walks : r[1] = v}} \cup {INF})
            IN \A v \in DOMAIN dist : /\ dist[v] >= distance(v)
                                     /\ Done => dist[v] = distance(v)
=============================================================================
