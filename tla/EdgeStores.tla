----------------------------- MODULE EdgeStores -----------------------------
(***************************************************************************)
(* How the two skeletons of algorithm/wheels keep the edges of a graph:    *)
(* StoreGraph.cpp in lists through one array, each edge naming the one     *)
(* before it at its vertex, and MCMF.cpp in a vector of edges in pairs     *)
(* with a vector of their indices for each vertex. Indices count from 0.   *)
(***************************************************************************)
EXTENDS Integers, Sequences, SequencesExt

CONSTANTS VertexCount,  \* 0..VertexCount - 1, fewer than maxn
          EdgeBound     \* edges added between two initialisations

VARIABLES nodeHead, nodePointer, store,     \* StoreGraph: the lists
          n, G, pairs,                      \* MCMF: vertices in use, indices, edges
          added                             \* the edges since the graph was initialised

storeVars == <<nodeHead, nodePointer, store, n, G, pairs, added>>

Vertex == 0..VertexCount - 1
ListsOnly == UNCHANGED <<n, G, pairs>>
VectorsOnly == UNCHANGED <<nodeHead, nodePointer, store>>

(* Globals and a new object: the heads are 0, not -1. *)
Init == /\ nodeHead = [x \in Vertex |-> 0] /\ nodePointer = 0 /\ store = <<>>
        /\ n = 0 /\ G = [x \in Vertex |-> <<>>] /\ pairs = <<>>
        /\ added = [lists |-> <<>>, ready |-> FALSE, vectors |-> <<>>]

(* Mutant: only the pointer is reset. *)
InitGraph_KeepsHeads == /\ nodePointer' = 0 /\ UNCHANGED <<nodeHead, store>>
                        /\ added' = [added EXCEPT !.lists = <<>>, !.ready = TRUE]
                        /\ ListsOnly

(* initGraph: every byte of the heads is set, which makes them -1. Edges   *)
(* of the graph before stay in the array.                                  *)
InitGraph == /\ nodeHead' = [x \in Vertex |-> -1]
             /\ nodePointer' = 0 /\ UNCHANGED store
             /\ added' = [added EXCEPT !.lists = <<>>, !.ready = TRUE]
             /\ ListsOnly

(* graph[nodePointer], which may hold an edge of a graph before. *)
Stored(e) == IF nodePointer < Len(store) THEN [store EXCEPT ![nodePointer + 1] = e] ELSE Append(store, e)

(* addEdge and addWeightedEdge; an edge without a weight gets any. *)
AddToList(x, y, weight) ==
  /\ nodePointer < EdgeBound
  /\ store' = Stored([x |-> x, y |-> y, head |-> nodeHead[x], weight |-> weight])
  /\ nodeHead' = [nodeHead EXCEPT ![x] = nodePointer]
  /\ nodePointer' = nodePointer + 1
  /\ added' = [added EXCEPT !.lists = Append(@, <<x, y>>)]
  /\ ListsOnly

(* Mutant: the lists of the vertices are not cleared. *)
InitVectors_KeepsLists(k) == /\ n' = k /\ UNCHANGED G
                             /\ pairs' = <<>> /\ added' = [added EXCEPT !.vectors = <<>>]
                             /\ VectorsOnly

(* init(n) clears the vectors of the vertices from now on in use; those of *)
(* others keep indices of edges that are gone.                             *)
InitVectors(k) == /\ n' = k /\ G' = [x \in Vertex |-> IF x < k THEN <<>> ELSE G[x]]
                  /\ pairs' = <<>> /\ added' = [added EXCEPT !.vectors = <<>>]
                  /\ VectorsOnly

(* addEdge: the edge, and its reverse with no capacity and the cost back.  *)
AddPair(x, y, cost) ==
  /\ x < n /\ y < n /\ Len(pairs) < 2 * EdgeBound
  /\ pairs' = pairs \o << [x |-> x, y |-> y, cap |-> 1, cost |-> cost],
                          [x |-> y, y |-> x, cap |-> 0, cost |-> -cost] >>
  /\ LET m == Len(pairs) + 2
         first == [G EXCEPT ![x] = Append(@, m - 2)]
     IN G' = [first EXCEPT ![y] = Append(@, m - 1)]
  /\ UNCHANGED n
  /\ added' = [added EXCEPT !.vectors = Append(@, <<x, y>>)]
  /\ VectorsOnly

Lists == InitGraph \/ \E x, y \in Vertex, weight \in {0, 1} : AddToList(x, y, weight)
Vectors == (\E k \in 0..VertexCount : InitVectors(k)) \/ \E x, y \in Vertex : AddPair(x, y, 1)

-----------------------------------------------------------------------------
(* The indices that a walk from nodeHead[x] along head meets: once it is   *)
(* at -1 it is over.                                                       *)
Walk(x) == LET at[k \in Nat] == IF k = 0 THEN nodeHead[x]
                                ELSE IF at[k - 1] = -1 THEN -1
                                ELSE store[at[k - 1] + 1].head
           IN at

(* Once initGraph has run, the edges are where they were put, and the list *)
(* of each vertex is the indices of its edges, the last one first, and     *)
(* nothing of a graph before. Without it no list ends.                     *)
ListsAreEdges ==
  IF added.ready
    THEN /\ Len(added.lists) = nodePointer
         /\ \A k \in DOMAIN added.lists : <<store[k].x, store[k].y>> = added.lists[k]
         /\ \A x \in Vertex :
              LET walk == Walk(x)
              IN /\ walk[nodePointer] = -1
                 /\ \A k \in 1..nodePointer : walk[k - 1] # -1 => walk[k] < walk[k - 1]
                 /\ {walk[k] : k \in 0..nodePointer} \ {-1}
                      = {k - 1 : k \in {j \in DOMAIN added.lists : added.lists[j][1] = x}}
    ELSE store # <<>> => \A x \in Vertex : \A k \in 0..Len(store) : Walk(x)[k] # -1

(* The vector of each vertex in use names the edges and the reverses that  *)
(* leave it, in order, and the neighbour of an index, k ^ 1, its reverse.  *)
VectorsAreEdges ==
  /\ \A x \in Vertex : x < n =>
       /\ Range(G[x]) = {k - 1 : k \in {j \in DOMAIN pairs : pairs[j].x = x}}
       /\ \A k \in DOMAIN G[x], l \in DOMAIN G[x] : k < l => G[x][k] < G[x][l]
  /\ \A k \in DOMAIN added.vectors : <<pairs[2 * k].y, pairs[2 * k].x>> = added.vectors[k]
=============================================================================
