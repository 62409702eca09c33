---------------------------- MODULE FlowNetwork ----------------------------
(***************************************************************************)
(* What the flow classes of algorithm/wheels have in common: the array of  *)
(* edges, in which an edge and its reverse are neighbours, and what a flow *)
(* in it is. Indices count from 1: the partner of k is not k ^ 1.          *)
(***************************************************************************)
EXTENDS Integers, Sequences, SequencesExt, FiniteSetsExt

INF == 1061109567     \* 0x3f3f3f3f

Edge(x, y, cap) == [from |-> x, to |-> y, cap |-> cap, flow |-> 0]

(* addEdge: the reverse edge has the same capacity, so that what the       *)
(* classes solve is the flow in a network of undirected edges.             *)
AddEdge(edges, x, y, cap) == edges \o <<Edge(x, y, cap), Edge(y, x, cap)>>

(* k ^ 1 *)
Partner(k) == IF k % 2 = 1 THEN k + 1 ELSE k - 1

(* G[x]: the indices of the edges from x, in order. *)
Leaving(edges, x) ==
  LET out[k \in 0..Len(edges)] == IF k = 0 THEN <<>>
                                  ELSE IF edges[k].from = x THEN Append(out[k - 1], k)
                                  ELSE out[k - 1]
  IN out[Len(edges)]

Room(edges, k) == edges[k].cap - edges[k].flow

Push(edges, k, f) == [edges EXCEPT ![k].flow = @ + f, ![Partner(k)].flow = @ - f]

(* What flows out of x, less what flows in. *)
Outflow(edges, x) == FoldSeq(LAMBDA e, sum : IF e.from = x THEN sum + e.flow ELSE sum, 0, edges)

(* Edges carry no more than they can, and partners opposite flows. *)
WithinCapacity(edges) ==
  \A k \in DOMAIN edges : /\ edges[k].flow <= edges[k].cap
                          /\ edges[Partner(k)].flow = -edges[k].flow

(* Nothing is lost on the way from s to t. *)
Conserves(edges, V, s, t, value) ==
  /\ \A x \in V \ {s, t} : Outflow(edges, x) = 0
  /\ Outflow(edges, s) = value /\ Outflow(edges, t) = -value

(* The smallest capacity of a set of edges that separates t from s: the    *)
(* value of a maximum flow.                                                *)
MinCut(edges, V, s, t) ==
  LET capacity(S) == FoldSeq(LAMBDA e, sum : IF e.from \in S /\ e.to \notin S
                                               THEN sum + e.cap ELSE sum, 0, edges)
  IN Min({capacity({s} \cup S) : S \in SUBSET (V \ {s, t})})
=============================================================================
