---------------------------- MODULE EdmondsKarp ----------------------------
(***************************************************************************)
(* class EdmondsKarp of algorithm/wheels/Edmonds-Karp.cpp: max_flow over   *)
(* a network to which edges are added before and between the calls. The    *)
(* edges keep their flow from one call to the next.                        *)
(***************************************************************************)
EXTENDS FlowNetwork

CONSTANTS Joint, Source, Sink,  \* the vertices, s and t
          Pipes,                \* the edges that may be added: <<from, to, cap>>
          Calls                 \* how often max_flow is called

VARIABLES edges, a, p,
          pc,       \* "idle", "search", "augment" or "returned"
          queue,    \* Q
          i,        \* the vertex of the loop back from t
          flow,     \* what this call has found
          made,     \* the calls made
          total     \* history: what the calls have returned, added up, since init

ekVars == <<edges, a, p, pc, queue, i, flow, made, total>>

(* p is never initialised: 0 stands for what it holds, no index. *)
Init == /\ edges = <<>>
        /\ a = [x \in Joint |-> 0] /\ p = [x \in Joint |-> 0]
        /\ pc = "idle" /\ queue = <<>> /\ i = Sink
        /\ flow = 0 /\ made = 0 /\ total = 0

AddPipe(e) ==
  /\ pc \in {"idle", "returned"} /\ pc' = "idle"
  /\ \A k \in DOMAIN edges : <<edges[k].from, edges[k].to, edges[k].cap>> # e
  /\ edges' = AddEdge(edges, e[1], e[2], e[3])
  /\ UNCHANGED <<a, p, queue, i, flow, made, total>>

(* init: a new network, with the a and p of the last one. It clears G of   *)
(* the vertices below n (line 44), which nothing in the class sets: a      *)
(* caller has to set n, at line 36, so that it covers every vertex of the  *)
(* network before. The model is of such a caller.                          *)
Clear == /\ pc \in {"idle", "returned"} /\ edges # <<>>
         /\ edges' = <<>> /\ pc' = "idle" /\ total' = 0
         /\ UNCHANGED <<a, p, queue, i, flow, made>>

(* The start of a turn of while (true). *)
StartSearch == /\ pc' = "search"
               /\ a' = [x \in Joint |-> IF x = Source THEN INF ELSE 0]
               /\ queue' = <<Source>>

MaxFlow == /\ pc \in {"idle", "returned"} /\ made < Calls
           /\ flow' = 0 /\ made' = made + 1
           /\ StartSearch
           /\ UNCHANGED <<edges, p, i, total>>

(* The loop over G[x] for the vertex at the front of Q. *)
Scan(x) ==
  FoldLeft(LAMBDA st, k :
             LET y == edges[k].to
             IN IF st.a[y] = 0 /\ edges[k].cap > edges[k].flow
                  THEN [a |-> [st.a EXCEPT ![y] = Min({st.a[x], Room(edges, k)})],
                        p |-> [st.p EXCEPT ![y] = k],
                        queue |-> Append(st.queue, y)]
                  ELSE st,
           [a |-> a, p |-> p, queue |-> Tail(queue)], Leaving(edges, x))

Expand == /\ pc = "search" /\ queue # <<>> /\ a[Sink] = 0
          /\ LET st == Scan(Head(queue))
             IN a' = st.a /\ p' = st.p /\ queue' = st.queue
          /\ UNCHANGED <<edges, pc, i, flow, made, total>>

Reached == /\ pc = "search" /\ a[Sink] # 0
           /\ pc' = "augment"
           /\ i' = Sink
           /\ UNCHANGED <<edges, a, p, queue, flow, made, total>>

(* Mutant: the reverse edge keeps its flow. *)
Augment_OneWay ==
  /\ pc = "augment" /\ i # Source
  /\ edges' = [edges EXCEPT ![p[i]].flow = @ + a[Sink]]
  /\ i' = edges[p[i]].from
  /\ UNCHANGED <<a, p, pc, queue, flow, made, total>>

(* One turn of the loop back along p. *)
Augment == /\ pc = "augment" /\ i # Source
           /\ edges' = Push(edges, p[i], a[Sink])
           /\ i' = edges[p[i]].from
           /\ UNCHANGED <<a, p, pc, queue, flow, made, total>>

NextSearch == /\ pc = "augment" /\ i = Source
              /\ flow' = flow + a[Sink]
              /\ StartSearch
              /\ UNCHANGED <<edges, p, i, made, total>>

(* Mutant: the call returns after its first path. *)
Return_FirstPath ==
  /\ pc = "augment" /\ i = Source
  /\ total' = total + a[Sink] /\ flow' = 0
  /\ pc' = "returned"
  /\ UNCHANGED <<edges, a, p, queue, i, made>>

Return == /\ pc = "search" /\ queue = <<>> /\ a[Sink] = 0
          /\ total' = total + flow /\ flow' = 0
          /\ pc' = "returned"
          /\ UNCHANGED <<edges, a, p, queue, i, made>>

Step == Expand \/ Reached \/ Augment \/ NextSearch \/ Return

Next == Step \/ MaxFlow \/ Clear \/ \E e \in Pipes : AddPipe(e)

-----------------------------------------------------------------------------
(* The flow is one of the network between any two paths, and its value is  *)
(* what was found so far, in this call and the ones before.                *)
FlowSound == /\ WithinCapacity(edges)
             /\ pc = "search" => Conserves(edges, Joint, Source, Sink, total + flow)

(* Whatever the order in which edges were added and max_flow was called,   *)
(* the flow is a maximum when a call returns.                              *)
FlowMaximal == pc = "returned" => total = MinCut(edges, Joint, Source, Sink)

Returns == pc \notin {"idle", "returned"} ~> pc = "returned"
=============================================================================
