------------------------------- MODULE Dinic -------------------------------
(***************************************************************************)
(* class Dinic of algorithm/wheels/Dinic.cpp, with the recursion of dfs as *)
(* a stack of calls. BFS marks the vertex whose edges it scans where it    *)
(* would have to mark the one it reaches (line 69).                        *)
(***************************************************************************)
EXTENDS FlowNetwork

CONSTANTS Joint, Source, Sink, Pipes, Calls   \* as in EdmondsKarp

VARIABLES edges, vis, d,
          cur,      \* the arcs at which dfs goes on, counted from 1
          pc,       \* "idle", "bfs", "dfs" or "returned"
          queue,    \* Q
          dfs,      \* the calls of dfs in progress, innermost first: their
                    \* vertex x, what is left of a, and flow
          flow, made, total

dinicVars == <<edges, vis, d, cur, pc, queue, dfs, flow, made, total>>

(* d is never reset: 0 is what a static object holds, and no other value   *)
(* would make a difference, since BFS sets the level of all that has room. *)
Init == /\ edges = <<>>
        /\ vis = {} /\ d = [x \in Joint |-> 0] /\ cur = [x \in Joint |-> 1]
        /\ pc = "idle" /\ queue = <<>> /\ dfs = <<>>
        /\ flow = 0 /\ made = 0 /\ total = 0

AddPipe(e) ==
  /\ pc \in {"idle", "returned"} /\ pc' = "idle"
  /\ \A k \in DOMAIN edges : <<edges[k].from, edges[k].to, edges[k].cap>> # e
  /\ edges' = AddEdge(edges, e[1], e[2], e[3])
  /\ UNCHANGED <<vis, d, cur, queue, dfs, flow, made, total>>

StartBFS == /\ pc' = "bfs"
            /\ queue' = <<Source>>
            /\ d' = [d EXCEPT ![Source] = 0]
            /\ vis' = {Source}

MaxFlow == /\ pc \in {"idle", "returned"} /\ made < Calls
           /\ flow' = 0 /\ made' = made + 1
           /\ StartBFS
           /\ UNCHANGED <<edges, cur, dfs, total>>

(* The loop over G[x] for the vertex at the front of Q: vis[e.x] is set,   *)
(* not vis[e.y], so a vertex is reached again and again until its own      *)
(* edges lead somewhere.                                                   *)
Scan(x) ==
  FoldLeft(LAMBDA st, k :
             LET y == edges[k].to
             IN IF y \notin st.vis /\ edges[k].cap > edges[k].flow
                  THEN [vis |-> st.vis \cup {x},
                        d |-> [st.d EXCEPT ![y] = st.d[x] + 1],
                        queue |-> Append(st.queue, y)]
                  ELSE st,
           [vis |-> vis, d |-> d, queue |-> Tail(queue)], Leaving(edges, x))

Expand == /\ pc = "bfs" /\ queue # <<>>
          /\ LET st == Scan(Head(queue))
             IN vis' = st.vis /\ d' = st.d /\ queue' = st.queue
          /\ UNCHANGED <<edges, cur, pc, dfs, flow, made, total>>

Frame(x, room) == [x |-> x, a |-> room, flow |-> 0]

(* BFS has reached t: memset of cur, and dfs(s, INF). *)
Levelled == /\ pc = "bfs" /\ queue = <<>> /\ Sink \in vis
            /\ pc' = "dfs"
            /\ cur' = [x \in Joint |-> 1]
            /\ dfs' = <<Frame(Source, INF)>>
            /\ UNCHANGED <<edges, vis, d, queue, flow, made, total>>

Return == /\ pc = "bfs" /\ queue = <<>> /\ Sink \notin vis
          /\ pc' = "returned"
          /\ total' = total + flow /\ flow' = 0
          /\ UNCHANGED <<edges, vis, d, cur, queue, dfs, made>>

Top == Head(dfs)

Ended == Top.a = 0 \/ cur[Top.x] > Len(Leaving(edges, Top.x))

Arc == Leaving(edges, Top.x)[cur[Top.x]]

(* What the caller does with f, the value of dfs for its current arc: the  *)
(* arc stays current when the flow through the caller is used up.          *)
Answer(calls, f) ==
  LET fr == Head(calls)
      k == Leaving(edges, fr.x)[cur[fr.x]]
  IN /\ edges' = Push(edges, k, f)
     /\ dfs' = <<[x |-> fr.x, a |-> fr.a - f, flow |-> fr.flow + f]>> \o Tail(calls)
     /\ cur' = IF f > 0 /\ fr.a = f THEN cur ELSE [cur EXCEPT ![fr.x] = @ + 1]

(* Mutant: the arc stays current. *)
NotNextLevel_Stays == /\ pc = "dfs" /\ ~Ended
                      /\ d[edges[Arc].to] # d[Top.x] + 1
                      /\ UNCHANGED dinicVars

NotNextLevel == /\ pc = "dfs" /\ ~Ended
                /\ d[edges[Arc].to] # d[Top.x] + 1
                /\ cur' = [cur EXCEPT ![Top.x] = @ + 1]
                /\ UNCHANGED <<edges, vis, d, pc, queue, dfs, flow, made, total>>

(* Mutant: the flow left is passed on, whatever the room of the arc. *)
Descend_AllOfIt ==
  /\ pc = "dfs" /\ ~Ended
  /\ d[edges[Arc].to] = d[Top.x] + 1
  /\ IF edges[Arc].to = Sink
       THEN Answer(dfs, Top.a)
       ELSE /\ dfs' = <<Frame(edges[Arc].to, Top.a)>> \o dfs
            /\ UNCHANGED <<edges, cur>>
  /\ UNCHANGED <<vis, d, pc, queue, flow, made, total>>

(* dfs(e.y, min(a, e.cap - e.flow)), which answers at once at t or when    *)
(* there is no room.                                                       *)
Descend == /\ pc = "dfs" /\ ~Ended
           /\ d[edges[Arc].to] = d[Top.x] + 1
           /\ LET room == Min({Top.a, Room(edges, Arc)})
              IN IF edges[Arc].to = Sink \/ room = 0
                   THEN Answer(dfs, room)
                   ELSE /\ dfs' = <<Frame(edges[Arc].to, room)>> \o dfs
                        /\ UNCHANGED <<edges, cur>>
           /\ UNCHANGED <<vis, d, pc, queue, flow, made, total>>

Ascend == /\ pc = "dfs" /\ Ended /\ Len(dfs) > 1
          /\ Answer(Tail(dfs), Top.flow)
          /\ UNCHANGED <<vis, d, pc, queue, flow, made, total>>

NextBFS == /\ pc = "dfs" /\ Ended /\ Len(dfs) = 1
           /\ flow' = flow + Top.flow
           /\ dfs' = <<>>
           /\ StartBFS
           /\ UNCHANGED <<edges, cur, made, total>>

Step == Expand \/ Levelled \/ Return \/ NotNextLevel \/ Descend \/ Ascend \/ NextBFS

Next == Step \/ MaxFlow \/ \E e \in Pipes : AddPipe(e)

-----------------------------------------------------------------------------
(* Inside dfs the flow stays within the capacities; between two calls of   *)
(* it nothing is lost on the way, and the value is what was found so far.  *)
FlowSound == /\ WithinCapacity(edges)
             /\ pc = "bfs" => Conserves(edges, Joint, Source, Sink, total + flow)

(* maxFlow never returns more than there is. *)
FlowBounded == total + flow <= MinCut(edges, Joint, Source, Sink)

(* The vertices at most k edges with room from s. *)
Around[k \in Nat] ==
  IF k = 0 THEN {Source}
  ELSE LET near == Around[k - 1]
       IN near \cup {edges[j].to : j \in {l \in DOMAIN edges : edges[l].from \in near
                                                             /\ Room(edges, l) > 0}}

(* When BFS ends, d is the shortest distance of every vertex that can be   *)
(* reached.                                                                *)
DistancesShortest ==
  pc = "bfs" /\ queue = <<>> =>
    \A x \in Around[Cardinality(Joint)] :
      /\ x \in Around[d[x]]
      /\ d[x] > 0 => x \notin Around[d[x] - 1]

Returns == pc \notin {"idle", "returned"} ~> pc = "returned"
=============================================================================
