------------------------------- MODULE HBGraph -------------------------------
(***************************************************************************)
(* The happens-before graph of a symbolic execution                        *)
(* (cloud9/lib/ICS/HBGraph.cpp).  A node is named by its thread and its      *)
(* threadOrder, the number under which DumpThreadSchedule writes it into a   *)
(* schedule; the ids of the code number the same nodes in the order in which *)
(* they were made.  A graph is the sequence of nodes of every thread.        *)
(*                                                                         *)
(* A node has the calling context it was made in, and the nodes it must      *)
(* happen after.                                                           *)
(***************************************************************************)
EXTENDS Integers, Sequences

CONSTANTS Thread, None

NoNode == [thread |-> None, order |-> 0]
Node(t, k) == [thread |-> t, order |-> k]

EmptyGraph == [t \in Thread |-> <<>>]

\* lastHbNode of a thread.
LastNode(g, t) == IF g[t] = <<>> THEN NoNode ELSE Node(t, Len(g[t]))

\* The node that addNodeForThread makes next.
NewNode(g, t) == Node(t, Len(g[t]) + 1)

addNodeForThread(g, t, ctx) ==
  [g EXCEPT ![t] = Append(@, [ctx |-> ctx,
                              incoming |-> {LastNode(g, t)} \ {NoNode}])]

addEdge(g, from, to) ==
  IF from = NoNode \/ to = NoNode \/ from = to THEN g
  ELSE [g EXCEPT ![to.thread][to.order].incoming = @ \cup {from}]

\* "Make a link from all other threads."
addConservativeEdge(g, to) ==
  [g EXCEPT ![to.thread][to.order].incoming =
     @ \cup {LastNode(g, u) : u \in {u \in Thread \ {to.thread} : g[u] # <<>>}}]

\* addSourceSinkEdges for the threads ts, with a source only: a node for each
\* that must happen after source.  ctx is where each thread is.
addSourceEdges(g, ts, ctx, source) ==
  [t \in Thread |->
     IF t \in ts
       THEN Append(g[t], [ctx |-> ctx[t],
                          incoming |-> {LastNode(g, t), source} \ {NoNode}])
       ELSE g[t]]

\* addSourceSinkEdges with the same source and sink: two nodes for each of ts,
\* one before and one after the node a.
addSourceSinkEdges(g, ts, ctx, a) ==
  LET arrived == [t \in Thread |-> IF t \in ts THEN addNodeForThread(g, t, ctx[t])[t]
                                               ELSE g[t]]
      joined == [arrived EXCEPT ![a.thread][a.order].incoming =
                   @ \cup {NewNode(g, t) : t \in ts}]
  IN addSourceEdges(joined, ts, ctx, a)

\* The edges of a node that DumpThreadSchedule writes: those from other threads.
CrossEdges(g, t, k) == {n \in g[t][k].incoming : n.thread # t}
=============================================================================
