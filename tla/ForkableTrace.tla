--------------------------- MODULE ForkableTrace ---------------------------
(***************************************************************************)
(* The append-only trace of cloud9/include/ics/ForkableTrace.h.  A trace is *)
(* a list of reference-counted nodes; a fork shares all of them but the     *)
(* tail.  Each execution state keeps its happens-before graph, its          *)
(* precondition slice and its harness objects in such traces.               *)
(***************************************************************************)
EXTENDS Integers, Sequences, FiniteSetsExt

CONSTANTS
  Trace,    \* ForkableTrace objects
  Elem,     \* elements
  NodeId,   \* addresses of nodes
  None,     \* the value of a trace that does not exist
  MaxSize   \* bound on the length of a trace

ASSUME TraceAssumption == MaxSize \in Nat /\ None \notin Seq(Elem)

VARIABLES
  data,     \* Node::data; empty for an address not in use
  nodes,    \* _nodes; empty where there is no trace
  size      \* _size

vars == <<data, nodes, size>>

\* Lists of nodes and their contents.
TypeOK ==
  /\ DOMAIN data = NodeId
  /\ nodes \in [Trace -> Seq(NodeId)]

Live(t) == nodes[t] # <<>>
Back(t) == nodes[t][Len(nodes[t])]
Segment(t, k) == data[nodes[t][k]]

\* Is place k of t the only klee::ref to its node?  (refCount == 1)
OnlyRef(t, k) ==
  \A u \in Trace : \A j \in DOMAIN nodes[u] :
    nodes[u][j] = nodes[t][k] => u = t /\ j = k

Unused == {n \in NodeId : \A t \in Trace : n \notin Range(nodes[t])}

-----------------------------------------------------------------------------
\* _nodes becomes ns and the contents d; a node nobody refers to is deleted.
Store(ns, d) ==
  /\ nodes' = ns
  /\ data' = [n \in NodeId |->
                IF \E t \in Trace : n \in Range(ns[t]) THEN d[n] ELSE <<>>]

\* "new Node": any address not in use, and empty.
NewNode(taken) == CHOOSE n \in Unused \ taken : TRUE

Init ==
  /\ data = [n \in NodeId |-> <<>>]
  /\ nodes = [t \in Trace |-> <<>>]
  /\ size = [t \in Trace |-> 0]

\* clear(), which is also all that the default constructor does
Clear(t) ==
  /\ Unused # {}
  /\ Store([nodes EXCEPT ![t] = <<NewNode({})>>], data)
  /\ size' = [size EXCEPT ![t] = 0]

\* The source's list once its tail is known to be empty.
SplitTail(t) ==
  IF data[Back(t)] # <<>> THEN Append(nodes[t], NewNode({})) ELSE nodes[t]

\* Mutant: the copy keeps the tail of the original.
ForkOfShared(list, n) == list

\* The copy's list: all nodes are shared but the tail.
ForkOf(list, n) == [list EXCEPT ![Len(list)] = n]

\* The copy constructor: u is constructed from t.
Fork(t, u) ==
  LET n == NewNode({}) IN
  /\ Live(t) /\ ~Live(u)
  /\ Unused # {} /\ Unused \ {n} # {}
  /\ Store([nodes EXCEPT ![t] = SplitTail(t),
                         ![u] = ForkOf(SplitTail(t), NewNode({n}))], data)
  /\ size' = [size EXCEPT ![u] = size[t]]

\* The destructor.
Destroy(t) ==
  /\ Live(t)
  /\ Store([nodes EXCEPT ![t] = <<>>], data)
  /\ size' = [size EXCEPT ![t] = 0]

PushBack(t, x) ==
  /\ Live(t) /\ size[t] < MaxSize
  /\ Store(nodes, [data EXCEPT ![Back(t)] = Append(@, x)])
  /\ size' = [size EXCEPT ![t] = @ + 1]

Swap(t, u) ==
  /\ Live(t) /\ Live(u)
  /\ Store([nodes EXCEPT ![t] = nodes[u], ![u] = nodes[t]], data)
  /\ size' = [size EXCEPT ![t] = size[u], ![u] = size[t]]

\* The elements of a list of lists, one after the other.
FlattenSeq(ss) ==
  LET upto[k \in 1 .. Len(ss)] == IF k = 1 THEN ss[k] ELSE upto[k - 1] \o ss[k]
  IN IF ss = <<>> THEN <<>> ELSE upto[Len(ss)]

Reverse(s) == [i \in 1 .. Len(s) |-> s[Len(s) + 1 - i]]

\* The elements of t, node after node.
Segments(t) == [k \in DOMAIN nodes[t] |-> Segment(t, k)]
Elements(t) == FlattenSeq(Segments(t))

\* The loop of reverse(): nodes from the last to the first, each reversed.
ReversedElements(t) ==
  FlattenSeq([k \in DOMAIN nodes[t] |->
                Reverse(Segment(t, Len(nodes[t]) + 1 - k))])

ReverseTrace(t) ==
  LET n == NewNode({}) IN
  /\ Live(t) /\ Unused # {}
  /\ Store([nodes EXCEPT ![t] = <<n>>], [data EXCEPT ![n] = ReversedElements(t)])
  /\ UNCHANGED size

-----------------------------------------------------------------------------
(* Access by index, and the iterators.  A position is <<k, i>>: element i of *)
(* the trace's node k.                                                       *)

\* How many elements the nodes before node k have.
Before(t, k) == Len(FlattenSeq(SubSeq(Segments(t), 1, k - 1)))

\* Mutant of Locate: "<=" for "<".
LocateLate(t, idx) ==
  LET k == Min({k \in DOMAIN nodes[t] : Segment(t, k) # <<>> /\ idx <= Before(t, k + 1)})
  IN <<k, IF idx = Before(t, k) THEN 1 ELSE idx - Before(t, k)>>

\* The loop of getElementAt and getMutableElementPtr, which takes the nodes' sizes
\* from idx up to the first node that is larger than what is left; idx counts from 0.
Locate(t, idx) ==
  LET k == Min({k \in DOMAIN nodes[t] : idx < Before(t, k + 1)})
  IN <<k, idx - Before(t, k) + 1>>

GetElementAt(t, idx) ==
  LET p == Locate(t, idx) IN Segment(t, p[1])[p[2]]

\* Mutant: the reference count is not looked at.
MutableAlways(t, idx) == TRUE

\* getMutableElementPtr(idx) # NULL: this is the only reference to the node.
Mutable(t, idx) == OnlyRef(t, Locate(t, idx)[1])

\* A write through getMutableElementPtr, as HBGraph::getMutableNode's callers do.
Write(t, idx, x) ==
  LET p == Locate(t, idx) IN
  /\ Live(t) /\ idx < size[t] /\ Mutable(t, idx)
  /\ Store(nodes, [data EXCEPT ![nodes[t][p[1]]][p[2]] = x])
  /\ UNCHANGED size

End(t) == <<Len(nodes[t]) + 1, 0>>

SkipForwardOverEmptyNodes(t, k) ==
  LET full == {m \in k .. Len(nodes[t]) : Segment(t, m) # <<>>} IN
  IF full = {} THEN End(t) ELSE <<Min(full), 1>>

Begin(t) == SkipForwardOverEmptyNodes(t, 1)

SkipBackwardOverEmptyNodes(t, k) ==
  LET full == {m \in 1 .. k : Segment(t, m) # <<>>} IN
  IF full = {} THEN SkipForwardOverEmptyNodes(t, 1)
  ELSE <<Max(full), Len(Segment(t, Max(full)))>>

\* operator++ of the iterator
Increment(t, p) ==
  IF p[2] < Len(Segment(t, p[1])) THEN <<p[1], p[2] + 1>>
  ELSE SkipForwardOverEmptyNodes(t, p[1] + 1)

\* operator-- of the iterator
Decrement(t, p) ==
  IF p = End(t) \/ p[2] = 1 THEN SkipBackwardOverEmptyNodes(t, p[1] - 1)
  ELSE <<p[1], p[2] - 1>>

\* The mutable reference back(): the element before end().
BackPosition(t) == Decrement(t, End(t))

\* Mutant: the last element may be shared.
BackIsOwnAlways(t) == TRUE

\* Has the last element been pushed since the last fork?
BackIsOwn(t) == data[Back(t)] # <<>>

\* A write through back(): PrecondSliceTrace merges a control transfer into the
\* assertion pushed last, and attaches conditions to it.  back() does not look
\* at refCount; its callers write only to an entry pushed since the last fork.
WriteBack(t, x) ==
  LET p == BackPosition(t) IN
  /\ Live(t) /\ size[t] > 0 /\ BackIsOwn(t)
  /\ Store(nodes, [data EXCEPT ![nodes[t][p[1]]][p[2]] = x])
  /\ UNCHANGED size

-----------------------------------------------------------------------------
Next ==
  \E t \in Trace :
    \/ Clear(t)
    \/ Destroy(t)
    \/ ReverseTrace(t)
    \/ \E u \in Trace : Fork(t, u) \/ Swap(t, u)
    \/ \E x \in Elem : PushBack(t, x) \/ WriteBack(t, x)
    \/ \E x \in Elem, idx \in 0 .. MaxSize - 1 : Write(t, idx, x)

Spec == Init /\ [][Next]_vars

-----------------------------------------------------------------------------
\* Every way to read a live trace agrees: getElementAt(i), the i-th step of an
\* iterator from begin(), and the way back from end(), which visits the same
\* positions; after size() steps the iterator is at end().
AccessesAgree ==
  \A t \in Trace :
    LET forward[i \in 0 .. size[t]] ==
          IF i = 0 THEN Begin(t) ELSE Increment(t, forward[i - 1])
    IN Live(t) =>
         /\ forward[size[t]] = End(t)
         /\ \A i \in 0 .. size[t] - 1 :
              /\ forward[i] = Locate(t, i)
              /\ Decrement(t, forward[i + 1]) = forward[i]
              /\ GetElementAt(t, i) = Elements(t)[i + 1]

\* The tail, which push_back writes without looking at refCount, belongs to one
\* trace and to one place in it.
TailPrivate == \A t \in Trace : Live(t) => OnlyRef(t, Len(nodes[t]))

\* Do two traces hold node n?
Shared(n) ==
  \E t, u \in Trace : t # u /\ n \in Range(nodes[t]) /\ n \in Range(nodes[u])

\* No operation changes a node that two traces share (push_back, reverse,
\* getMutableElementPtr's test of refCount, the deletion of nodes).
SharedFrozen == [][\A n \in NodeId : Shared(n) => data'[n] = data[n]]_vars
=============================================================================
