---------------------------- MODULE ScheduleTree ----------------------------
(***************************************************************************)
(* Schedule trees (cloud9/lib/ICS/Instrumentor.cpp): the schedules that the  *)
(* search has found for a region are cut into fragments at the inputs they   *)
(* read, merged into a tree, and the tree is compiled into the functions     *)
(* that select the next fragment at run time.                               *)
(*                                                                         *)
(* An input is the set of the variables that are true in it.  A node is the  *)
(* sequence of its edges [terms, frag, next]; frag is the set of the edge's  *)
(* fragment, empty on a partial edge.                                       *)
(***************************************************************************)
EXTENDS Integers, SequencesExt

CONSTANTS
  Input, Var,
  Target,  \* path -> {the region it ends in}, {} if it exits
  Graph    \* path -> its HB nodes [thread, op], op the variable it reads, if any

\* The variables a condition depends on.
Toggle(i, v) == IF v \in i THEN i \ {v} ELSE i \cup {v}
Depends(cond) ==
  {v \in Var : \E i \in Input : i \in UNION cond /\ Toggle(i, v) \notin UNION cond}

\* EnumerateUsedInputsInHbGraph: the nodes of a path that read a used input.
InputNodes(p, used) ==
  SelectSeq([n \in DOMAIN Graph[p] |-> n], LAMBDA n : Graph[p][n].op \in used)
-----------------------------------------------------------------------------
(* BuildScheduleTree, one schedule: its fragments, each with its constraint.  *)

True == {Input}
OrTrue(terms) == IF terms = <<>> THEN <<True>> ELSE terms

Fragment(p, first, last, exits) ==
  [path |-> p, first |-> first, last |-> last, exits |-> exits]

TakenOne(p, inputs, node) == IF inputs # <<>> /\ inputs[1] <= node THEN 1 ELSE 0

\* How many of the next inputs, read by one thread before a branch, are merged
\* into the fragment that ends before the branch.
Taken(p, inputs, node) ==
  Max({0} \cup {k \in DOMAIN inputs :
                  \A m \in 1 .. k : /\ inputs[m] <= node
                                    /\ Graph[p][inputs[m]].thread = Graph[p][inputs[1]].thread})

\* ConstraintManager puts the newest condition first; ReverseConjunction undoes
\* that in the last fragment only.
RECURSIVE Pieces(_, _, _, _, _)
Pieces(p, list, inputs, terms, first) ==
  IF list = <<>>
  THEN << [terms |-> OrTrue(terms),
           frag |-> Fragment(p, first, Len(Graph[p]), Target[p] = {})] >>
  ELSE LET k == Taken(p, inputs, Head(list).node) IN
       IF k = 0
       THEN Pieces(p, Tail(list), inputs, Append(terms, Head(list).cond), first)
       ELSE << [terms |-> OrTrue(Reverse(terms)), frag |-> Fragment(p, first, inputs[k], FALSE)] >>
            \o Pieces(p, Tail(list), SubSeq(inputs, k + 1, Len(inputs)), <<Head(list).cond>>,
                      inputs[k] + 1)
-----------------------------------------------------------------------------
(* ScheduleTreeNode.                                                         *)

Edge(terms, frag, next) == [terms |-> terms, frag |-> frag, next |-> next]

\* The thread that evaluates the selector after a fragment.
Leader(f) == IF Graph[f.path] = <<>> THEN {} ELSE {Graph[f.path][f.last].thread}

SameFragment(f, g) ==
  /\ f.exits = g.exits /\ Leader(f) = Leader(g)
  /\ SubSeq(Graph[f.path], f.first, f.last) = SubSeq(Graph[g.path], g.first, g.last)

SharedLength(s, t) == Min({Len(s), Len(t)})

\* The number of leading terms that two lists share.  (The loop compares up to
\* the end of the edge's terms; past the end of the new ones nothing is equal.)
Shared(s, t) ==
  Max({0} \cup {k \in DOMAIN s \cap DOMAIN t : \A m \in 1 .. k : s[m] = t[m]})

RestOffByOne(terms, k) == OrTrue(SubSeq(terms, k + 2, Len(terms)))

Rest(terms, k) == OrTrue(SubSeq(terms, k + 1, Len(terms)))

\* addEdge, for the first of some pieces, and for the others in the node it
\* returns.  The assertion that equal constraints have equal fragments fails
\* where an edge ends up with two.
RECURSIVE AddEdges(_, _)
AddEdges(edges, pieces) ==
  IF pieces = <<>> THEN edges
  ELSE
    LET new == Head(pieces)
        same == {k \in DOMAIN edges : edges[k].terms[1] = new.terms[1]}
    IN IF same = {}
       THEN Append(edges, Edge(new.terms, {new.frag}, AddEdges(<<>>, Tail(pieces))))
       ELSE
         LET k == Min(same)
             found == edges[k]
             n == Shared(found.terms, new.terms)
             into ==
               IF n = Len(new.terms) /\ n = Len(found.terms) /\ found.frag # {}
               THEN [found EXCEPT
                       !.frag = IF \E f \in @ : SameFragment(f, new.frag) THEN @ ELSE @ \cup {new.frag},
                       !.next = AddEdges(@, Tail(pieces))]
               ELSE IF n = Len(found.terms) /\ found.frag = {}
               THEN [found EXCEPT
                       !.next = AddEdges(@, << [new EXCEPT !.terms = Rest(@, n)] >> \o Tail(pieces))]
               ELSE Edge(SubSeq(found.terms, 1, n), {},
                         << Edge(Rest(new.terms, n), {new.frag}, AddEdges(<<>>, Tail(pieces))),
                            Edge(Rest(found.terms, n), found.frag, found.next) >>)
         IN [edges EXCEPT ![k] = into]

BuildScheduleTree(scheds, used) ==
  FoldLeft(LAMBDA tree, s :
             AddEdges(tree, Pieces(s.path, s.list, InputNodes(s.path, used), <<>>, 1)),
           <<>>, scheds)
-----------------------------------------------------------------------------
(* BuildScheduleSelector: the function compiled from a node tries the edges in *)
(* order.  Inside a partial edge, failure is failure of the whole function.    *)

Matches(edge, i) == \A k \in DOMAIN edge.terms : i \in UNION edge.terms[k]

FirstMatch(edges, i) == Min({k \in DOMAIN edges : Matches(edges[k], i)})

\* The edge of the selected fragment; none if the function panics.
RECURSIVE Select(_, _)
Select(edges, i) ==
  IF \A k \in DOMAIN edges : ~Matches(edges[k], i) THEN {}
  ELSE LET e == edges[FirstMatch(edges, i)] IN
       IF e.frag # {} THEN {e} ELSE Select(e.next, i)

\* The last fragment that a run on input i reaches, selector by selector.
RECURSIVE Follow(_, _)
Follow(edges, i) ==
  UNION {IF e.next = <<>> THEN e.frag ELSE Follow(e.next, i) : e \in Select(edges, i)}

\* All edges of a tree, each with the variables read by the fragments above it.
RECURSIVE EdgesBelow(_, _)
EdgesBelow(edges, read) ==
  UNION {{<<edges[k], read>>}
         \cup EdgesBelow(edges[k].next,
                         read \cup UNION {{Graph[f.path][n].op : n \in f.first .. f.last} :
                                          f \in edges[k].frag}) : k \in DOMAIN edges}
=============================================================================
