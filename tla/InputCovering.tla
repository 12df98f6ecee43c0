--------------------------- MODULE InputCovering ---------------------------
(***************************************************************************)
(* The search and the schedule trees together: when the search is over, the  *)
(* instrumentor builds a tree for every region from the schedules found for  *)
(* it, and the selectors compiled from the tree choose the schedule that a   *)
(* run of the program follows.                                              *)
(***************************************************************************)
EXTENDS DepthFirstICS

CONSTANTS Var, Graph

INSTANCE ScheduleTree

ASSUME TreeAssumption ==
  /\ Input = SUBSET Var
  /\ DOMAIN Graph = Path
  /\ \A p \in Path : \A k \in DOMAIN Slice[p] : Slice[p][k].node <= Len(Graph[p])

\* _usedArrays: what the constraints of some schedule depend on.
Used ==
  LET constraints == UNION {{Conditions(schedules[r][n]) : n \in DOMAIN schedules[r]} :
                              r \in completed}
  IN UNION {Depends(c) : c \in UNION constraints}

Tree(r) == BuildScheduleTree(schedules[r], Used)
-----------------------------------------------------------------------------
\* A schedule that the selectors reach is one for the current input: its
\* constraint holds, whatever was shared, split or cut on the way.  And there is
\* one only: addEdge has not met equal constraints with unequal fragments, on
\* which it ends with assert(0).
SelectedCovers ==
  phase = "done" =>
    \A r \in completed :
      LET tree == Tree(r) IN
      /\ \A e \in EdgesBelow(tree, {}) : Cardinality(e[1].frag) <= 1
      /\ \A i \in Input : \A f \in Follow(tree, i) :
           \E n \in DOMAIN schedules[r] : schedules[r][n].path = f.path /\ Covers(schedules[r][n], i)

\* The regions where the search is complete and no input is read on the way.
OneFragment(r) ==
  SlicesAgree(r) /\ \A n \in DOMAIN schedules[r] : InputNodes(schedules[r][n].path, Used) = <<>>

Selects(r) == LET tree == Tree(r) IN \A i \in Good(r) : Follow(tree, i) # {}

\* There the selector of the region finds a schedule for every input.
OneFragmentSelects ==
  phase = "done" => \A r \in completed : OneFragment(r) => Selects(r)

\* It does so in every region: "Select an edge \in node s.t. the current input
\* matches edge->getSummary()".
EveryInputSelects ==
  phase = "done" => \A r \in completed : SlicesAgree(r) => Selects(r)

\* The inputs that a region's paths read, and the threads that read them.
InputsRead(r) ==
  UNION {{Graph[schedules[r][n].path][k] : k \in Range(InputNodes(schedules[r][n].path, Used))} :
           n \in DOMAIN schedules[r]}

\* Where one thread reads all inputs, a selector only evaluates inputs that the
\* fragments before it have read ("Should use ONLY those inputs that have been
\* defined!").
InputsDefined ==
  phase = "done" =>
    \A r \in completed :
      Cardinality({n.thread : n \in InputsRead(r)}) <= 1 =>
        \A e \in EdgesBelow(Tree(r), {}) : \A k \in DOMAIN e[1].terms :
          Depends(e[1].terms[k]) \cap {n.op : n \in InputsRead(r)} \subseteq e[2]
=============================================================================
