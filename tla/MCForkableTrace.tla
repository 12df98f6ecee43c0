-------------------------- MODULE MCForkableTrace --------------------------
(* ForkableTrace on few traces, elements and nodes. *)
EXTENDS ForkableTrace_refinement, FiniteSets, TLC

Symmetry == Permutations(Trace) \cup Permutations(Elem)

\* Enough for every trace to have MaxSize + 1 nodes and for a fork to make two.
MCNodeId == 1 .. Cardinality(Trace) * (MaxSize + 1) + 2
=============================================================================
