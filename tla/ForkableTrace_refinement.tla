---------------------- MODULE ForkableTrace_refinement ----------------------
(* ForkableTrace implements ForkedSequences. *)
EXTENDS ForkableTrace

\* What the traces hold, as plain sequences.
Plain == INSTANCE ForkedSequences WITH
           value <- [t \in Trace |-> IF Live(t) THEN Elements(t) ELSE None]

\* Forking, sharing and segmenting cannot be seen: under every sequence of
\* operations the traces behave as sequences of their own, a fork starting as
\* a copy (the copy constructor, push_back, reverse, swap and both ways to
\* write an element).
BehavesAsSequences == Plain!Spec
=============================================================================
