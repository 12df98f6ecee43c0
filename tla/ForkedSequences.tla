-------------------------- MODULE ForkedSequences --------------------------
(***************************************************************************)
(* What ForkableTrace promises: every trace is a sequence of its own.  A    *)
(* fork starts as a copy; afterwards an operation on one trace never shows  *)
(* in another.                                                              *)
(***************************************************************************)
EXTENDS Integers, Sequences

CONSTANTS Trace, Elem, None, MaxSize

VARIABLE value  \* trace -> its elements, None where there is no trace

Init == value = [t \in Trace |-> None]

Becomes(t, s) == value' = [value EXCEPT ![t] = s]

Backwards(v) == [i \in 1 .. Len(v) |-> v[Len(v) + 1 - i]]

\* What an operation on one trace may make of its elements v: a new trace is empty;
\* another is destroyed, cleared, reversed, extended at the end or written to.
Results(v) ==
  IF v = None THEN {<<>>}
  ELSE {None, <<>>, Backwards(v)}
       \cup {Append(v, x) : x \in {y \in Elem : Len(v) < MaxSize}}
       \cup {[v EXCEPT ![i] = x] : i \in DOMAIN v, x \in Elem}

Fork(t, u) == value[t] # None /\ value[u] = None /\ Becomes(u, value[t])
Swap(t, u) ==
  /\ value[t] # None /\ value[u] # None
  /\ value' = [value EXCEPT ![t] = value[u], ![u] = value[t]]

Next ==
  \E t \in Trace :
    \/ \E s \in Results(value[t]) : Becomes(t, s)
    \/ \E u \in Trace : Fork(t, u) \/ Swap(t, u)

Spec == Init /\ [][Next]_value
=============================================================================
