-------------------------- MODULE MCInputCovering --------------------------
(***************************************************************************)
(* Programs for the search: for every region, its decision tree as a table   *)
(* of paths, with the conditions of their slices and their HB nodes.         *)
(***************************************************************************)
EXTENDS InputCovering

MCVar == {"a", "b", "c", "x"}
MCInput == SUBSET MCVar

Is(v)  == {i \in MCInput : v \in i}
Not(v) == {i \in MCInput : v \notin i}

\* A branch of a switch and a two-way branch, and a branch after a bounds check or
\* after the choice of what a pointer points to.
Switch(taken, rest, n) == [cond |-> taken, flips |-> rest, node |-> n, kept |-> {}, dropped |-> {}]
If(c, n) == Switch({c}, {MCInput \ c}, n)
Checked(c, b) == [b EXCEPT !.kept = {{c}}]
Aliased(c, b) == [b EXCEPT !.dropped = {{c}}]

Op(t, op)   == [thread |-> t, op |-> op]
Read(t, v)  == Op(t, v)

AB   == Is("a") \cap Is("b")
AnB  == Is("a") \cap Not("b")

\* name -> region, the inputs that follow it, slice, HB nodes, target, failure
Row(r, inputs, slice, graph, to, fails) ==
  [region |-> r, inputs |-> inputs, slice |-> slice, graph |-> graph, to |-> to, fails |-> fails]

Program ==
  \* x = read(); if (x) ...
  [start_x |-> Row("start", Is("x"), <<If(Is("x"), 1)>>, <<Read(1, "x"), Op(1, "m")>>, {"nested"}, FALSE),
   start_n |-> Row("start", Not("x"), <<If(Not("x"), 1)>>, <<Read(1, "x"), Op(1, "s")>>, {"switch"}, FALSE),
  \* if (a) { v[..]; if (b) {lock; if (a && c) ...} } ; a path back to here; the access
  \* is in bounds if b
   nested_abc |-> Row("nested", AB \cap Is("c"),
                    <<If(Is("a"), 0), Checked(Is("b"), If(Is("b"), 0)), If(Is("a"), 1), If(Is("c"), 1)>>,
                    <<Op(1, "lock"), Op(2, "lock")>>, {}, FALSE),
   nested_abn |-> Row("nested", AB \cap Not("c"),
                    <<If(Is("a"), 0), Checked(Is("b"), If(Is("b"), 0)), If(Is("a"), 1), If(Not("c"), 1)>>,
                    <<Op(1, "lock"), Op(1, "unlock")>>, {"reads"}, FALSE),
   nested_an |-> Row("nested", AnB, <<If(Is("a"), 0)>>, <<>>, {}, TRUE),
   nested_n |-> Row("nested", Not("a"), <<If(Not("a"), 0)>>, <<>>, {"nested"}, FALSE),
  \* switch: one target follows a pointer, synchronizes and reads, two others are the
  \* same to the schedule
   switch_x |-> Row("switch", AB \cap Is("c") \cap Is("x"),
                  <<Switch({AB}, {AnB, Not("a")}, 0), Aliased(Is("c"), If(Is("x"), 2))>>,
                  <<Op(1, "lock"), Read(2, "x"), Op(1, "wait")>>, {"nested"}, FALSE),
   switch_n |-> Row("switch", AB \cap Is("c") \cap Not("x"),
                  <<Switch({AB}, {AnB, Not("a")}, 0), Aliased(Is("c"), If(Not("x"), 2))>>,
                  <<Op(1, "lock"), Read(2, "x")>>, {}, FALSE),
   switch_bad |-> Row("switch", AB \cap Not("c"), <<Switch({AB}, {AnB, Not("a")}, 0)>>,
                    <<Op(1, "lock")>>, {}, TRUE),
   switch_other |-> Row("switch", MCInput \ AB,
                      <<Switch({AnB, Not("a")}, {AB}, 0)>>, <<Op(1, "unlock")>>, {"reads"}, FALSE),
  \* two inputs of one thread, both read before the branches on them; if (a) *null
   reads_xc |-> Row("reads", Is("x") \cap Is("c"), <<If(Is("c"), 2), If(Is("x"), 3)>>,
                  <<Read(1, "x"), Read(1, "c"), Op(2, "lock")>>, {}, FALSE),
   reads_nc |-> Row("reads", Not("x") \cap Is("c"), <<If(Is("c"), 2), If(Not("x"), 3)>>,
                  <<Read(1, "x"), Read(1, "c"), Op(2, "lock"), Op(2, "unlock")>>, {}, FALSE),
   reads_n |-> Row("reads", Not("c") \cap Not("a"), <<If(Not("c"), 2), If(Not("a"), 2)>>,
                 <<Read(1, "x"), Read(1, "c"), Op(1, "lock")>>, {"start"}, FALSE),
   reads_null |-> Row("reads", Not("c") \cap Is("a"), <<If(Not("c"), 2), If(Is("a"), 2)>>,
                    <<Read(1, "x"), Read(1, "c")>>, {}, TRUE),
  \* if (a) x = 1; if (b && x) lock(): the first branch matters to the second only
   entry_sliced |-> Row("entry_sliced", MCInput, <<>>, <<Op(1, "begin")>>, {"sliced"}, FALSE),
   sliced_ab |-> Row("sliced", AB, <<If(Is("a"), 0), If(Is("b"), 0)>>, <<Op(1, "lock")>>, {}, FALSE),
   sliced_nb |-> Row("sliced", Is("b") \cap Not("a"), <<If(Not("a"), 0), If(Is("b"), 0)>>, <<>>, {}, FALSE),
   sliced_n |-> Row("sliced", Not("b"), <<If(Not("b"), 0)>>, <<>>, {}, FALSE),
  \* if (a) { v[..]; if (c) ...; else if (x) ... }, where the bounds check implies a
   entry_carried |-> Row("entry_carried", MCInput, <<>>, <<Op(1, "begin")>>, {"carried"}, FALSE),
   carried_c |-> Row("carried", AB \cap Is("c"), <<If(Is("a"), 0), Checked(AB, If(Is("c"), 0))>>,
                   <<Op(1, "lock")>>, {}, FALSE),
   carried_x |-> Row("carried", AB \cap Not("c") \cap Is("x"),
                   <<If(Is("a"), 0), Checked(AB, If(Not("c"), 0)), If(Is("x"), 0)>>,
                   <<Op(1, "unlock")>>, {}, FALSE),
   carried_n |-> Row("carried", AB \cap Not("c") \cap Not("x"),
                   <<If(Is("a"), 0), Checked(AB, If(Not("c"), 0)), If(Not("x"), 0)>>,
                   <<Op(2, "lock")>>, {}, FALSE),
   carried_bad |-> Row("carried", AnB, <<If(Is("a"), 0)>>, <<>>, {}, TRUE),
   carried_no |-> Row("carried", Not("a"), <<If(Not("a"), 0)>>, <<>>, {}, FALSE),
  \* if (a) { if (c) ...; else if (b) {x = read(); if (x) ...} else ... }
   entry_partial |-> Row("entry_partial", MCInput, <<>>, <<Op(1, "begin")>>, {"partial"}, FALSE),
   partial_ac |-> Row("partial", Is("a") \cap Is("c"), <<If(Is("a"), 0), If(Is("c"), 0)>>,
                    <<Op(1, "lock")>>, {}, FALSE),
   partial_x |-> Row("partial", AB \cap Not("c") \cap Is("x"),
                   <<If(Is("a"), 0), If(Not("c"), 0), If(Is("b"), 0), If(Is("x"), 1)>>,
                   <<Read(1, "x"), Op(1, "lock")>>, {}, FALSE),
   partial_n |-> Row("partial", AB \cap Not("c") \cap Not("x"),
                   <<If(Is("a"), 0), If(Not("c"), 0), If(Is("b"), 0), If(Not("x"), 1)>>,
                   <<Read(1, "x"), Op(1, "unlock")>>, {}, FALSE),
   partial_an |-> Row("partial", AnB \cap Not("c"),
                    <<If(Is("a"), 0), If(Not("c"), 0), If(Not("b"), 0)>>, <<Op(2, "lock")>>, {}, FALSE),
   partial_no |-> Row("partial", Not("a"), <<If(Not("a"), 0)>>, <<>>, {}, FALSE)]

MCPath == DOMAIN Program
MCSlice == [p \in MCPath |-> Program[p].slice]
MCGraph == [p \in MCPath |-> Program[p].graph]
MCTarget == [p \in MCPath |-> Program[p].to]
MCFails == {p \in MCPath : Program[p].fails}
MCRegion == {Program[p].region : p \in MCPath}
MCPathOf ==
  [r \in MCRegion |-> [i \in MCInput |->
     CHOOSE p \in MCPath : Program[p].region = r /\ i \in Program[p].inputs]]

\* The tables are programs: every input follows one path.
ASSUME ProgramsDeterministic ==
  \A r \in MCRegion : \A i \in MCInput :
    Cardinality({q \in MCPath : Program[q].region = r /\ i \in Program[q].inputs}) = 1
=============================================================================
