------------------------- MODULE MCConstrainedExec -------------------------
(***************************************************************************)
(* Schedule tables for ConstrainedExec, as the instrumentor could emit them *)
(* for small programs.  Region r is entered through selector r; selectors   *)
(* above 10 choose between the fragments that follow an input.              *)
(***************************************************************************)
EXTENDS ConstrainedExec

\* HB nodes: an operation, the operand of a thread operation, and the edges
\* <<thread, timestamp>> coming in from other threads.
Do(op) == [op |-> op, arg |-> NoThread, in |-> {}]
On(op, u) == [Do(op) EXCEPT !.arg = u]
From(node, edges) == [node EXCEPT !.in = edges]

\* A fragment: rows[t + 1] is the schedule of thread t.
Frag(rows) ==
  [numThreads |-> Len(rows), leader |-> 0, selector |-> 0, next |-> 0, exits |-> FALSE,
   nodes |-> [t \in 0 .. Len(rows) - 1 |-> rows[t + 1]],
   tail |-> [t \in Thread |-> "op"]]
Until(rows, leader, selector) ==
  [Frag(rows) EXCEPT !.leader = leader, !.selector = selector]
Ending(rows, next) == [Frag(rows) EXCEPT !.next = next]
Exiting(rows) ==
  [Frag(rows) EXCEPT !.exits = TRUE, !.tail = [t \in Thread |-> IF t = 0 THEN "exit" ELSE "none"]]
-----------------------------------------------------------------------------
(* A program whose first input chooses between a run of two threads, which     *)
(* creates, sleeps, wakes, meets at a barrier, reads inputs and ends by joining *)
(* or by detaching and joining all, and a run of three threads whose region 5   *)
(* has three levels of fragments.                                              *)
MainSched ==
  << \* region 0: thread 0 reads an input, then creates thread 1 ...
     Until(<< <<Do("sync"), Do("input")>>, <<>>, <<>> >>, 0, 11),
     \* ... 2: both reach a region marker
     Ending(<< <<On("create", 1), Do("spawn"), Do("marker")>>,
               <<From(Do("sync"), {<<0, 4>>}), Do("marker")>> >>, 1),
     \* ... 3: or thread 1 goes to sleep
     Ending(<< <<On("create", 1), Do("spawn"), Do("marker")>>,
               <<From(Do("sync"), {<<0, 4>>}), Do("block")>> >>, 2),
     \* region 1: thread 1 reads the input
     Until(<< <<Do("sync")>>, <<Do("skip"), From(Do("input"), {<<0, 1>>})>> >>, 1, 12),
     \* ... 5: join
     Exiting(<< <<On("join", 1), From(On("joined", 1), {<<1, 3>>})>>,
                <<From(Do("exit"), {<<0, 2>>})>> >>),
     \* ... 6: detach and join all
     Exiting(<< <<On("detach", 1), Do("joinall"), From(Do("joinall"), {<<1, 3>>})>>,
                <<From(Do("exit"), {<<0, 3>>})>> >>),
     \* region 2: thread 1 sleeps; thread 0 reads an input ...
     Until(<< <<Do("input")>> >>, 0, 13),
     \* ... 8: and thread 1 sleeps on
     Ending(<< <<Do("marker")>> >>, 3),
     \* ... 9: or is woken
     Ending(<< <<Do("skip"), Do("sync"), Do("marker")>>,
               <<From(Do("sync"), {<<0, 3>>}), Do("skip"), Do("marker")>> >>, 1),
     \* region 3: thread 1 is woken and both meet at a pthread barrier
     Ending(<< <<Do("sync"), Do("marker"), Do("block"), From(Do("pbarrier"), {<<1, 2>>})>>,
               <<From(Do("sync"), {<<0, 1>>}), From(Do("pbarrier"), {<<0, 3>>})>> >>, 1),
     \* region 1, 11: join all from one region into the next (12), and go on
     Ending(<< <<On("detach", 1), Do("joinall")>>, <<Do("marker")>> >>, 4),
     Exiting(<< <<Do("joinall"), Do("sync")>>, <<From(Do("exit"), {<<0, 1>>})>> >>),
     \* region 0, 13: or creates threads 1 and 2
     Ending(<< <<On("create", 1), Do("spawn"), On("create", 2), Do("spawn"), Do("marker")>>,
               <<From(Do("sync"), {<<0, 4>>}), From(Do("sync"), {<<2, 1>>}), Do("skip"), Do("marker")>>,
               <<From(Do("sync"), {<<0, 6>>}), Do("marker")>> >>, 5),
     \* region 5: inputs of thread 1, then of thread 0
     Until(<< <<Do("sync")>>, <<From(Do("sync"), {<<0, 1>>}), Do("input")>>,
              <<From(Do("sync"), {<<1, 1>>})>> >>, 1, 14),
     Until(<< <<From(Do("sync"), {<<2, 2>>}), Do("input")>>, <<Do("sync")>>,
              <<From(Do("sync"), {<<1, 3>>})>> >>, 0, 15),
     Ending(<< <<Do("marker")>>, <<Do("marker")>>, <<From(Do("sync"), {<<1, 2>>}), Do("block")>> >>, 6),
     Ending(<< <<Do("marker")>>, <<Do("marker")>>, <<From(Do("marker"), {<<0, 3>>})>> >>, 7),
     \* region 6: thread 1 wakes thread 2
     Ending(<< <<Do("marker")>>, <<Do("sync"), Do("marker")>>,
               <<From(Do("sync"), {<<1, 1>>}), Do("marker")>> >>, 7),
     \* region 7: everyone exits
     Exiting(<< <<On("join", 2), From(On("joined", 2), {<<2, 1>>}),
                  From(On("join", 1), {<<1, 1>>}), From(On("joined", 1), {<<1, 1>>})>>,
                <<From(Do("exit"), {<<2, 1>>})>>, <<From(Do("exit"), {<<0, 1>>})>> >>) >>

MainLevel == <<0, 1, 1, 0, 1, 1, 0, 1, 1, 0, 1, 0, 1, 0, 1, 1, 2, 0, 0>>
MainSelectors == [s \in 0 .. 7 \cup 11 .. 15 |->
                    CASE s = 0 -> {} [] s = 1 -> {4} [] s = 2 -> {7} [] s = 3 -> {10} [] s = 4 -> {12}
                      [] s = 5 -> {14} [] s = 6 -> {18} [] s = 7 -> {19}
                      [] s = 11 -> {2, 3, 13} [] s = 12 -> {5, 6, 11} [] s = 13 -> {8, 9}
                      [] s = 14 -> {15, 16} [] s = 15 -> {17}]
MainRegions == [r \in 1 .. 7 |-> IF r < 5 THEN {0, 1} ELSE {0, 1, 2}]
-----------------------------------------------------------------------------
(* Corner cases: the first input chooses which one is played.                 *)
CornerSched ==
  << Until(<< <<Do("sync"), Do("input")>>, <<>>, <<>> >>, 0, 11),
     \* 2: thread 1 exits while thread 0 goes to the region barrier
     Ending(<< <<On("create", 1), Do("spawn"), Do("marker")>>,
               <<From(Do("sync"), {<<0, 4>>}), Do("exit")>> >>, 1),
     Exiting(<< <<Do("sync")>> >>),
     \* 4: an ignored input follows a node that thread 1 waits for; in 5 the
     \* program exits while thread 1 is about to call an operation
     Ending(<< <<On("create", 1), Do("spawn"), Do("sync"), Do("skip"), Do("marker")>>,
               <<From(Do("sync"), {<<0, 4>>}), From(Do("sync"), {<<0, 5>>}), Do("marker")>> >>, 2),
     [Exiting(<< <<Do("sync")>>, <<Do("sync")>> >>) EXCEPT !.tail[1] = "op"],
     \* 6, 7: thread 1 exits before thread 0 reads an input
     Until(<< <<On("create", 1), Do("spawn"), Do("input")>>,
              <<From(Do("sync"), {<<0, 4>>}), Do("exit")>> >>, 0, 12),
     Ending(<< <<Do("marker")>>, <<>> >>, 1),
     \* 8, 9: thread 1 falls asleep before thread 0 reads an input
     Until(<< <<On("create", 1), Do("spawn"), Do("input")>>,
              <<From(Do("sync"), {<<0, 4>>}), Do("block")>> >>, 0, 13),
     Ending(<< <<Do("marker")>>, <<>> >>, 2),
     \* 10: thread 1 falls asleep, and sleeps through the next region (11)
     Ending(<< <<On("create", 1), Do("spawn"), Do("marker")>>,
               <<From(Do("sync"), {<<0, 4>>}), Do("block")>> >>, 3),
     Ending(<< <<Do("marker")>> >>, 3),
     \* 12: or is woken and falls asleep again while the program exits
     Exiting(<< <<Do("sync"), Do("sync")>>, <<From(Do("sync"), {<<0, 1>>}), Do("block")>> >>),
     \* 13: threads 0 and 2 remain, and thread 0 reads an input in the next region
     Ending(<< <<On("create", 1), Do("spawn"), On("create", 2), Do("spawn"), Do("marker")>>,
               <<From(Do("sync"), {<<0, 4>>}), Do("exit")>>,
               <<From(Do("sync"), {<<0, 6>>}), Do("marker")>> >>, 4),
     Until(<< <<Do("input")>>, <<>>, <<>> >>, 0, 14),
     Exiting(<< <<Do("sync")>>, <<>>, <<Do("sync")>> >>),
     \* 16: thread 1 is joined and its slot used again in the next region, until
     \* there are no slots left
     Ending(<< <<On("create", 1), Do("spawn"), On("join", 1), From(On("joined", 1), {<<1, 2>>}), Do("marker")>>,
               <<From(Do("sync"), {<<0, 4>>}), From(Do("exit"), {<<0, 5>>})>> >>, 5),
     Exiting(<< <<On("create", 1), Do("spawn"), On("create", 2), Do("spawn"), On("create", NoThread),
                  On("join", NoThread), On("join", 0)>>,
                <<From(Do("sync"), {<<0, 2>>})>>, <<From(Do("sync"), {<<0, 4>>})>> >>) >>

CornerLevel == <<0, 1, 0, 1, 0, 1, 2, 1, 2, 1, 0, 0, 1, 0, 1, 1, 0>>
CornerSelectors == [s \in {0, 1, 2, 3, 4, 5, 11, 12, 13, 14} |->
                      CASE s = 0 -> {} [] s = 1 -> {3} [] s = 2 -> {5} [] s = 3 -> {11, 12} [] s = 4 -> {14} [] s = 5 -> {17}
                        [] s = 11 -> {2, 4, 6, 8, 10, 13, 16} [] s = 12 -> {7} [] s = 13 -> {9} [] s = 14 -> {15}]
CornerRegions == [r \in 1 .. 5 |-> CASE r \in {1, 5} -> {0} [] r \in {2, 3} -> {0, 1} [] r = 4 -> {0, 2}]
=============================================================================
