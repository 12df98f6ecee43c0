------------------------ MODULE ConstrainedExec_inv -------------------------
(***************************************************************************)
(* The inductive invariant of the runtime scheduler, facts about counting  *)
(* threads, and four of its parts: every step keeps the types, the places  *)
(* of the threads in the code, the counters of the region barrier and the  *)
(* ownership of thread slots.                                              *)
(***************************************************************************)
EXTENDS ConstrainedExec, FiniteSetTheorems, TLAPS

\* Places in the code from which the barrier or fragment code is entered.
Callers == {"start", "idle", "asleep", "must", "spawn", "read", "marked", "skipbar",
            "joinbody", "joinwait"}

\* Where the two program counters of a thread can be together, and what a thread
\* knows about the ticker and about its own position.
PlaceInv ==
  \A t \in Thread :
    /\ sub[t] # "none" => pc[t] \in Callers
    /\ oldticker[t] <= ticker
    /\ sub[t] = "arrive" => oldticker[t] = ticker
    /\ pc[t] \in {"op", "uncounted", "exiting"} => cur[t] < ptr[t]

\* The fragments up to CurrFragmentId are those of a branch of the schedule tree,
\* a thread in a region is at one of them or waits for the next one, and so is a
\* thread about to start.
ChildrenPlaced ==
  \A t \in Thread : child[t] # NoThread /\ pc[t] # "created" => frag[child[t]] <= fragId

LevelInv ==
  /\ \A k \in FragIndex : k <= fragId => Level[fragList[k]] = k
  /\ \A t \in Thread : InRegion(t) =>
       /\ sub[t] \in {"none", "init"} => frag[t] <= fragId
       /\ sub[t] \in {"choose", "publish", "fragwait"} => 1 <= frag[t] /\ frag[t] - 1 <= fragId
       /\ sub[t] = "publish" => Level[fragList[frag[t]]] = frag[t]
       /\ sub[t] = "none" /\ pc[t] # "born" =>
            Level[at[t]] = frag[t] /\ t < Sched[at[t]].numThreads
  /\ ChildrenPlaced

IInv == TypeOK /\ BarrierCount /\ SlotsDistinct /\ PlaceInv /\ LevelInv
-----------------------------------------------------------------------------
(* Counting.                                                                 *)

\* Thread ids form a finite set.
LEMMA ThreadFinite == IsFiniteSet(Thread)
  BY FS_Interval, ConstantsAssumption DEF Thread

\* Thread ids are numbers.
LEMMA ThreadNat == Thread \subseteq Nat
  BY ConstantsAssumption DEF Thread

\* A set of threads that is part of another has at most as many members.
LEMMA CountSubset ==
  ASSUME NEW A \in SUBSET Thread, NEW B \in SUBSET A
  PROVE  Cardinality(B) \in Nat /\ Cardinality(A) \in Nat /\ Cardinality(B) <= Cardinality(A)
  BY Zenon, ThreadFinite, FS_Subset, FS_CardinalityType

\* Losing a member makes a set of threads smaller by one, at least.
LEMMA CountRemove ==
  ASSUME NEW A \in SUBSET Thread, NEW x \in A, NEW B \in SUBSET (A \ {x})
  PROVE  Cardinality(B) \in Nat /\ Cardinality(A) \in Nat /\ Cardinality(B) + 1 <= Cardinality(A)
<1>1. IsFiniteSet(A)
  BY Zenon, ThreadFinite, FS_Subset
<1>2. Cardinality(A \ {x}) = Cardinality(A) - 1
  BY Zenon, <1>1, FS_RemoveElement
<1>3. Cardinality(B) <= Cardinality(A \ {x}) /\ Cardinality(B) \in Nat
  BY Zenon, CountSubset
<1>4. Cardinality(A) \in Nat
  BY Zenon, <1>1, FS_CardinalityType
<1> QED
  BY <1>2, <1>3, <1>4

\* Gaining a member makes it larger by one, at most.
LEMMA CountAdd ==
  ASSUME NEW A \in SUBSET Thread, NEW x \in Thread, NEW B \in SUBSET (A \cup {x})
  PROVE  Cardinality(B) \in Nat /\ Cardinality(A) \in Nat /\ Cardinality(B) <= Cardinality(A) + 1
<1>1. IsFiniteSet(A) /\ Cardinality(A) \in Nat
  BY Zenon, ThreadFinite, FS_Subset, FS_CardinalityType
<1>2. Cardinality(A \cup {x}) <= Cardinality(A) + 1 /\ Cardinality(A \cup {x}) \in Nat
  <2>1. CASE x \in A
    <3>1. A \cup {x} = A
      BY Zenon, <2>1
    <3>2. Cardinality(A \cup {x}) = Cardinality(A)
      BY <3>1, Zenon
    <3> QED
      BY <1>1, <3>2
  <2>2. CASE x \notin A
    <3>1. Cardinality(A \cup {x}) = Cardinality(A) + 1
      BY <1>1, <2>2, FS_AddElement, Zenon
    <3> QED
      BY <1>1, <3>1
  <2> QED
    BY Zenon, <2>1, <2>2
<1>3. A \cup {x} \in SUBSET Thread
  OBVIOUS
<1>4. Cardinality(B) <= Cardinality(A \cup {x}) /\ Cardinality(B) \in Nat
  BY Zenon, <1>3, CountSubset
<1> QED
  BY <1>1, <1>2, <1>4

\* A set of threads counted as empty is empty.
LEMMA CountEmpty ==
  ASSUME NEW A \in SUBSET Thread, Cardinality(A) <= 0
  PROVE  A = {}
  BY ThreadFinite, FS_Subset, FS_CardinalityType, FS_EmptySet

\* Skipping nodes moves a schedule pointer forward.
LEMMA SkipForward ==
  ASSUME NEW s, NEW i \in Nat, Len(s) \in Nat
  PROVE  SkipNops(s, i) \in Nat /\ SkipNops(s, i) >= i
<1>1. IsFiniteSet(i .. Len(s))
  BY FS_Interval
<1>2. IsFiniteSet({j \in i .. Len(s) : \A k \in i .. j : s[k].op = "skip"})
  BY Zenon, <1>1, FS_Subset
<1> QED
  BY <1>2, FS_CardinalityType DEF SkipNops
-----------------------------------------------------------------------------
(* Type correctness.                                                         *)

\* A thread that takes part is counted by every counter.
LEMMA CountersPositive ==
  ASSUME TypeOK, BarrierCount, NEW t \in Thread
  PROVE  /\ t \in Counted => running >= 1
         /\ t \in Enrolled => total >= 1
         /\ t \in Present => live >= 1
<1>1. Counted \in SUBSET Thread /\ Enrolled \in SUBSET Thread /\ Present \in SUBSET Thread
  BY Zenon DEF Counted, Enrolled, Present
<1>2. \A places : Cardinality(Creating(places)) \in Nat
  <2> SUFFICES ASSUME NEW places PROVE Cardinality(Creating(places)) \in Nat
    OBVIOUS
  <2>1. Creating(places) \in SUBSET Thread
    BY Zenon DEF Creating
  <2> QED
    BY Zenon, <2>1, CountSubset
<1>3. \A A \in SUBSET Thread : t \in A => Cardinality(A) \in Nat /\ Cardinality(A) >= 1
  <2> SUFFICES ASSUME NEW A \in SUBSET Thread, t \in A
               PROVE  Cardinality(A) \in Nat /\ Cardinality(A) >= 1
    OBVIOUS
  <2>1. Cardinality({}) + 1 <= Cardinality(A) /\ Cardinality(A) \in Nat
    BY CountRemove, Zenon
  <2> QED
    BY <2>1, FS_EmptySet
<1> QED
  BY <1>1, <1>2, <1>3 DEF BarrierCount, TypeOK

\* A function changed at one point, if that is one of its points.
LEMMA FunUpdate ==
  ASSUME NEW S, NEW R, NEW f \in [S -> R], NEW u, NEW r, u \in S => r \in R
  PROVE  [f EXCEPT ![u] = r] \in [S -> R]
  BY Zenon

\* Each member of struct thread can be set by itself.
LEMMA InfoUpdate ==
  ASSUME NEW f \in [Thread -> ThreadInfo], NEW u, NEW b, u \in Thread => b \in BOOLEAN
  PROVE  /\ [f EXCEPT ![u].allocated = b] \in [Thread -> ThreadInfo]
         /\ [f EXCEPT ![u].joinable = b] \in [Thread -> ThreadInfo]
         /\ [f EXCEPT ![u].terminated = b] \in [Thread -> ThreadInfo]
         /\ [f EXCEPT ![u].hasjoiner = b] \in [Thread -> ThreadInfo]
<1>1. u \in Thread => /\ [f[u] EXCEPT !.allocated = b] \in ThreadInfo
                      /\ [f[u] EXCEPT !.joinable = b] \in ThreadInfo
                      /\ [f[u] EXCEPT !.terminated = b] \in ThreadInfo
                      /\ [f[u] EXCEPT !.hasjoiner = b] \in ThreadInfo
  BY Zenon DEF ThreadInfo
<1> QED
  BY <1>1, FunUpdate

\* A new entry of __tsync.threads.
LEMMA FreshType == FreshInfo \in ThreadInfo
  BY Zenon DEF FreshInfo, ThreadInfo

\* Parts that several actions share: the end of the process,
LEMMA StopType ==
  ASSUME TypeOK, NEW why \in Outcome, Stop(why)
  PROVE  TypeOK'
  BY Zenon DEF TypeOK, Stop, barrier, frags, threads, logs, place, clocks

\* a step of pc alone,
LEMMA GotoType ==
  ASSUME TypeOK, NEW t \in Thread, NEW there \in Pc, Goto(t, there),
         UNCHANGED <<status, barrier, frags, threads, logs, place, clocks, sub>>
  PROVE  TypeOK'
  BY Zenon DEF TypeOK, Goto, barrier, frags, threads, logs, place, clocks

\* the first half of AdvanceToNextFragment,
LEMMA NextFragmentType ==
  ASSUME TypeOK, NEW t \in Thread, NEW d \in Nat, BeginNextFragment(t, d),
         frag[t] + 1 \in FragIndex, pc' \in [Thread -> Pc]
  PROVE  TypeOK'
<1>1. sub' \in [Thread -> Sub] /\ frag' \in [Thread -> FragIndex] /\ depth' \in [Thread -> Nat]
  BY Zenon DEF TypeOK, BeginNextFragment, Within, Sub
<1> QED
  BY Zenon, <1>1 DEF TypeOK, BeginNextFragment, barrier, frags, threads, logs, clocks

\* the first half of RegionBarrier,
LEMMA RegionBarrierType ==
  ASSUME TypeOK, NEW t \in Thread, NEW d \in Nat, BeginRegionBarrier(t, d), pc' \in [Thread -> Pc]
  PROVE  TypeOK'
<1>1. /\ sub' \in [Thread -> Sub] /\ oldticker' \in [Thread -> Nat]
      /\ depth' \in [Thread -> Nat] /\ status' \in Outcome
  BY Zenon DEF TypeOK, BeginRegionBarrier, Within, Sub, Outcome
<1> QED
  BY Zenon, <1>1 DEF TypeOK, BeginRegionBarrier, barrier, frags, threads, logs, clocks

\* and AdvanceHbNode.
LEMMA AdvanceType ==
  ASSUME TypeOK, NEW t \in Thread, cur[t] < ptr[t], AdvanceHbNode(t)
  PROVE  clock' \in [Thread -> Nat] /\ done' \in [Thread -> Nat]
  BY DEF TypeOK, AdvanceHbNode

\* A thread that follows a schedule has one, and a fragment that is complete has
\* a successor in the tree.
LEMMA FollowsSchedule ==
  ASSUME TypeOK, LevelInv, PlaceInv, NEW t \in Thread, sub[t] = "none", pc[t] \in Callers
  PROVE  /\ MySchedule(t) \in Seq(HBNode)
         /\ IsFragmentComplete(t) => frag[t] + 1 \in FragIndex
<1>1. InRegion(t) /\ pc[t] # "born"
  BY Zenon DEF InRegion, Outside, Callers
<1>2. Level[at[t]] = frag[t] /\ t < Sched[at[t]].numThreads /\ at[t] \in Fragment
  BY Zenon, <1>1 DEF LevelInv, TypeOK
<1> QED
  BY Zenon, <1>2, TableAssumption DEF MySchedule, IsFragmentComplete

\* Every step of a thread leaves every variable in its type.
LEMMA TypeStep ==
  ASSUME IInv, NEW t \in Thread, Step(t)
  PROVE  TypeOK'
<1> USE DEF barrier, frags, threads, logs, place, clocks, Goto, Within
<1>0. TypeOK /\ LevelInv /\ PlaceInv /\ BarrierCount
  BY Zenon DEF IInv
<1>1. CASE ChooseFragment(t)
  <2>0. InRegion(t)
    BY Zenon, <1>0, <1>1 DEF ChooseFragment, PlaceInv, InRegion, Outside, Callers
  <2>1. frag[t] - 1 \in FragIndex
    BY <1>0, <1>1, <2>0, ConstantsAssumption DEF ChooseFragment, TypeOK, LevelInv, FragIndex
  <2>2. PICK f \in Selectors[Sched[fragList[frag[t] - 1]].selector] :
          fragList' = [fragList EXCEPT ![frag[t]] = f]
    BY Zenon, <1>1 DEF ChooseFragment, ChosenIndex
  <2>3. fragList[frag[t] - 1] \in Fragment
    BY Zenon, <1>0, <2>1 DEF TypeOK
  <2>4. f \in Fragment
    BY Zenon, <2>2, <2>3, TableAssumption
  <2>5. fragList' \in [FragIndex -> Fragment]
    BY Zenon, <1>0, <2>2, <2>4 DEF TypeOK
  <2>6. sub' \in [Thread -> Sub]
    BY Zenon, <1>0, <1>1 DEF ChooseFragment, TypeOK, Sub
  <2> QED
    BY Zenon, <1>0, <1>1, <2>5, <2>6 DEF ChooseFragment, TypeOK
<1>2. CASE UpdateCurrFragmentId(t)
  <2>1. fragId' \in FragIndex
    BY Zenon, <1>0, <1>2 DEF UpdateCurrFragmentId, TypeOK
  <2>2. status' \in Outcome
    BY Zenon, <1>0, <1>2 DEF UpdateCurrFragmentId, TypeOK, Outcome
  <2>3. sub' \in [Thread -> Sub]
    BY Zenon, <1>0, <1>2 DEF UpdateCurrFragmentId, TypeOK, Sub
  <2> QED
    BY Zenon, <1>0, <1>2, <2>1, <2>2, <2>3 DEF UpdateCurrFragmentId, TypeOK
<1>3. CASE WaitForNextFragment(t)
  BY Zenon, <1>0, <1>3 DEF WaitForNextFragment, TypeOK, Sub
<1>4. CASE Arrive(t)
  <2>0. t \in Counted
    BY Zenon, <1>0, <1>4 DEF Arrive, Counted, PlaceInv, InRegion, Stopped, Releasing, Callers, Outside
  <2>1. running >= 1
    BY Zenon, <1>0, <2>0, CountersPositive
  <2> QED
  BY <1>0, <1>4, <2>1 DEF Arrive, TypeOK, Sub
<1>5. CASE SelectRegion(t)
  <2>1. CASE status' # status
    BY Zenon, <1>0, <1>5, <2>1, StopType DEF SelectRegion, Outcome
  <2>2. CASE status' = status
    <3>1. CurrSchedule(t).next \in Nat /\ \A g \in Selectors[CurrSchedule(t).next] : g \in Fragment
      BY Zenon, <1>0, TableAssumption DEF CurrSchedule, TypeOK
    <3>2. CASE Stop("no matching region")
      BY Zenon, <1>0, <3>2, StopType DEF Outcome
    <3>3. CASE ~Stop("no matching region")
      <4>1. PICK f \in Selectors[CurrSchedule(t).next] :
              /\ fragList' = [fragList EXCEPT ![0] = f]
              /\ readSnap' = (Sched[f].selector # 0)
              /\ snap' = IF Sched[f].selector # 0
                         THEN [k \in Thread |-> IF Snapshotted(k) THEN ticker + 1 ELSE snap[k]]
                         ELSE snap
        BY Zenon, <1>5, <3>3 DEF SelectRegion
      <4>2. fragId' = 0 /\ region' = CurrSchedule(t).next /\ sub' = [sub EXCEPT ![t] = "release"]
        BY Zenon, <1>5, <3>3 DEF SelectRegion
      <4>3. 0 \in FragIndex
        BY ConstantsAssumption DEF FragIndex
      <4>4. snap' \in [Thread -> Nat]
        BY <1>0, <4>1 DEF TypeOK
      <4>5. fragList' \in [FragIndex -> Fragment]
        BY Zenon, <1>0, <3>1, <4>1 DEF TypeOK
      <4>6. readSnap' \in BOOLEAN
        BY Zenon, <4>1
      <4>7. sub' \in [Thread -> Sub]
        BY Zenon, <1>0, <4>2 DEF TypeOK, Sub
      <4>8. UNCHANGED <<status, ticker, running, total, registered, info, live, child, pc, frag, at,
                        ptr, cur, oldticker, depth, clock, done>>
        BY Zenon, <1>5, <3>3 DEF SelectRegion
      <4> QED
        BY Zenon, <1>0, <3>1, <4>2, <4>3, <4>4, <4>5, <4>6, <4>7, <4>8 DEF TypeOK
    <3> QED
      BY Zenon, <3>2, <3>3
  <2> QED
    BY Zenon, <2>1, <2>2
<1>6. CASE ReleaseRegionBarrier(t)
  <2>1. 0 \in FragIndex
    BY ConstantsAssumption DEF FragIndex
  <2> QED
    BY <1>0, <1>6, <2>1 DEF ReleaseRegionBarrier, ReleasedCount, TypeOK, Sub
<1>7. CASE WaitAtRegionBarrier(t)
  <2>1. 0 \in FragIndex
    BY ConstantsAssumption DEF FragIndex
  <2> QED
    BY Zenon, <1>0, <1>7, <2>1 DEF WaitAtRegionBarrier, StartFragment, TypeOK, Sub
<1>8. CASE InitializeMyThreadSchedulePtr(t)
  <2>0. InRegion(t) /\ frag[t] <= fragId /\ frag[t] \in FragIndex
    BY Zenon, <1>0, <1>8 DEF InitializeMyThreadSchedulePtr, PlaceInv, LevelInv, InRegion, Outside, Callers, TypeOK
  <2>1. fragList[frag[t]] \in Fragment /\ Level[fragList[frag[t]]] = frag[t]
    BY Zenon, <1>0, <2>0 DEF LevelInv, TypeOK
  <2>2. CASE t < CurrSchedule(t).numThreads
    <3> DEFINE first == SkipNops(CurrSchedule(t).nodes[t], 1)
    <3>0. ~(t >= CurrSchedule(t).numThreads)
      <4>1. CurrSchedule(t).numThreads \in Nat
        BY Zenon, <2>1, TableAssumption DEF CurrSchedule
      <4> QED
        BY <2>2, <4>1, ThreadNat
    <3>1. first \in Nat /\ first >= 1
      <4>1. CurrSchedule(t).nodes[t] \in Seq(HBNode)
        BY Zenon, <2>1, <2>2, TableAssumption DEF CurrSchedule
      <4> QED
        BY <4>1, SkipForward
    <3>2. SkipTicks(t, first - 1) \in Nat
      <4>1. depth[t] + 1 \in Nat /\ first - 1 \in Nat
        BY <1>0, <3>1 DEF TypeOK
      <4> HIDE DEF first
      <4> QED
        BY <4>1 DEF SkipTicks
    <3>3. /\ at' = [at EXCEPT ![t] = fragList[frag[t]]]
          /\ ptr' = [ptr EXCEPT ![t] = first]
          /\ clock' = [clock EXCEPT ![t] = @ + SkipTicks(t, first - 1)]
          /\ done' = [done EXCEPT ![t] = @ + (first - 1)]
          /\ depth' = [depth EXCEPT ![t] = 0]
          /\ sub' = [sub EXCEPT ![t] = "none"]
          /\ UNCHANGED <<status, barrier, frags, threads, logs, frag, cur, oldticker, pc>>
      BY Zenon, <1>8, <3>0 DEF InitializeMyThreadSchedulePtr
    <3> HIDE DEF first
    <3>4. at' \in [Thread -> Fragment] /\ ptr' \in [Thread -> Nat] /\ sub' \in [Thread -> Sub]
      BY Zenon, <1>0, <2>1, <3>1, <3>3 DEF TypeOK, Sub
    <3>5. clock' \in [Thread -> Nat] /\ done' \in [Thread -> Nat] /\ depth' \in [Thread -> Nat]
      BY <1>0, <3>1, <3>2, <3>3 DEF TypeOK
    <3> QED
      BY Zenon, <1>0, <3>3, <3>4, <3>5 DEF TypeOK
  <2>3. CASE BeginNextFragment(t, depth[t] + 1) /\ UNCHANGED pc /\ CurrSchedule(t).selector # 0
    <3>1. frag[t] + 1 \in FragIndex
      BY Zenon, <2>1, <2>3, TableAssumption DEF CurrSchedule
    <3>2. depth[t] + 1 \in Nat /\ pc' \in [Thread -> Pc]
      BY <1>0, <2>3 DEF TypeOK
    <3> QED
      BY Zenon, <1>0, <2>3, <3>1, <3>2, NextFragmentType
  <2>4. CASE Stop("no schedule in region")
    BY Zenon, <1>0, <2>4, StopType DEF Outcome
  <2>5. CASE BeginRegionBarrier(t, depth[t] + 1) /\ UNCHANGED pc
    <3>1. depth[t] + 1 \in Nat /\ pc' \in [Thread -> Pc]
      BY <1>0, <2>5 DEF TypeOK
    <3> QED
      BY Zenon, <1>0, <2>5, <3>1, RegionBarrierType
  <2> QED
    BY Zenon, <1>8, <2>2, <2>3, <2>4, <2>5 DEF InitializeMyThreadSchedulePtr
<1>9. CASE MyThreadStartRoutine(t)
  <2>1. status' \in Outcome
    BY Zenon, <1>0, <1>9 DEF MyThreadStartRoutine, TypeOK, Outcome
  <2>2. sub' \in [Thread -> Sub] /\ pc' \in [Thread -> Pc]
    BY Zenon, <1>0, <1>9 DEF MyThreadStartRoutine, TypeOK, Sub, Pc
  <2> QED
    BY Zenon, <1>0, <1>9, <2>1, <2>2 DEF MyThreadStartRoutine, TypeOK
<1>10. CASE MyThreadCommonInit(t)
  <2>1. pc' \in [Thread -> Pc] /\ registered' \in SUBSET Thread
    BY Zenon, <1>0, <1>10 DEF MyThreadCommonInit, TypeOK, Pc
  <2> QED
    BY Zenon, <1>0, <1>10, <2>1 DEF MyThreadCommonInit, TypeOK
<1>11. CASE AdvanceToNextFragmentIfComplete(t)
  <2>1. pc[t] \in Callers /\ sub[t] = "none" /\ IsFragmentComplete(t)
    BY Zenon, <1>11 DEF AdvanceToNextFragmentIfComplete, Waiting, Callers
  <2>2. frag[t] + 1 \in FragIndex
    BY Zenon, <1>0, <2>1, FollowsSchedule
  <2>3. pc' \in [Thread -> Pc]
    BY Zenon, <1>0, <1>11 DEF AdvanceToNextFragmentIfComplete, TypeOK, Pc
  <2> QED
    BY Zenon, <1>0, <1>11, <2>2, <2>3, NextFragmentType DEF AdvanceToNextFragmentIfComplete
<1>12. CASE WaitForHbNode(t)
  <2> DEFINE next == SkipNops(MySchedule(t), ptr[t] + 1)
  <2>1. pc[t] \in Callers /\ sub[t] = "none"
    BY Zenon, <1>12 DEF WaitForHbNode, Waiting, Callers
  <2>2. next \in Nat /\ next >= ptr[t] + 1
    <3>1. MySchedule(t) \in Seq(HBNode) /\ ptr[t] + 1 \in Nat
      BY SMTT(30), <1>0, <2>1, FollowsSchedule DEF TypeOK
    <3> QED
      BY <3>1, SkipForward
  <2>3. /\ cur' = [cur EXCEPT ![t] = ptr[t]]
        /\ ptr' = [ptr EXCEPT ![t] = next]
        /\ clock' = [clock EXCEPT ![t] = @ + (next - ptr[t] - 1)]
        /\ pc' = [pc EXCEPT ![t] = "op"]
        /\ UNCHANGED <<status, barrier, frags, threads, logs, frag, at, oldticker, depth, done, sub>>
    BY Zenon, <1>12 DEF WaitForHbNode
  <2> HIDE DEF next
  <2>4. cur' \in [Thread -> Nat] /\ ptr' \in [Thread -> Nat]
    BY Zenon, <1>0, <2>2, <2>3 DEF TypeOK
  <2>5. clock' \in [Thread -> Nat]
    BY <1>0, <2>2, <2>3 DEF TypeOK
  <2>6. pc' \in [Thread -> Pc]
    BY Zenon, <1>0, <2>3 DEF TypeOK, Pc
  <2> QED
    BY Zenon, <1>0, <2>3, <2>4, <2>5, <2>6 DEF TypeOK
<1>13. CASE HbNodeMissing(t) \/ RunOff(t)
  BY Zenon, <1>0, <1>13, StopType DEF HbNodeMissing, RunOff, Outcome
<1>14. CASE SleepThroughBarrier(t)
  BY Zenon, <1>0, <1>14, RegionBarrierType DEF SleepThroughBarrier, TypeOK
<1>15. CASE SyncOp(t)
  <2>1. cur[t] < ptr[t]
    BY Zenon, <1>0, <1>15 DEF SyncOp, DoOneSyncOp, PlaceInv
  <2>2. clock' \in [Thread -> Nat] /\ done' \in [Thread -> Nat]
    BY ZenonT(60), <1>0, <1>15, <2>1, AdvanceType DEF SyncOp, DoOneSyncOp
  <2>3. pc' \in [Thread -> Pc]
    BY <1>0, <1>15 DEF SyncOp, DoOneSyncOp, TypeOK, Pc
  <2> QED
    BY Zenon, <1>0, <1>15, <2>2, <2>3 DEF SyncOp, DoOneSyncOp, TypeOK
<1>16. CASE AfterInput(t) \/ JoinAllYield(t)
  BY Zenon, <1>0, <1>16, GotoType DEF AfterInput, JoinAllYield, Pc
<1>17. CASE AfterMarker(t)
  <2>1. pc' \in [Thread -> Pc]
    BY Zenon, <1>0, <1>17 DEF AfterMarker, TypeOK, Pc
  <2>2. CASE BeginRegionBarrier(t, 0)
    BY Zenon, <1>0, <2>1, <2>2, RegionBarrierType
  <2>3. CASE UNCHANGED <<status, barrier, frags, threads, logs, place, clocks, sub>>
    BY Zenon, <1>0, <2>1, <2>3 DEF TypeOK
  <2> QED
    BY Zenon, <1>17, <2>2, <2>3 DEF AfterMarker
<1>18. CASE SkipRegionBarriersOrExit(t)
  <2>1. pc' \in [Thread -> Pc]
    BY ZenonT(60), <1>0, <1>18 DEF SkipRegionBarriersOrExit, TypeOK, Pc
  <2>2. CASE BeginRegionBarrier(t, 0)
    BY Zenon, <1>0, <2>1, <2>2, RegionBarrierType
  <2>3. CASE UNCHANGED <<status, barrier, frags, threads, logs, place, clocks, sub>>
    BY Zenon, <1>0, <2>1, <2>3 DEF TypeOK
  <2> QED
    BY Zenon, <1>18, <2>2, <2>3 DEF SkipRegionBarriersOrExit
<1>19. CASE JoinAllLoop(t)
  <2>1. pc' \in [Thread -> Pc]
    BY SMTT(30), <1>0, <1>19 DEF JoinAllLoop, TypeOK, Pc
  <2>2. CASE BeginRegionBarrier(t, 0)
    BY Zenon, <1>0, <2>1, <2>2, RegionBarrierType
  <2>3. CASE UNCHANGED <<status, barrier, frags, threads, logs, place, clocks, sub>>
    BY Zenon, <1>0, <2>1, <2>3 DEF TypeOK
  <2> QED
    BY Zenon, <1>19, <2>2, <2>3 DEF JoinAllLoop
<1>20. CASE PthreadCreate(t)
  <2>1. clock' \in [Thread -> Nat] /\ done' \in [Thread -> Nat]
    BY Zenon, <1>0, <1>20, AdvanceType DEF PthreadCreate, PlaceInv
  <2>2. info' \in [Thread -> ThreadInfo] /\ child' \in [Thread -> Thread \cup {NoThread}]
    <3>1. info' = info \/ \E u \in Thread : info' = [info EXCEPT ![u] = FreshInfo]
      BY Zenon, <1>20 DEF PthreadCreate, NewInfo
    <3>2. child' = child \/ \E u \in Thread : child' = [child EXCEPT ![t] = u]
      BY Zenon, <1>20 DEF PthreadCreate
    <3>3. info' \in [Thread -> ThreadInfo]
      BY SMTT(30), <1>0, <3>1, FreshType, FunUpdate DEF TypeOK
    <3>4. child' \in [Thread -> Thread \cup {NoThread}]
      BY Zenon, <1>0, <3>2 DEF TypeOK
    <3> QED
      BY Zenon, <3>3, <3>4
  <2>3. pc' \in [Thread -> Pc] /\ live' \in Nat
    BY <1>0, <1>20 DEF PthreadCreate, TypeOK, Pc
  <2> QED
    BY ZenonT(60), <1>0, <1>20, <2>1, <2>2, <2>3 DEF PthreadCreate, TypeOK
<1>21. CASE CountRunning(t)
  <2>1. info' \in [Thread -> ThreadInfo]
    BY Zenon, <1>0, <1>21, InfoUpdate DEF CountRunning, TypeOK
  <2>2. frag' \in [Thread -> FragIndex] /\ running' \in Nat
    <3>1. frag[t] \in FragIndex
      BY Zenon, <1>0 DEF TypeOK
    <3> QED
      BY SMTT(30), <1>0, <1>21, <3>1, FunUpdate DEF CountRunning, TypeOK
  <2>3. pc' \in [Thread -> Pc]
    BY Zenon, <1>0, <1>21 DEF CountRunning, TypeOK, Pc
  <2> QED
    BY Zenon, <1>0, <1>21, <2>1, <2>2, <2>3 DEF CountRunning, TypeOK
<1>22. CASE CountTotal(t)
  BY <1>0, <1>22 DEF CountTotal, TypeOK, Pc
<1>23. CASE SpawnNode(t) \/ JoinedNode(t)
  <2>1. cur[t] < ptr[t]
    BY Zenon, <1>0, <1>23 DEF SpawnNode, JoinedNode, DoOneSyncOp, PlaceInv
  <2>2. clock' \in [Thread -> Nat] /\ done' \in [Thread -> Nat]
    BY Zenon, <1>0, <1>23, <2>1, AdvanceType DEF SpawnNode, JoinedNode, DoOneSyncOp
  <2>3. pc' \in [Thread -> Pc]
    BY ZenonT(60), <1>0, <1>23 DEF SpawnNode, JoinedNode, DoOneSyncOp, TypeOK, Pc
  <2> QED
    BY Zenon, <1>0, <1>23, <2>2, <2>3 DEF SpawnNode, JoinedNode, DoOneSyncOp, TypeOK
<1>24. CASE Spawn(t)
  <2>1. pc' \in [Thread -> Pc]
    BY Zenon, <1>0, <1>24 DEF Spawn, TypeOK, Pc
  <2>2. child' \in [Thread -> Thread \cup {NoThread}]
    BY Zenon, <1>0, <1>24 DEF Spawn, TypeOK
  <2> QED
    BY Zenon, <1>0, <1>24, <2>1, <2>2 DEF Spawn, TypeOK
<1>25. CASE PthreadExit(t)
  <2>1. t \in Counted /\ t \in Present
    BY Zenon, <1>0, <1>25 DEF PthreadExit, PlaceInv, Counted, Present, InRegion, Stopped, Releasing, Callers,
                       Outside
  <2>2. running >= 1 /\ live >= 1
    BY Zenon, <1>0, <2>1, CountersPositive
  <2>3. info' \in [Thread -> ThreadInfo]
    BY Zenon, <1>0, <1>25, InfoUpdate DEF PthreadExit, TypeOK
  <2>4. pc' \in [Thread -> Pc] /\ running' \in Nat /\ live' \in Nat
    BY SMTT(30), <1>0, <1>25, <2>2 DEF PthreadExit, TypeOK, Pc
  <2> QED
    BY Zenon, <1>0, <1>25, <2>3, <2>4 DEF PthreadExit, TypeOK
<1>26. CASE ExitTotal(t)
  <2>1. total >= 1
    BY Zenon, <1>0, <1>26, CountersPositive DEF ExitTotal, Enrolled
  <2> QED
    BY <1>0, <1>26, <2>1 DEF ExitTotal, TypeOK, Pc
<1>27. CASE ExitNode(t)
  <2>1. CASE Stop("schedule not complete at exit")
    BY Zenon, <1>0, <2>1, StopType DEF Outcome
  <2>2. CASE ~Stop("schedule not complete at exit")
    <3>1. clock' \in [Thread -> Nat] /\ done' \in [Thread -> Nat]
      BY Zenon, <1>0, <1>27, <2>2, AdvanceType DEF ExitNode, PlaceInv
    <3>2. pc' \in [Thread -> Pc]
      BY Zenon, <1>0, <1>27, <2>2 DEF ExitNode, TypeOK, Pc
    <3> QED
      BY ZenonT(60), <1>0, <1>27, <2>2, <3>1, <3>2 DEF ExitNode, TypeOK
  <2> QED
    BY Zenon, <2>1, <2>2
<1>28. CASE MyThreadCommonTeardown(t)
  BY Zenon, <1>0, <1>28 DEF MyThreadCommonTeardown, TypeOK, Pc
<1>29. CASE PthreadJoin(t)
  <2>1. clock' \in [Thread -> Nat] /\ done' \in [Thread -> Nat]
    BY Zenon, <1>0, <1>29, AdvanceType DEF PthreadJoin, PlaceInv
  <2>2. info' \in [Thread -> ThreadInfo]
    <3>1. info' = info \/ info' = [info EXCEPT ![Node(t).arg].hasjoiner = TRUE]
      BY Zenon, <1>29 DEF PthreadJoin
    <3>2. [info EXCEPT ![Node(t).arg].hasjoiner = TRUE] \in [Thread -> ThreadInfo]
      BY Zenon, <1>0, InfoUpdate DEF TypeOK
    <3> QED
      BY Zenon, <1>0, <3>1, <3>2 DEF TypeOK
  <2>3. pc' \in [Thread -> Pc]
    BY <1>0, <1>29 DEF PthreadJoin, TypeOK, Pc
  <2> QED
    BY ZenonT(60), <1>0, <1>29, <2>1, <2>2, <2>3 DEF PthreadJoin, TypeOK
<1>30. CASE Reap(t)
  <2>1. status' \in Outcome
    BY Zenon, <1>0, <1>30 DEF Reap, TypeOK, Outcome
  <2>2. info' \in [Thread -> ThreadInfo]
    <3>1. (~info[Node(t).arg].terminated) \in BOOLEAN
      OBVIOUS
    <3>2. info' = [info EXCEPT ![Node(t).arg].allocated = ~info[Node(t).arg].terminated]
      BY Zenon, <1>30 DEF Reap
    <3> QED
      BY Zenon, <1>0, <3>1, <3>2, InfoUpdate DEF TypeOK
  <2>3. pc' \in [Thread -> Pc]
    BY Zenon, <1>0, <1>30 DEF Reap, TypeOK, Pc
  <2> QED
    BY ZenonT(60), <1>0, <1>30, <2>1, <2>2, <2>3 DEF Reap, TypeOK
<1>31. CASE PthreadDetach(t)
  <2>1. clock' \in [Thread -> Nat] /\ done' \in [Thread -> Nat]
    BY Zenon, <1>0, <1>31, AdvanceType DEF PthreadDetach, PlaceInv
  <2>2. info' \in [Thread -> ThreadInfo]
    <3> DEFINE u == Node(t).arg
               g == [info EXCEPT ![u].joinable = FALSE]
    <3>1. g \in [Thread -> ThreadInfo] /\ (~info[u].terminated) \in BOOLEAN
      BY Zenon, <1>0, InfoUpdate DEF TypeOK
    <3>2. [g EXCEPT ![u].allocated = ~info[u].terminated] \in [Thread -> ThreadInfo]
      BY Zenon, <3>1, InfoUpdate
    <3>3. info' = info \/ info' = [g EXCEPT ![u].allocated = ~info[u].terminated]
      BY Zenon, <1>31 DEF PthreadDetach
    <3> QED
      BY ZenonT(60), <1>0, <3>2, <3>3 DEF TypeOK
  <2>3. pc' \in [Thread -> Pc]
    BY Zenon, <1>0, <1>31 DEF PthreadDetach, TypeOK, Pc
  <2> QED
    BY ZenonT(60), <1>0, <1>31, <2>1, <2>2, <2>3 DEF PthreadDetach, TypeOK
<1> QED
  BY ZenonT(60), <1>1, <1>2, <1>3, <1>4, <1>5, <1>6, <1>7, <1>8, <1>9, <1>10, <1>11, <1>12, <1>13, <1>14, <1>15,
     <1>16, <1>17, <1>18, <1>19, <1>20, <1>21, <1>22, <1>23, <1>24, <1>25, <1>26, <1>27, <1>28, <1>29,
     <1>30, <1>31 DEF Step
-----------------------------------------------------------------------------
(* Places.                                                                   *)

\* A counted thread is not alone with a releasing one.
LEMMA NobodyReleases ==
  ASSUME TypeOK, BarrierCount, NEW t \in Counted
  PROVE  running >= 1 /\ \A u \in Thread : ~Releasing(u)
<1>1. t \in Thread
  BY Zenon DEF Counted
<1>2. running >= 1
  BY Zenon, <1>1, CountersPositive
<1> QED
  BY <1>2 DEF BarrierCount, TypeOK

\* A thread that performs an operation is in none of the scheduler's functions.
LEMMA PlainPlace ==
  ASSUME PlaceInv, NEW t \in Thread, pc[t] \notin Callers
  PROVE  sub[t] = "none"
  BY Zenon DEF PlaceInv

\* What PlaceInv says of one thread.
PlaceAt(t) ==
  /\ sub[t] # "none" => pc[t] \in Callers
  /\ oldticker[t] <= ticker
  /\ sub[t] = "arrive" => oldticker[t] = ticker
  /\ pc[t] \in {"op", "uncounted", "exiting"} => cur[t] < ptr[t]

\* A step of one thread, between two region barriers.
LEMMA PlaceKept ==
  ASSUME PlaceInv, NEW t \in Thread, UNCHANGED ticker, PlaceAt(t)',
         \A u \in Thread \ {t} : /\ pc'[u] = pc[u] /\ sub'[u] = sub[u] /\ oldticker'[u] = oldticker[u]
                                 /\ cur'[u] = cur[u] /\ ptr'[u] = ptr[u]
  PROVE  PlaceInv'
  BY Zenon DEF PlaceInv, PlaceAt

\* Only pc changes, to a place the thread may be in.
LEMMA PlaceGoto ==
  ASSUME TypeOK, PlaceInv, NEW t \in Thread, NEW there, Goto(t, there), sub[t] = "none",
         UNCHANGED <<ticker, sub, oldticker, cur, ptr>>,
         there \in {"op", "uncounted", "exiting"} => cur[t] < ptr[t]
  PROVE  PlaceInv'
<1>1. PlaceAt(t)'
  BY Zenon DEF PlaceInv, PlaceAt, Goto, TypeOK
<1> QED
  BY Zenon, <1>1, PlaceKept DEF Goto, TypeOK

\* The thread enters AdvanceToNextFragment or RegionBarrier.
LEMMA PlaceBegin ==
  ASSUME TypeOK, PlaceInv, NEW t \in Thread, NEW d, NEW there \in Callers,
         BeginNextFragment(t, d) \/ BeginRegionBarrier(t, d),
         pc' = [pc EXCEPT ![t] = there]
  PROVE  PlaceInv'
<1> USE DEF barrier
<1>1. UNCHANGED <<ticker, cur, ptr>>
  BY Zenon DEF BeginNextFragment, BeginRegionBarrier
<1>2. \/ sub'[t] # "arrive" /\ oldticker' = oldticker
      \/ oldticker' = [oldticker EXCEPT ![t] = ticker]
  BY Zenon DEF BeginNextFragment, BeginRegionBarrier, Within, TypeOK
<1>3. PlaceAt(t)'
  BY <1>1, <1>2 DEF PlaceInv, PlaceAt, TypeOK, Callers
<1>4. \A u \in Thread \ {t} : /\ pc'[u] = pc[u] /\ sub'[u] = sub[u] /\ oldticker'[u] = oldticker[u]
                              /\ cur'[u] = cur[u] /\ ptr'[u] = ptr[u]
  BY ZenonT(60), <1>1 DEF BeginNextFragment, BeginRegionBarrier, Within, TypeOK
<1> QED
  BY Zenon, <1>1, <1>3, <1>4, PlaceKept

\* PlaceInv holds after every step.
LEMMA PlaceStep ==
  ASSUME TypeOK, BarrierCount, PlaceInv, LevelInv, NEW t \in Thread, Step(t)
  PROVE  PlaceInv'
<1> USE DEF barrier, place
<1>0. pc \in [Thread -> Pc]
  BY Zenon DEF TypeOK
<1>1. CASE UNCHANGED <<ticker, pc, sub, oldticker, cur, ptr>>
  BY Zenon, <1>1 DEF PlaceInv
<1>2. CASE ChooseFragment(t) \/ UpdateCurrFragmentId(t) \/ WaitForNextFragment(t) \/ Arrive(t)
             \/ (SelectRegion(t) /\ ~Stop("no matching region")) \/ WaitAtRegionBarrier(t)
  <2>1. /\ UNCHANGED <<ticker, pc, oldticker, cur, ptr>> /\ sub[t] # "none"
        /\ \E there \in Sub \ {"arrive"} : sub' = [sub EXCEPT ![t] = there]
    BY Zenon, <1>2 DEF ChooseFragment, UpdateCurrFragmentId, WaitForNextFragment, Arrive, SelectRegion,
                WaitAtRegionBarrier, Within, Sub
  <2>2. PlaceAt(t)'
    BY Zenon, <2>1 DEF PlaceInv, PlaceAt, TypeOK
  <2> QED
    BY Zenon, <2>1, <2>2, PlaceKept DEF TypeOK
<1>3. CASE ReleaseRegionBarrier(t)
  <2>1. /\ ticker' = ticker + 1 /\ sub' = [sub EXCEPT ![t] = "init"] /\ sub[t] # "none"
        /\ UNCHANGED <<pc, oldticker, cur, ptr>>
    BY Zenon, <1>3 DEF ReleaseRegionBarrier, Within
  <2>2. \A u \in Thread : sub[u] # "arrive"
    <3> SUFFICES ASSUME NEW u \in Thread, sub[u] = "arrive" PROVE FALSE
      OBVIOUS
    <3>1. pc[u] \in Callers
      BY Zenon DEF PlaceInv
    <3>2. u \in Counted
      BY Zenon, <3>1 DEF Counted, InRegion, Stopped, Releasing, Callers, Outside
    <3> QED
      BY Zenon, <1>3, <3>2, NobodyReleases DEF ReleaseRegionBarrier, Releasing
  <2> QED
    BY <2>1, <2>2 DEF PlaceInv, TypeOK
<1>4. CASE InitializeMyThreadSchedulePtr(t) /\ ~Stop("no schedule in region")
  <2>1. pc[t] \in Callers /\ sub[t] = "init"
    BY Zenon, <1>4 DEF InitializeMyThreadSchedulePtr, PlaceInv
  <2>2. CASE \/ BeginRegionBarrier(t, depth[t] + 1) /\ UNCHANGED pc
             \/ BeginNextFragment(t, depth[t] + 1) /\ UNCHANGED pc
    <3>1. pc' = [pc EXCEPT ![t] = pc[t]]
      BY Zenon, <1>0, <2>2
    <3> QED
      BY Zenon, <2>1, <2>2, <3>1, PlaceBegin
  <2>3. CASE ~\/ BeginRegionBarrier(t, depth[t] + 1) /\ UNCHANGED pc
              \/ BeginNextFragment(t, depth[t] + 1) /\ UNCHANGED pc
    <3>1. /\ UNCHANGED <<ticker, pc, oldticker, cur>> /\ sub' = [sub EXCEPT ![t] = "none"]
          /\ \E n : ptr' = [ptr EXCEPT ![t] = n]
      BY Zenon, <1>4, <2>3 DEF InitializeMyThreadSchedulePtr, Within
    <3>2. PlaceAt(t)'
      BY Zenon, <2>1, <3>1 DEF PlaceInv, PlaceAt, TypeOK, Callers
    <3> QED
      BY Zenon, <3>1, <3>2, PlaceKept DEF TypeOK
  <2> QED
    BY Zenon, <2>2, <2>3
<1>5. CASE MyThreadStartRoutine(t)
  <2>1. /\ UNCHANGED <<ticker, oldticker, cur, ptr>> /\ pc' = [pc EXCEPT ![t] = "start"]
        /\ sub' = [sub EXCEPT ![t] = "init"]
    BY Zenon, <1>5 DEF MyThreadStartRoutine, Goto, Within
  <2>2. PlaceAt(t)'
    BY Zenon, <2>1 DEF PlaceInv, PlaceAt, TypeOK, Callers
  <2> QED
    BY Zenon, <2>1, <2>2, PlaceKept DEF TypeOK
<1>6. CASE WaitForHbNode(t)
  <2> DEFINE next == SkipNops(MySchedule(t), ptr[t] + 1)
  <2>1. pc[t] \in Callers /\ sub[t] = "none"
    BY Zenon, <1>6 DEF WaitForHbNode, Waiting, Callers
  <2>2. next \in Nat /\ next >= ptr[t] + 1
    <3>1. MySchedule(t) \in Seq(HBNode) /\ ptr[t] + 1 \in Nat
      BY SMTT(30), <2>1, FollowsSchedule DEF TypeOK
    <3> QED
      BY <3>1, SkipForward
  <2>3. /\ cur' = [cur EXCEPT ![t] = ptr[t]] /\ ptr' = [ptr EXCEPT ![t] = next]
        /\ pc' = [pc EXCEPT ![t] = "op"] /\ UNCHANGED <<ticker, oldticker, sub>>
    BY Zenon, <1>6 DEF WaitForHbNode, Goto
  <2> HIDE DEF next
  <2>4. PlaceAt(t)'
    BY <2>1, <2>2, <2>3 DEF PlaceInv, PlaceAt, TypeOK
  <2> QED
    BY Zenon, <2>3, <2>4, PlaceKept DEF TypeOK
<1>7. CASE AdvanceToNextFragmentIfComplete(t)
  <2>1. (IF pc[t] = "asleep" THEN "must" ELSE pc[t]) \in Callers
    BY Zenon, <1>7 DEF AdvanceToNextFragmentIfComplete, Waiting, Callers
  <2> QED
    BY Zenon, <1>7, <2>1, PlaceBegin DEF AdvanceToNextFragmentIfComplete, Goto
<1>8. ASSUME BeginRegionBarrier(t, 0), UNCHANGED pc, pc[t] \in Callers
      PROVE  PlaceInv'
  <2>1. pc' = [pc EXCEPT ![t] = pc[t]]
    BY Zenon, <1>0, <1>8
  <2> QED
    BY Zenon, <1>8, <2>1, PlaceBegin
<1>9. ASSUME NEW there, Goto(t, there), sub[t] = "none",
             UNCHANGED <<ticker, sub, oldticker, cur, ptr>>,
             there \notin {"op", "uncounted", "exiting"}
      PROVE  PlaceInv'
  BY Zenon, <1>9, PlaceGoto
<1>10. CASE SleepThroughBarrier(t)
  BY Zenon, <1>8, <1>10 DEF SleepThroughBarrier, Callers
<1>11. CASE AfterMarker(t)
  <2>1. CASE BeginRegionBarrier(t, 0)
    <3>1. "idle" \in Callers
      BY Zenon DEF Callers
    <3> QED
      BY Zenon, <1>11, <2>1, <3>1, PlaceBegin DEF AfterMarker, Goto
  <2>2. CASE ~BeginRegionBarrier(t, 0)
    BY Zenon, <1>9, <1>11, <2>2 DEF AfterMarker
  <2> QED
    BY Zenon, <2>1, <2>2
<1>12. CASE SkipRegionBarriersOrExit(t)
  <2>1. CASE BeginRegionBarrier(t, 0) /\ UNCHANGED pc
    BY Zenon, <1>8, <1>12, <2>1 DEF SkipRegionBarriersOrExit, Callers
  <2>2. CASE ~(BeginRegionBarrier(t, 0) /\ UNCHANGED pc)
    BY Zenon, <1>9, <1>12, <2>2 DEF SkipRegionBarriersOrExit
  <2> QED
    BY Zenon, <2>1, <2>2
<1>13. CASE JoinAllLoop(t)
  <2>1. CASE BeginRegionBarrier(t, 0) /\ UNCHANGED pc /\ pc[t] = "joinbody"
    BY Zenon, <1>8, <2>1 DEF Callers
  <2>2. CASE ~(BeginRegionBarrier(t, 0) /\ UNCHANGED pc /\ pc[t] = "joinbody")
    <3>1. /\ UNCHANGED <<ticker, sub, oldticker, cur, ptr>> /\ sub[t] = "none"
          /\ \E there \in {"joinall", "joinbody", "joinwait", "yield"} : Goto(t, there)
      BY Zenon, <1>13, <2>2 DEF JoinAllLoop
    <3> QED
      BY Zenon, <1>9, <3>1
  <2> QED
    BY Zenon, <2>1, <2>2
<1>14. CASE SyncOp(t) \/ SpawnNode(t) \/ JoinedNode(t)
  <2>1. sub[t] = "none"
    BY Zenon, <1>14, PlainPlace DEF SyncOp, SpawnNode, JoinedNode, DoOneSyncOp, Callers
  <2>2. /\ UNCHANGED <<ticker, sub, oldticker, cur, ptr>>
        /\ \E there \in {"idle", "asleep", "read", "marked", "skipbar", "joinall", "spawned", "reap"} :
             Goto(t, there)
    BY Zenon, <1>14 DEF SyncOp, SpawnNode, JoinedNode, DoOneSyncOp
  <2> QED
    BY Zenon, <1>9, <2>1, <2>2
<1>15. CASE MyThreadCommonInit(t) \/ AfterInput(t)
  BY Zenon, <1>9, <1>15 DEF MyThreadCommonInit, AfterInput
<1>16. CASE \/ JoinAllYield(t) \/ PthreadCreate(t) \/ CountRunning(t) \/ CountTotal(t) \/ PthreadJoin(t)
            \/ Reap(t) \/ PthreadDetach(t) \/ MyThreadCommonTeardown(t)
  <2>1. sub[t] = "none"
    BY Zenon, <1>16, PlainPlace DEF JoinAllYield, PthreadCreate, CountRunning, CountTotal, PthreadJoin, Reap,
                             PthreadDetach, MyThreadCommonTeardown, Callers
  <2>2. /\ UNCHANGED <<ticker, sub, oldticker, cur, ptr>>
        /\ \E there \in {"idle", "created", "counted", "spawn", "asleep", "dead"} : Goto(t, there)
    BY Zenon, <1>16 DEF JoinAllYield, PthreadCreate, CountRunning, CountTotal, PthreadJoin, Reap,
                 PthreadDetach, MyThreadCommonTeardown
  <2> QED
    BY Zenon, <1>9, <2>1, <2>2
<1>17. CASE PthreadExit(t) \/ ExitTotal(t) \/ (ExitNode(t) /\ ~Stop("schedule not complete at exit"))
  <2>1. sub[t] = "none"
    BY Zenon, <1>17, PlainPlace DEF PthreadExit, ExitTotal, ExitNode, Callers
  <2>2. cur[t] < ptr[t]
    BY Zenon, <1>17 DEF PthreadExit, ExitTotal, ExitNode, PlaceInv
  <2>3. UNCHANGED <<ticker, sub, oldticker, cur, ptr>> /\ \E there : Goto(t, there)
    BY Zenon, <1>17 DEF PthreadExit, ExitTotal, ExitNode
  <2> QED
    BY Zenon, <2>1, <2>2, <2>3, PlaceGoto
<1>18. CASE Spawn(t)
  <2>1. /\ pc[t] = "spawned" /\ pc[child[t]] \in {"none", "dead"}
        /\ pc' = [pc EXCEPT ![t] = "idle", ![child[t]] = "born"]
        /\ UNCHANGED <<ticker, sub, oldticker, cur, ptr>>
    BY Zenon, <1>18 DEF Spawn
  <2>2. sub[t] = "none" /\ (child[t] \in Thread => sub[child[t]] = "none")
    BY Zenon, <2>1, PlainPlace DEF Callers
  <2> QED
    BY Zenon, <2>1, <2>2 DEF PlaceInv, TypeOK
<1>19. CASE \E why : Stop(why)
  BY Zenon, <1>1, <1>19 DEF Stop
<1>20. CASE HbNodeMissing(t) \/ RunOff(t)
  BY Zenon, <1>19, <1>20 DEF HbNodeMissing, RunOff
<1> QED
  BY Zenon, <1>2, <1>3, <1>4, <1>5, <1>6, <1>7, <1>10, <1>11, <1>12, <1>13, <1>14, <1>15, <1>16, <1>17, <1>18,
     <1>19, <1>20 DEF Step
-----------------------------------------------------------------------------
(* The counters of the region barrier.                                       *)

\* A step of a counted thread that stays in the region, and that the counters do
\* not see.
Quiet(t) ==
  /\ UNCHANGED <<running, total, live, ticker, child>>
  /\ \A u \in Thread \ {t} : pc'[u] = pc[u] /\ sub'[u] = sub[u] /\ oldticker'[u] = oldticker[u]
  /\ InRegion(t) /\ ~Stopped(t) /\ ~Releasing(t)
  /\ pc[t] \notin {"created", "counted"}
  /\ pc'[t] \notin Outside
  /\ sub'[t] \notin {"select", "release"}

\* The three inequalities, when a counter does not fall and nobody joins those
\* it counts.
LEMMA CountsKept ==
  ASSUME TypeOK, TypeOK', BarrierCount
  PROVE  /\ /\ running' >= running /\ Counted' \subseteq Counted
            /\ Creating({"created"})' \subseteq Creating({"created"})
            => running' >= Cardinality(Counted') + Cardinality(Creating({"created"})')
         /\ /\ total' >= total /\ Enrolled' \subseteq Enrolled
            /\ Creating({"created", "counted"})' \subseteq Creating({"created", "counted"})
            => total' >= Cardinality(Enrolled') + Cardinality(Creating({"created", "counted"})')
         /\ /\ live' >= live /\ Present' \subseteq Present
            /\ Creating({})' \subseteq Creating({})
            => live' >= Cardinality(Present') + Cardinality(Creating({})')
<1>1. /\ Counted \in SUBSET Thread /\ Enrolled \in SUBSET Thread /\ Present \in SUBSET Thread
      /\ \A places : Creating(places) \in SUBSET Thread
  BY Zenon DEF Counted, Enrolled, Present, Creating
<1>2. /\ running \in Nat /\ total \in Nat /\ live \in Nat
      /\ running' \in Nat /\ total' \in Nat /\ live' \in Nat
  BY Zenon DEF TypeOK
<1>3. ASSUME NEW A \in SUBSET Thread, NEW B \in SUBSET Thread, NEW C \in SUBSET A, NEW D \in SUBSET B,
             NEW n \in Nat, NEW m \in Nat, m >= n, n >= Cardinality(A) + Cardinality(B)
      PROVE  m >= Cardinality(C) + Cardinality(D)
  <2>1. /\ Cardinality(C) \in Nat /\ Cardinality(A) \in Nat /\ Cardinality(C) <= Cardinality(A)
        /\ Cardinality(D) \in Nat /\ Cardinality(B) \in Nat /\ Cardinality(D) <= Cardinality(B)
    BY Zenon, <1>3, CountSubset
  <2> QED
    BY <1>3, <2>1
<1>4. /\ running >= Cardinality(Counted) + Cardinality(Creating({"created"}))
      /\ total >= Cardinality(Enrolled) + Cardinality(Creating({"created", "counted"}))
      /\ live >= Cardinality(Present) + Cardinality(Creating({}))
  BY Zenon DEF BarrierCount
<1>5. ASSUME running' >= running, Counted' \subseteq Counted,
             Creating({"created"})' \subseteq Creating({"created"})
      PROVE  running' >= Cardinality(Counted') + Cardinality(Creating({"created"})')
  BY <1>1, <1>2, <1>3, <1>4, <1>5
<1>6. ASSUME total' >= total, Enrolled' \subseteq Enrolled,
             Creating({"created", "counted"})' \subseteq Creating({"created", "counted"})
      PROVE  total' >= Cardinality(Enrolled') + Cardinality(Creating({"created", "counted"})')
  BY <1>1, <1>2, <1>3, <1>4, <1>6
<1>7. ASSUME live' >= live, Present' \subseteq Present, Creating({})' \subseteq Creating({})
      PROVE  live' >= Cardinality(Present') + Cardinality(Creating({})')
  BY Zenon, <1>1, <1>2, <1>3, <1>4, <1>7
<1> QED
  BY Zenon, <1>5, <1>6, <1>7

\* A quiet step keeps the counters right.
LEMMA QuietCount ==
  ASSUME TypeOK, TypeOK', BarrierCount, NEW t \in Thread, Quiet(t)
  PROVE  BarrierCount'
<1>1. Counted' \subseteq Counted
  BY Zenon DEF Quiet, Counted, InRegion, Stopped, Releasing, TypeOK
<1>2. Enrolled' \subseteq Enrolled /\ Present' \subseteq Present
  BY Zenon DEF Quiet, Enrolled, Present, InRegion, Outside
<1>3. /\ Creating({"created"})' \subseteq Creating({"created"})
      /\ Creating({"created", "counted"})' \subseteq Creating({"created", "counted"})
      /\ Creating({})' \subseteq Creating({})
  BY Zenon DEF Quiet, Creating
<1>4. t \in Counted
  BY Zenon DEF Quiet, Counted
<1>5. \A u \in Thread : ~Releasing(u)'
  BY Zenon, <1>4, NobodyReleases DEF Quiet, Releasing
<1>6. running' >= running /\ total' >= total /\ live' >= live
  BY DEF Quiet, TypeOK
<1>7. /\ running' >= Cardinality(Counted') + Cardinality(Creating({"created"})')
      /\ total' >= Cardinality(Enrolled') + Cardinality(Creating({"created", "counted"})')
      /\ live' >= Cardinality(Present') + Cardinality(Creating({})')
  BY Zenon, <1>1, <1>2, <1>3, <1>6, CountsKept
<1> QED
  BY Zenon, <1>5, <1>7 DEF BarrierCount

\* The steps that enter AdvanceToNextFragment or RegionBarrier are quiet.
LEMMA QuietBegin ==
  ASSUME TypeOK, PlaceInv, NEW t \in Thread, NEW d,
         pc[t] \in Callers, sub[t] \in {"none", "init"},
         BeginNextFragment(t, d) \/ BeginRegionBarrier(t, d),
         \/ UNCHANGED pc
         \/ \E there \in Callers : Goto(t, there)
  PROVE  Quiet(t)
<1>1. UNCHANGED <<running, total, live, ticker, child>>
  BY Zenon DEF BeginNextFragment, BeginRegionBarrier, barrier, threads
<1>2. \A u \in Thread \ {t} : pc'[u] = pc[u] /\ sub'[u] = sub[u] /\ oldticker'[u] = oldticker[u]
  BY Zenon DEF BeginNextFragment, BeginRegionBarrier, Within, Goto, TypeOK
<1>3. InRegion(t) /\ ~Stopped(t) /\ ~Releasing(t) /\ pc[t] \notin {"created", "counted"}
  BY Zenon DEF InRegion, Stopped, Releasing, Callers, Outside
<1>4. pc'[t] \notin Outside
  BY Zenon DEF Goto, TypeOK, Callers, Outside
<1>5. sub'[t] \notin {"select", "release"}
  BY Zenon DEF BeginNextFragment, BeginRegionBarrier, Within, TypeOK
<1> QED
  BY Zenon, <1>1, <1>2, <1>3, <1>4, <1>5 DEF Quiet

\* The steps of a counted thread that leave the counters alone.
QuietStep(t) ==
  \/ ChooseFragment(t) \/ UpdateCurrFragmentId(t) \/ WaitForNextFragment(t)
  \/ WaitAtRegionBarrier(t) \/ MyThreadStartRoutine(t) \/ MyThreadCommonInit(t)
  \/ AdvanceToNextFragmentIfComplete(t) \/ WaitForHbNode(t) \/ SleepThroughBarrier(t) \/ SyncOp(t)
  \/ AfterInput(t) \/ AfterMarker(t) \/ SkipRegionBarriersOrExit(t) \/ JoinAllLoop(t)
  \/ JoinAllYield(t) \/ SpawnNode(t) \/ PthreadJoin(t) \/ JoinedNode(t) \/ Reap(t)
  \/ PthreadDetach(t)
  \/ InitializeMyThreadSchedulePtr(t) /\ ~Stop("no schedule in region")

\* The quiet steps leave the three counters and who they count alone.
LEMMA QuietSteps ==
  ASSUME TypeOK, PlaceInv, NEW t \in Thread, QuietStep(t)
  PROVE  Quiet(t)
<1> USE DEF barrier, threads, place, Goto, Within, Quiet, InRegion, Stopped, Releasing, Outside
<1>1. CASE ChooseFragment(t) \/ UpdateCurrFragmentId(t) \/ WaitForNextFragment(t)
  <2>1. pc[t] \in Callers /\ sub[t] \in {"choose", "publish", "fragwait"}
    BY Zenon, <1>1 DEF ChooseFragment, UpdateCurrFragmentId, WaitForNextFragment, PlaceInv
  <2> QED
    BY Zenon, <1>1, <2>1 DEF ChooseFragment, UpdateCurrFragmentId, WaitForNextFragment, TypeOK, Callers
<1>2. CASE WaitAtRegionBarrier(t)
  <2>1. pc[t] \in Callers
    BY Zenon, <1>2 DEF WaitAtRegionBarrier, PlaceInv
  <2> QED
    BY Zenon, <1>2, <2>1 DEF WaitAtRegionBarrier, TypeOK, Callers
<1>3. CASE MyThreadStartRoutine(t)
  <2>1. sub[t] = "none"
    BY Zenon, <1>3, PlainPlace DEF MyThreadStartRoutine, Callers
  <2> QED
    BY Zenon, <1>3, <2>1 DEF MyThreadStartRoutine, TypeOK
<1>4. CASE MyThreadCommonInit(t)
  BY Zenon, <1>4 DEF MyThreadCommonInit, TypeOK
<1>5. CASE AdvanceToNextFragmentIfComplete(t)
  <2>1. pc[t] \in Callers /\ (IF pc[t] = "asleep" THEN "must" ELSE pc[t]) \in Callers
    BY Zenon, <1>5 DEF AdvanceToNextFragmentIfComplete, Waiting, Callers
  <2> QED
    BY Zenon, <1>5, <2>1, QuietBegin DEF AdvanceToNextFragmentIfComplete
<1>6. CASE WaitForHbNode(t)
  BY Zenon, <1>6 DEF WaitForHbNode, Waiting, TypeOK
<1>7. CASE SleepThroughBarrier(t)
  <2>1. pc[t] \in Callers
    BY Zenon, <1>7 DEF SleepThroughBarrier, Callers
  <2> QED
    BY Zenon, <1>7, <2>1, QuietBegin DEF SleepThroughBarrier
<1>8. CASE SyncOp(t) \/ SpawnNode(t) \/ JoinedNode(t)
  <2>1. pc[t] = "op"
    BY Zenon, <1>8 DEF SyncOp, SpawnNode, JoinedNode, DoOneSyncOp
  <2>2. sub[t] = "none"
    BY Zenon, <2>1, PlainPlace DEF Callers
  <2> QED
    BY Zenon, <1>8, <2>1, <2>2 DEF SyncOp, SpawnNode, JoinedNode, DoOneSyncOp, TypeOK
<1>9. CASE AfterInput(t)
  BY Zenon, <1>9 DEF AfterInput, TypeOK
<1>10. CASE AfterMarker(t)
  <2>1. CASE BeginRegionBarrier(t, 0)
    <3>1. pc[t] \in Callers /\ "idle" \in Callers
      BY Zenon, <1>10 DEF AfterMarker, Callers
    <3> QED
      BY Zenon, <1>10, <2>1, <3>1, QuietBegin DEF AfterMarker
  <2>2. CASE ~BeginRegionBarrier(t, 0)
    BY Zenon, <1>10, <2>2 DEF AfterMarker, TypeOK
  <2> QED
    BY Zenon, <2>1, <2>2
<1>11. CASE SkipRegionBarriersOrExit(t)
  <2>1. CASE BeginRegionBarrier(t, 0) /\ UNCHANGED pc
    <3>1. pc[t] \in Callers
      BY Zenon, <1>11 DEF SkipRegionBarriersOrExit, Callers
    <3> QED
      BY Zenon, <1>11, <2>1, <3>1, QuietBegin DEF SkipRegionBarriersOrExit
  <2>2. CASE ~(BeginRegionBarrier(t, 0) /\ UNCHANGED pc)
    BY Zenon, <1>11, <2>2 DEF SkipRegionBarriersOrExit, TypeOK
  <2> QED
    BY Zenon, <2>1, <2>2
<1>12. CASE JoinAllLoop(t)
  <2>1. CASE BeginRegionBarrier(t, 0) /\ UNCHANGED pc /\ pc[t] = "joinbody"
    <3>1. pc[t] \in Callers
      BY Zenon, <2>1 DEF Callers
    <3> QED
      BY Zenon, <1>12, <2>1, <3>1, QuietBegin DEF JoinAllLoop
  <2>2. CASE ~(BeginRegionBarrier(t, 0) /\ UNCHANGED pc /\ pc[t] = "joinbody")
    BY Zenon, <1>12, <2>2 DEF JoinAllLoop, TypeOK
  <2> QED
    BY Zenon, <2>1, <2>2
<1>13. CASE JoinAllYield(t)
  <2>1. sub[t] = "none"
    BY Zenon, <1>13, PlainPlace DEF JoinAllYield, Callers
  <2> QED
    BY Zenon, <1>13, <2>1 DEF JoinAllYield, TypeOK
<1>14. CASE PthreadJoin(t) \/ PthreadDetach(t) \/ Reap(t)
  <2>1. sub[t] = "none"
    BY Zenon, <1>14, PlainPlace DEF PthreadJoin, PthreadDetach, Reap, Callers
  <2> QED
    BY Zenon, <1>14, <2>1 DEF PthreadJoin, PthreadDetach, Reap, TypeOK
<1>15. CASE InitializeMyThreadSchedulePtr(t) /\ ~Stop("no schedule in region")
  <2>1. pc[t] \in Callers /\ sub[t] = "init"
    BY Zenon, <1>15 DEF InitializeMyThreadSchedulePtr, PlaceInv
  <2>2. CASE \/ BeginRegionBarrier(t, depth[t] + 1) /\ UNCHANGED pc
             \/ BeginNextFragment(t, depth[t] + 1) /\ UNCHANGED pc
    BY Zenon, <2>1, <2>2, QuietBegin
  <2>3. CASE ~\/ BeginRegionBarrier(t, depth[t] + 1) /\ UNCHANGED pc
              \/ BeginNextFragment(t, depth[t] + 1) /\ UNCHANGED pc
    BY Zenon, <1>15, <2>1, <2>3 DEF InitializeMyThreadSchedulePtr, TypeOK, Callers
  <2> QED
    BY Zenon, <2>2, <2>3
<1> QED
  BY Zenon, <1>1, <1>2, <1>3, <1>4, <1>5, <1>6, <1>7, <1>8, <1>9, <1>10, <1>11, <1>12, <1>13, <1>14, <1>15
     DEF QuietStep

\* What the counters depend on.
LEMMA SameCount ==
  ASSUME BarrierCount, UNCHANGED <<running, total, live, ticker, child, pc, sub, oldticker>>
  PROVE  BarrierCount'
  BY Zenon DEF BarrierCount, Counted, Enrolled, Present, Creating, InRegion, Stopped, Releasing

\* The counters stay right in every step.
LEMMA CountStep ==
  ASSUME TypeOK, TypeOK', BarrierCount, PlaceInv, NEW t \in Thread, Step(t)
  PROVE  BarrierCount'
<1> DEFINE R == running' >= Cardinality(Counted') + Cardinality(Creating({"created"})')
           T == total' >= Cardinality(Enrolled') + Cardinality(Creating({"created", "counted"})')
           L == live' >= Cardinality(Present') + Cardinality(Creating({})')
<1>0. /\ Counted \in SUBSET Thread /\ Enrolled \in SUBSET Thread /\ Present \in SUBSET Thread
      /\ \A places : Creating(places) \in SUBSET Thread
  BY Zenon DEF Counted, Enrolled, Present, Creating
<1>a. /\ running \in Nat /\ total \in Nat /\ live \in Nat
      /\ running' \in Nat /\ total' \in Nat /\ live' \in Nat
  BY Zenon DEF TypeOK
<1>t. /\ pc \in [Thread -> Pc] /\ sub \in [Thread -> Sub] /\ oldticker \in [Thread -> Nat]
      /\ child \in [Thread -> Thread \cup {NoThread}]
  BY Zenon DEF TypeOK
<1>b. /\ running >= Cardinality(Counted) + Cardinality(Creating({"created"}))
      /\ total >= Cardinality(Enrolled) + Cardinality(Creating({"created", "counted"}))
      /\ live >= Cardinality(Present) + Cardinality(Creating({}))
  BY Zenon DEF BarrierCount
<1>c. ASSUME R, T, L, \A u \in Thread : ~Releasing(u)'
      PROVE  BarrierCount'
  BY Zenon, <1>c DEF BarrierCount
<1>d. ASSUME R, T, L, UNCHANGED running, \A u \in Thread : Releasing(u)' => Releasing(u)
      PROVE  BarrierCount'
  BY Zenon, <1>d DEF BarrierCount
<1> HIDE DEF R, T, L
<1>1. CASE QuietStep(t)
  BY Zenon, <1>1, QuietSteps, QuietCount
<1>2. CASE \E why \in Outcome : Stop(why)
  BY Zenon, <1>2, SameCount DEF Stop, barrier, threads, place
<1>3. CASE Arrive(t)
  <2>1. pc[t] \in Callers /\ oldticker[t] = ticker
    BY Zenon, <1>3 DEF Arrive, PlaceInv
  <2>2. t \in Counted
    BY Zenon, <1>3, <2>1 DEF Arrive, Counted, InRegion, Stopped, Releasing, Callers, Outside
  <2>3. Counted' \subseteq Counted \ {t}
    BY Zenon, <1>t, <1>3, <2>1 DEF Arrive, Counted, InRegion, Stopped, Releasing, place, Within
  <2>4. /\ Enrolled' \subseteq Enrolled /\ Present' \subseteq Present
        /\ \A places : Creating(places)' \subseteq Creating(places)
    BY Zenon, <1>3 DEF Arrive, Enrolled, Present, Creating, InRegion, threads
  <2>5. R
    <3>1. /\ Cardinality(Counted') \in Nat /\ Cardinality(Counted) \in Nat
          /\ Cardinality(Counted') + 1 <= Cardinality(Counted)
      BY Zenon, <1>0, <2>2, <2>3, CountRemove
    <3>2. /\ Cardinality(Creating({"created"})') \in Nat /\ Cardinality(Creating({"created"})) \in Nat
          /\ Cardinality(Creating({"created"})') <= Cardinality(Creating({"created"}))
      BY Zenon, <1>0, <2>4, CountSubset
    <3>3. running' = running - 1
      BY Zenon, <1>3 DEF Arrive
    <3> QED
      BY <1>a, <1>b, <3>1, <3>2, <3>3 DEF R
  <2>6. T /\ L
    BY <1>3, <1>a, <2>4, CountsKept DEF Arrive, threads, T, L
  <2>7. \A u \in Thread : ~Releasing(u) /\ running >= 1
    BY Zenon, <2>2, NobodyReleases
  <2>8. \A u \in Thread \ {t} : ~Releasing(u)'
    BY Zenon, <1>t, <1>3, <2>7 DEF Arrive, Releasing, Within
  <2>9. Releasing(t)' => running' = 0
    BY <1>t, <1>3 DEF Arrive, Releasing, Within, LastArrival
  <2> QED
    BY Zenon, <2>5, <2>6, <2>8, <2>9 DEF BarrierCount, R, T, L
<1>4. CASE SelectRegion(t)
  <2>1. CASE Stop("no matching region")
    BY Zenon, <1>2, <2>1 DEF Outcome
  <2>2. CASE ~Stop("no matching region")
    <3>1. /\ UNCHANGED <<running, total, live, ticker, child, pc, oldticker>>
          /\ sub' = [sub EXCEPT ![t] = "release"]
      BY Zenon, <1>4, <2>2 DEF SelectRegion, barrier, threads, place, Within
    <3>2. Counted' \subseteq Counted
      BY Zenon, <1>t, <3>1 DEF Counted, InRegion, Stopped, Releasing
    <3>3. /\ Enrolled' \subseteq Enrolled /\ Present' \subseteq Present
          /\ \A places : Creating(places)' \subseteq Creating(places)
      BY Zenon, <3>1 DEF Enrolled, Present, Creating, InRegion
    <3>4. R /\ T /\ L
      BY <1>a, <3>1, <3>2, <3>3, CountsKept DEF R, T, L
    <3>5. \A u \in Thread : Releasing(u)' => Releasing(u)
      BY Zenon, <1>t, <1>4, <3>1 DEF SelectRegion, Releasing
    <3> QED
      BY Zenon, <1>d, <3>1, <3>4, <3>5
  <2> QED
    BY Zenon, <2>1, <2>2
<1>5. CASE ReleaseRegionBarrier(t)
  <2>1. Releasing(t)
    BY Zenon, <1>5 DEF ReleaseRegionBarrier, Releasing
  <2>2. running = 0 /\ \A u \in Thread \ {t} : ~Releasing(u)
    BY Zenon, <2>1 DEF BarrierCount
  <2>3. Creating({"created"}) = {}
    <3>1. Cardinality(Counted) \in Nat /\ Cardinality(Creating({"created"})) \in Nat
      BY Zenon, <1>0, CountSubset
    <3>2. Cardinality(Creating({"created"})) <= 0
      BY <1>b, <2>2, <3>1
    <3> QED
      BY Zenon, <1>0, <3>2, CountEmpty
  <2>4. /\ Enrolled' \subseteq Enrolled /\ Present' \subseteq Present /\ Counted' \subseteq Enrolled
        /\ \A places : Creating(places)' \subseteq Creating(places)
    BY Zenon, <1>5 DEF ReleaseRegionBarrier, Counted, Enrolled, Present, Creating, InRegion, threads
  <2>5. T /\ L
    BY <1>5, <1>a, <2>4, CountsKept DEF ReleaseRegionBarrier, threads, T, L
  <2>6. R
    <3>1. Creating({"created"})' = {}
      BY Zenon, <2>3, <2>4
    <3>2. Cardinality(Creating({"created"})') = 0
      BY Zenon, <3>1, FS_EmptySet
    <3>3. /\ Cardinality(Counted') \in Nat /\ Cardinality(Enrolled) \in Nat
          /\ Cardinality(Counted') <= Cardinality(Enrolled)
      BY Zenon, <1>0, <2>4, CountSubset
    <3>4. Cardinality(Creating({"created", "counted"})) \in Nat
      BY Zenon, <1>0, CountSubset
    <3>5. running' = total
      BY Zenon, <1>5 DEF ReleaseRegionBarrier, ReleasedCount
    <3> QED
      BY <1>a, <1>b, <3>2, <3>3, <3>4, <3>5 DEF R
  <2>7. \A u \in Thread : ~Releasing(u)'
    BY Zenon, <1>t, <1>5, <2>2 DEF ReleaseRegionBarrier, Releasing, Within
  <2> QED
    BY Zenon, <1>c, <2>5, <2>6, <2>7
<1>6. CASE PthreadCreate(t)
  <2>1. sub[t] = "none" /\ pc[t] = "op"
    BY Zenon, <1>6, PlainPlace DEF PthreadCreate, Callers
  <2>2. t \in Counted
    BY Zenon, <2>1 DEF Counted, InRegion, Stopped, Releasing, Outside
  <2>3. \A u \in Thread : ~Releasing(u)'
    BY Zenon, <1>6, <2>2, NobodyReleases DEF PthreadCreate, Releasing
  <2>4. \/ live' = live + 1 /\ pc' = [pc EXCEPT ![t] = "created"] /\ \E u : child' = [child EXCEPT ![t] = u]
        \/ live' = live /\ pc' = [pc EXCEPT ![t] = "idle"] /\ child' = child
    BY Zenon, <1>6 DEF PthreadCreate, Goto
  <2>5. UNCHANGED <<running, total, ticker, sub, oldticker>>
    BY Zenon, <1>6 DEF PthreadCreate, barrier, place
  <2>6. Counted' \subseteq Counted
    BY Zenon, <1>t, <2>2, <2>4, <2>5 DEF Counted, InRegion, Stopped, Releasing
  <2>7. Enrolled' \subseteq Enrolled /\ Present' \subseteq Present
    BY Zenon, <1>t, <2>1, <2>4 DEF Enrolled, Present, InRegion, Outside
  <2>8. /\ Creating({"created"})' \subseteq Creating({"created"})
        /\ Creating({"created", "counted"})' \subseteq Creating({"created", "counted"})
    BY Zenon, <1>t, <2>1, <2>4 DEF Creating
  <2>9. R /\ T
    BY <1>a, <2>5, <2>6, <2>7, <2>8, CountsKept DEF R, T
  <2>10. CASE live' = live /\ child' = child /\ pc' = [pc EXCEPT ![t] = "idle"]
    <3>1. Creating({})' \subseteq Creating({})
      BY Zenon, <2>10 DEF Creating
    <3>2. L
      BY SMTT(30), <1>a, <2>7, <2>10, <3>1, CountsKept DEF L
    <3> QED
      BY Zenon, <1>c, <2>3, <2>9, <3>2
  <2>11. CASE live' = live + 1 /\ \E u : child' = [child EXCEPT ![t] = u]
    <3>1. Creating({})' \subseteq Creating({}) \cup {t}
      BY Zenon, <1>t, <2>11 DEF Creating
    <3>2. /\ Cardinality(Creating({})') \in Nat /\ Cardinality(Creating({})) \in Nat
          /\ Cardinality(Creating({})') <= Cardinality(Creating({})) + 1
      BY Zenon, <1>0, <3>1, CountAdd
    <3>3. /\ Cardinality(Present') \in Nat /\ Cardinality(Present) \in Nat
          /\ Cardinality(Present') <= Cardinality(Present)
      BY Zenon, <1>0, <2>7, CountSubset
    <3>4. L
      BY <1>a, <1>b, <2>11, <3>2, <3>3 DEF L
    <3> QED
      BY Zenon, <1>c, <2>3, <2>9, <3>4
  <2> QED
    BY Zenon, <2>4, <2>10, <2>11
<1>7. CASE CountRunning(t) \/ CountTotal(t)
  <2>1. sub[t] = "none" /\ pc[t] \in {"created", "counted"}
    BY Zenon, <1>7, PlainPlace DEF CountRunning, CountTotal, Callers
  <2>2. t \in Counted
    BY Zenon, <2>1 DEF Counted, InRegion, Stopped, Releasing, Outside
  <2>3. \A u \in Thread : ~Releasing(u)'
    BY Zenon, <1>7, <2>2, NobodyReleases DEF CountRunning, CountTotal, Releasing
  <2>4. UNCHANGED <<live, ticker, sub, oldticker, child>>
    BY Zenon, <1>7 DEF CountRunning, CountTotal, barrier, place, threads
  <2>5. pc' = [pc EXCEPT ![t] = IF pc[t] = "created" THEN "counted" ELSE "spawn"]
    BY Zenon, <1>7 DEF CountRunning, CountTotal, Goto
  <2>6. Counted' \subseteq Counted
    BY Zenon, <1>t, <2>2, <2>4, <2>5 DEF Counted, InRegion, Stopped, Releasing
  <2>7. Enrolled' \subseteq Enrolled /\ Present' \subseteq Present
    BY Zenon, <1>t, <2>1, <2>5 DEF Enrolled, Present, InRegion, Outside
  <2>8. Creating({})' \subseteq Creating({})
    BY Zenon, <2>4 DEF Creating
  <2>9. L
    BY <1>a, <2>4, <2>7, <2>8, CountsKept DEF L
  <2>10. CASE CountRunning(t)
    <3>1. running' = running + 1 /\ total' = total /\ pc[t] = "created"
      BY Zenon, <2>10 DEF CountRunning
    <3>2. Creating({"created", "counted"})' \subseteq Creating({"created", "counted"})
      BY Zenon, <1>t, <2>4, <2>5, <3>1 DEF Creating
    <3>3. T
      BY <1>a, <2>7, <3>1, <3>2, CountsKept DEF T
    <3>4. Creating({"created"})' \subseteq Creating({"created"}) \cup {t}
      BY Zenon, <1>t, <2>4, <2>5 DEF Creating
    <3>5. /\ Cardinality(Creating({"created"})') \in Nat /\ Cardinality(Creating({"created"})) \in Nat
          /\ Cardinality(Creating({"created"})') <= Cardinality(Creating({"created"})) + 1
      BY Zenon, <1>0, <3>4, CountAdd
    <3>6. /\ Cardinality(Counted') \in Nat /\ Cardinality(Counted) \in Nat
          /\ Cardinality(Counted') <= Cardinality(Counted)
      BY Zenon, <1>0, <2>6, CountSubset
    <3>7. R
      BY <1>a, <1>b, <3>1, <3>5, <3>6 DEF R
    <3> QED
      BY Zenon, <1>c, <2>3, <2>9, <3>3, <3>7
  <2>11. CASE CountTotal(t)
    <3>1. running' = running /\ total' = total + 1 /\ pc[t] = "counted"
      BY Zenon, <2>11 DEF CountTotal
    <3>2. Creating({"created"})' \subseteq Creating({"created"})
      BY Zenon, <1>t, <2>4, <2>5, <3>1 DEF Creating
    <3>3. R
      BY <1>a, <2>6, <3>1, <3>2, CountsKept DEF R
    <3>4. Creating({"created", "counted"})' \subseteq Creating({"created", "counted"}) \cup {t}
      BY Zenon, <1>t, <2>4, <2>5 DEF Creating
    <3>5. /\ Cardinality(Creating({"created", "counted"})') \in Nat
          /\ Cardinality(Creating({"created", "counted"})) \in Nat
          /\ Cardinality(Creating({"created", "counted"})') <= Cardinality(Creating({"created", "counted"})) + 1
      BY Zenon, <1>0, <3>4, CountAdd
    <3>6. /\ Cardinality(Enrolled') \in Nat /\ Cardinality(Enrolled) \in Nat
          /\ Cardinality(Enrolled') <= Cardinality(Enrolled)
      BY Zenon, <1>0, <2>7, CountSubset
    <3>7. T
      BY <1>a, <1>b, <3>1, <3>5, <3>6 DEF T
    <3> QED
      BY Zenon, <1>c, <2>3, <2>9, <3>3, <3>7
  <2> QED
    BY Zenon, <1>7, <2>10, <2>11
<1>8. CASE Spawn(t)
  <2>1. sub[t] = "none" /\ pc[t] = "spawned"
    BY Zenon, <1>8, PlainPlace DEF Spawn, Callers
  <2>2. t \in Counted
    BY Zenon, <2>1 DEF Counted, InRegion, Stopped, Releasing, Outside
  <2>3. \A u \in Thread : ~Releasing(u)'
    BY Zenon, <1>8, <2>2, NobodyReleases DEF Spawn, Releasing
  <2>4. /\ UNCHANGED <<running, total, live, ticker, sub, oldticker>>
        /\ pc' = [pc EXCEPT ![t] = "idle", ![child[t]] = "born"]
        /\ child' = [child EXCEPT ![t] = NoThread]
    BY Zenon, <1>8 DEF Spawn, barrier, place
  <2>5. \A places : Creating(places)' \subseteq Thread \ {t}
    BY Zenon, <1>t, <2>4 DEF Creating
  <2>6. CASE child[t] = NoThread
    <3>1. NoThread \notin Thread
      BY ConstantsAssumption DEF Thread, NoThread
    <3>2. pc' = [pc EXCEPT ![t] = "idle"]
      BY Zenon, <1>t, <2>4, <2>6, <3>1
    <3>3. Counted' \subseteq Counted /\ Enrolled' \subseteq Enrolled /\ Present' \subseteq Present
      BY Zenon, <1>t, <2>1, <2>4, <3>2 DEF Counted, Enrolled, Present, InRegion, Stopped, Releasing, Outside
    <3>4. /\ Creating({"created"})' \subseteq Creating({"created"})
          /\ Creating({"created", "counted"})' \subseteq Creating({"created", "counted"})
          /\ Creating({})' \subseteq Creating({})
      BY Zenon, <1>t, <2>1, <2>4, <3>2 DEF Creating
    <3>5. R /\ T /\ L
      BY <1>a, <2>4, <3>3, <3>4, CountsKept DEF R, T, L
    <3> QED
      BY Zenon, <1>c, <2>3, <3>5
  <2>7. CASE child[t] # NoThread
    <3>1. child[t] \in Thread /\ child[t] # t /\ pc[child[t]] \in {"none", "dead"}
      BY Zenon, <1>t, <1>8, <2>1, <2>7 DEF Spawn
    <3>2. /\ Counted' \subseteq Counted \cup {child[t]} /\ Enrolled' \subseteq Enrolled \cup {child[t]}
          /\ Present' \subseteq Present \cup {child[t]}
      BY Zenon, <1>t, <2>1, <2>4, <3>1 DEF Counted, Enrolled, Present, InRegion, Stopped, Releasing, Outside
    <3>3. /\ t \in Creating({"created"}) /\ t \in Creating({"created", "counted"}) /\ t \in Creating({})
      BY Zenon, <2>1, <2>7 DEF Creating
    <3>4. /\ Creating({"created"})' \subseteq Creating({"created"}) \ {t}
          /\ Creating({"created", "counted"})' \subseteq Creating({"created", "counted"}) \ {t}
          /\ Creating({})' \subseteq Creating({}) \ {t}
      <4>1. \A u \in Thread \ {t} : child'[u] = child[u] /\ (pc'[u] = pc[u] \/ pc[u] \in {"none", "dead"})
        BY Zenon, <1>t, <2>4, <3>1
      <4> QED
        BY Zenon, <2>5, <4>1 DEF Creating
    <3>5. ASSUME NEW A \in SUBSET Thread, NEW B \in SUBSET Thread, t \in B,
                 NEW C \in SUBSET (A \cup {child[t]}), NEW D \in SUBSET (B \ {t}),
                 NEW n \in Nat, n >= Cardinality(A) + Cardinality(B)
          PROVE  n >= Cardinality(C) + Cardinality(D)
      <4>1. Cardinality(C) \in Nat /\ Cardinality(A) \in Nat /\ Cardinality(C) <= Cardinality(A) + 1
        BY Zenon, <3>1, CountAdd
      <4>2. Cardinality(D) \in Nat /\ Cardinality(B) \in Nat /\ Cardinality(D) + 1 <= Cardinality(B)
        BY Zenon, <3>5, CountRemove
      <4> QED
        BY <3>5, <4>1, <4>2
    <3>6. R
      BY Zenon, <1>0, <1>a, <1>b, <2>4, <3>2, <3>3, <3>4, <3>5 DEF R
    <3>7. T
      BY <1>0, <1>a, <1>b, <2>4, <3>2, <3>3, <3>4, <3>5 DEF T
    <3>8. L
      BY Zenon, <1>0, <1>a, <1>b, <2>4, <3>2, <3>3, <3>4, <3>5 DEF L
    <3> QED
      BY Zenon, <1>c, <2>3, <3>6, <3>7, <3>8
  <2> QED
    BY Zenon, <2>6, <2>7
<1>9. CASE PthreadExit(t)
  <2>1. sub[t] = "none" /\ pc[t] = "op"
    BY Zenon, <1>9, PlainPlace DEF PthreadExit, Callers
  <2>2. t \in Counted /\ t \in Present
    BY Zenon, <2>1 DEF Counted, Present, InRegion, Stopped, Releasing, Outside
  <2>3. \A u \in Thread : ~Releasing(u)'
    BY Zenon, <1>9, <2>2, NobodyReleases DEF PthreadExit, Releasing
  <2>4. /\ running' = running - 1 /\ live' = live - 1 /\ pc' = [pc EXCEPT ![t] = "uncounted"]
        /\ UNCHANGED <<total, ticker, sub, oldticker, child>>
    BY Zenon, <1>9 DEF PthreadExit, place, Goto
  <2>5. Counted' \subseteq Counted \ {t} /\ Present' \subseteq Present \ {t}
    BY Zenon, <1>t, <2>4 DEF Counted, Present, InRegion, Stopped, Releasing, Outside
  <2>6. Enrolled' \subseteq Enrolled
    BY Zenon, <1>t, <2>1, <2>4 DEF Enrolled, InRegion, Outside
  <2>7. /\ Creating({"created"})' \subseteq Creating({"created"})
        /\ Creating({"created", "counted"})' \subseteq Creating({"created", "counted"})
        /\ Creating({})' \subseteq Creating({})
    BY Zenon, <1>t, <2>1, <2>4 DEF Creating
  <2>8. T
    BY <1>a, <2>4, <2>6, <2>7, CountsKept DEF T
  <2>9. ASSUME NEW A \in SUBSET Thread, NEW B \in SUBSET Thread, t \in A,
               NEW C \in SUBSET (A \ {t}), NEW D \in SUBSET B,
               NEW n \in Nat, n >= Cardinality(A) + Cardinality(B)
        PROVE  n - 1 >= Cardinality(C) + Cardinality(D)
    <3>1. Cardinality(C) \in Nat /\ Cardinality(A) \in Nat /\ Cardinality(C) + 1 <= Cardinality(A)
      BY Zenon, <2>9, CountRemove
    <3>2. Cardinality(D) \in Nat /\ Cardinality(B) \in Nat /\ Cardinality(D) <= Cardinality(B)
      BY Zenon, <2>9, CountSubset
    <3> QED
      BY <2>9, <3>1, <3>2
  <2>10. R
    BY Zenon, <1>0, <1>a, <1>b, <2>2, <2>4, <2>5, <2>7, <2>9 DEF R
  <2>11. L
    BY Zenon, <1>0, <1>a, <1>b, <2>2, <2>4, <2>5, <2>7, <2>9 DEF L
  <2> QED
    BY Zenon, <1>c, <2>3, <2>8, <2>10, <2>11
<1>10. CASE ExitTotal(t)
  <2>1. /\ pc[t] = "uncounted" /\ total' = total - 1 /\ pc' = [pc EXCEPT ![t] = "exiting"]
        /\ UNCHANGED <<running, live, ticker, sub, oldticker, child>>
    BY Zenon, <1>10 DEF ExitTotal, place, threads, Goto
  <2>2. t \in Enrolled /\ Enrolled' \subseteq Enrolled \ {t}
    BY Zenon, <1>t, <2>1 DEF Enrolled, InRegion, Outside
  <2>3. Counted' \subseteq Counted /\ Present' \subseteq Present
    BY Zenon, <1>t, <2>1 DEF Counted, Present, InRegion, Stopped, Releasing, Outside
  <2>4. /\ Creating({"created"})' \subseteq Creating({"created"})
        /\ Creating({"created", "counted"})' \subseteq Creating({"created", "counted"})
        /\ Creating({})' \subseteq Creating({})
    BY Zenon, <1>t, <2>1 DEF Creating
  <2>5. R /\ L
    BY <1>a, <2>1, <2>3, <2>4, CountsKept DEF R, L
  <2>6. T
    <3>1. /\ Cardinality(Enrolled') \in Nat /\ Cardinality(Enrolled) \in Nat
          /\ Cardinality(Enrolled') + 1 <= Cardinality(Enrolled)
      BY Zenon, <1>0, <2>2, CountRemove
    <3>2. /\ Cardinality(Creating({"created", "counted"})') \in Nat
          /\ Cardinality(Creating({"created", "counted"})) \in Nat
          /\ Cardinality(Creating({"created", "counted"})') <= Cardinality(Creating({"created", "counted"}))
      BY Zenon, <1>0, <2>4, CountSubset
    <3> QED
      BY <1>a, <1>b, <2>1, <3>1, <3>2 DEF T
  <2>7. \A u \in Thread : Releasing(u)' => Releasing(u)
    BY Zenon, <2>1 DEF Releasing
  <2> QED
    BY Zenon, <1>d, <2>1, <2>5, <2>6, <2>7
<1>11. CASE (ExitNode(t) /\ ~Stop("schedule not complete at exit")) \/ MyThreadCommonTeardown(t)
  <2>1. /\ pc[t] \in {"exiting", "teardown"}
        /\ pc' = [pc EXCEPT ![t] = IF pc[t] = "exiting" THEN "teardown" ELSE "dead"]
        /\ UNCHANGED <<running, total, live, ticker, sub, oldticker, child>>
    BY Zenon, <1>11 DEF ExitNode, MyThreadCommonTeardown, barrier, place, threads, Goto
  <2>2. Counted' \subseteq Counted /\ Present' \subseteq Present /\ Enrolled' \subseteq Enrolled
    BY Zenon, <1>t, <2>1 DEF Counted, Present, Enrolled, InRegion, Stopped, Releasing, Outside
  <2>3. /\ Creating({"created"})' \subseteq Creating({"created"})
        /\ Creating({"created", "counted"})' \subseteq Creating({"created", "counted"})
        /\ Creating({})' \subseteq Creating({})
    BY Zenon, <1>t, <2>1 DEF Creating
  <2>4. R /\ T /\ L
    BY <1>a, <2>1, <2>2, <2>3, CountsKept DEF R, T, L
  <2>5. \A u \in Thread : Releasing(u)' => Releasing(u)
    BY Zenon, <2>1 DEF Releasing
  <2> QED
    BY Zenon, <1>d, <2>1, <2>4, <2>5
<1>12. CASE HbNodeMissing(t) \/ RunOff(t)
  BY Zenon, <1>2, <1>12 DEF HbNodeMissing, RunOff, Outcome
<1>13. CASE InitializeMyThreadSchedulePtr(t) /\ Stop("no schedule in region")
  BY Zenon, <1>2, <1>13 DEF Outcome
<1>14. CASE ExitNode(t) /\ Stop("schedule not complete at exit")
  BY Zenon, <1>2, <1>14 DEF Outcome
<1> QED
  BY Zenon, <1>1, <1>3, <1>4, <1>5, <1>6, <1>7, <1>8, <1>9, <1>10, <1>11, <1>12, <1>13, <1>14
     DEF Step, QuietStep
-----------------------------------------------------------------------------
(* Thread slots.                                                             *)

\* A slot in use, and how the updates of its members leave it in use.
InUse(f, v) == f[v].allocated /\ ~f[v].terminated

\* Setting another member of a slot, or of another slot, keeps a slot in use.
LEMMA InUseKept ==
  ASSUME NEW f \in [Thread -> ThreadInfo], NEW u, NEW v \in Thread, NEW b, InUse(f, v)
  PROVE  /\ InUse([f EXCEPT ![u].joinable = b], v)
         /\ InUse([f EXCEPT ![u].hasjoiner = b], v)
         /\ (u = v => b = TRUE) => InUse([f EXCEPT ![u].allocated = b], v)
         /\ u # v => InUse([f EXCEPT ![u].terminated = b], v)
         /\ InUse([f EXCEPT ![u] = FreshInfo], v)
<1>1. CASE u = v
  BY Zenon, <1>1 DEF InUse, ThreadInfo, FreshInfo
<1>2. CASE u # v
  BY Zenon, <1>2 DEF InUse
<1> QED
  BY Zenon, <1>1, <1>2

\* Steps in which nobody starts, no slot is found and no slot in use is given up.
LEMMA SlotsKept ==
  ASSUME TypeOK, SlotsDistinct, UNCHANGED child, Present' \subseteq Present,
         \A v \in Thread : InUse(info, v) /\ ~InUse(info', v) => v \in Present \ Present'
  PROVE  SlotsDistinct'
<1>1. \A v \in Thread : InRegion(v)' => InRegion(v)
  BY Zenon DEF Present
<1>2. ASSUME NEW v \in Thread
      PROVE  /\ InRegion(v)' => InUse(info', v)
             /\ child'[v] # NoThread => /\ InUse(info', child'[v]) /\ pc'[child'[v]] \in Outside
                                        /\ \A u \in Thread \ {v} : child'[u] # child'[v]
  <2>1. InRegion(v)' => InUse(info', v)
    BY Zenon, <1>1 DEF SlotsDistinct, InUse, Present
  <2>2. ASSUME child'[v] # NoThread
        PROVE  /\ InUse(info', child'[v]) /\ pc'[child'[v]] \in Outside
               /\ \A u \in Thread \ {v} : child'[u] # child'[v]
    <3>1. child[v] \in Thread /\ child'[v] = child[v]
      BY Zenon, <2>2 DEF TypeOK
    <3>2. InUse(info, child[v]) /\ ~InRegion(child[v]) /\ \A u \in Thread \ {v} : child[u] # child[v]
      BY Zenon, <2>2, <3>1 DEF SlotsDistinct, InUse
    <3>3. child[v] \notin Present
      BY Zenon, <3>2 DEF Present
    <3>4. pc'[child[v]] \in Outside
      BY Zenon, <1>1, <3>1, <3>2 DEF InRegion
    <3> QED
      BY Zenon, <3>1, <3>2, <3>3, <3>4
  <2> QED
    BY Zenon, <2>1, <2>2
<1> QED
  BY Zenon, <1>2 DEF SlotsDistinct, InUse, InRegion

\* In every step a slot belongs to one thread.
LEMMA SlotStep ==
  ASSUME TypeOK, TypeOK', BarrierCount, SlotsDistinct, PlaceInv, NEW t \in Thread, Step(t)
  PROVE  SlotsDistinct'
<1> USE DEF threads
<1>0. info \in [Thread -> ThreadInfo] /\ info' \in [Thread -> ThreadInfo]
  BY Zenon DEF TypeOK
<1>1. CASE QuietStep(t)
  <2>1. Quiet(t)
    BY Zenon, <1>1, QuietSteps
  <2>2. Present' \subseteq Present /\ UNCHANGED child
    BY Zenon, <2>1 DEF Quiet, Present, InRegion, Outside
  <2>3. CASE info' = info
    BY Zenon, <2>2, <2>3, SlotsKept
  <2>4. CASE PthreadJoin(t)
    <3>1. info' = info \/ info' = [info EXCEPT ![Node(t).arg].hasjoiner = TRUE]
      BY Zenon, <2>4 DEF PthreadJoin
    <3>2. \A v \in Thread : InUse(info, v) => InUse([info EXCEPT ![Node(t).arg].hasjoiner = TRUE], v)
      BY Zenon, <1>0, InUseKept
    <3>3. \A v \in Thread : InUse(info, v) => InUse(info', v)
      BY Zenon, <3>1, <3>2
    <3> QED
      BY Zenon, <2>2, <3>3, SlotsKept
  <2>5. CASE Reap(t)
    <3> DEFINE u == Node(t).arg
    <3>1. info' = [info EXCEPT ![u].allocated = ~info[u].terminated]
      BY Zenon, <2>5 DEF Reap
    <3>2. \A v \in Thread : InUse(info, v) /\ u = v => (~info[u].terminated) = TRUE
      BY Zenon DEF InUse
    <3>3. \A v \in Thread : InUse(info, v) => InUse(info', v)
      BY Zenon, <1>0, <3>1, <3>2, InUseKept
    <3> QED
      BY Zenon, <2>2, <3>3, SlotsKept
  <2>6. CASE PthreadDetach(t)
    <3> DEFINE u == Node(t).arg
               g == [info EXCEPT ![u].joinable = FALSE]
    <3>1. info' = info \/ info' = [g EXCEPT ![u].allocated = ~info[u].terminated]
      BY Zenon, <2>6 DEF PthreadDetach
    <3>2. \A v \in Thread : InUse(info, v) /\ u = v => (~info[u].terminated) = TRUE
      BY Zenon DEF InUse
    <3>3. g \in [Thread -> ThreadInfo] /\ \A v \in Thread : InUse(info, v) => InUse(g, v)
      BY Zenon, <1>0, InUseKept, InfoUpdate
    <3> HIDE DEF g
    <3>4. \A v \in Thread : InUse(info, v) => InUse([g EXCEPT ![u].allocated = ~info[u].terminated], v)
      BY Zenon, <3>2, <3>3, InUseKept
    <3>5. \A v \in Thread : InUse(info, v) => InUse(info', v)
      BY Zenon, <3>1, <3>4
    <3> QED
      BY Zenon, <2>2, <3>5, SlotsKept
  <2>7. info' = info \/ PthreadJoin(t) \/ Reap(t) \/ PthreadDetach(t)
    BY Zenon, <1>1 DEF QuietStep, ChooseFragment, UpdateCurrFragmentId, WaitForNextFragment, WaitAtRegionBarrier,
      MyThreadStartRoutine, MyThreadCommonInit, AdvanceToNextFragmentIfComplete, WaitForHbNode,
      SleepThroughBarrier, SyncOp, AfterInput, AfterMarker, SkipRegionBarriersOrExit, JoinAllLoop,
      JoinAllYield, SpawnNode, JoinedNode, InitializeMyThreadSchedulePtr, BeginNextFragment,
      BeginRegionBarrier, Stop
  <2> QED
    BY Zenon, <2>3, <2>4, <2>5, <2>6, <2>7
<1>2. CASE UNCHANGED <<info, child, pc>>
  <2>1. Present' \subseteq Present
    BY Zenon, <1>2 DEF Present, InRegion
  <2> QED
    BY Zenon, <1>2, <2>1, SlotsKept
<1>3. CASE CountTotal(t) \/ ExitTotal(t) \/ MyThreadCommonTeardown(t)
  <2>1. UNCHANGED <<info, child>>
    BY Zenon, <1>3 DEF CountTotal, ExitTotal, MyThreadCommonTeardown
  <2>2. Present' \subseteq Present
    BY Zenon, <1>3 DEF CountTotal, ExitTotal, MyThreadCommonTeardown, Goto, Present, InRegion, Outside, TypeOK
  <2> QED
    BY Zenon, <2>1, <2>2, SlotsKept
<1>4. CASE ExitNode(t)
  <2>1. UNCHANGED <<info, child>>
    BY Zenon, <1>4 DEF ExitNode, Stop
  <2>2. Present' \subseteq Present
    BY Zenon, <1>4 DEF ExitNode, Stop, Goto, Present, InRegion, Outside, TypeOK
  <2> QED
    BY Zenon, <2>1, <2>2, SlotsKept
<1>5. CASE CountRunning(t)
  <2>1. info' = [info EXCEPT ![child[t]].joinable = TRUE] /\ UNCHANGED child
    BY Zenon, <1>5 DEF CountRunning
  <2>2. Present' \subseteq Present
    BY Zenon, <1>5 DEF CountRunning, Goto, Present, InRegion, Outside, TypeOK
  <2>3. \A v \in Thread : InUse(info, v) => InUse(info', v)
    BY Zenon, <1>0, <2>1, InUseKept
  <2> QED
    BY Zenon, <2>1, <2>2, <2>3, SlotsKept
<1>6. CASE PthreadExit(t)
  <2>1. /\ UNCHANGED child
        /\ \/ info' = [info EXCEPT ![t].terminated = TRUE]
           \/ info' = [info EXCEPT ![t].allocated = FALSE]
    BY Zenon, <1>6 DEF PthreadExit
  <2>2. Present' \subseteq Present /\ t \in Present \ Present'
    BY Zenon, <1>6 DEF PthreadExit, Goto, Present, InRegion, Outside, TypeOK
  <2>3. ASSUME NEW v \in Thread \ {t}, InUse(info, v)
        PROVE  InUse(info', v)
    <3>1. InUse([info EXCEPT ![t].terminated = TRUE], v) /\ InUse([info EXCEPT ![t].allocated = FALSE], v)
      BY Zenon, <1>0, <2>3, InUseKept
    <3> QED
      BY Zenon, <2>1, <3>1
  <2> QED
    BY Zenon, <2>1, <2>2, <2>3, SlotsKept
<1>7. CASE PthreadCreate(t)
  <2>1. CASE UNCHANGED <<info, child>>
    <3>1. Present' \subseteq Present
      BY ZenonT(60), <1>7 DEF PthreadCreate, Goto, Present, InRegion, Outside, TypeOK
    <3> QED
      BY Zenon, <2>1, <3>1, SlotsKept
  <2>2. ASSUME NEW u \in Thread, ~info[u].allocated, info' = [info EXCEPT ![u] = FreshInfo],
               child' = [child EXCEPT ![t] = u], Goto(t, "created")
        PROVE  SlotsDistinct'
    <3>1. ~InRegion(u) /\ \A v \in Thread : child[v] # u
      <4>1. NoThread # u
        BY ConstantsAssumption DEF Thread, NoThread
      <4> QED
        BY Zenon, <2>2, <4>1 DEF SlotsDistinct
    <3>2. u # t /\ InRegion(t)
      BY Zenon, <1>7, <3>1 DEF PthreadCreate, InRegion, Outside
    <3>3. \A v \in Thread : InRegion(v)' = InRegion(v)
      BY Zenon, <2>2, <3>2 DEF Goto, InRegion, Outside, TypeOK
    <3>4. \A v \in Thread : (InUse(info, v) => InUse(info', v)) /\ InUse(info', u)
      <4>1. InUse(info', u)
        BY Zenon, <1>0, <2>2 DEF InUse, FreshInfo
      <4> QED
        BY Zenon, <1>0, <2>2, <4>1, InUseKept
    <3>5. \A v \in Thread : InRegion(v)' => InUse(info', v)
      BY Zenon, <3>3, <3>4 DEF SlotsDistinct, InUse
    <3>6. child'[t] = u /\ \A v \in Thread \ {t} : child'[v] = child[v]
      BY Zenon, <2>2 DEF TypeOK
    <3>7. ASSUME NEW v \in Thread \ {t}, child'[v] # NoThread
          PROVE  /\ InUse(info', child'[v]) /\ pc'[child'[v]] \in Outside
                 /\ \A w \in Thread \ {v} : child'[w] # child'[v]
      <4>1. child[v] \in Thread /\ child'[v] = child[v]
        BY Zenon, <3>6, <3>7 DEF TypeOK
      <4>2. InUse(info, child[v]) /\ ~InRegion(child[v]) /\ \A w \in Thread \ {v} : child[w] # child[v]
        BY Zenon, <3>7, <4>1 DEF SlotsDistinct, InUse
      <4>3. pc'[child[v]] \in Outside
        BY Zenon, <3>3, <4>1, <4>2 DEF InRegion
      <4>4. \A w \in Thread \ {v} : child'[w] # child[v]
        BY Zenon, <3>1, <3>6, <4>2
      <4> QED
        BY Zenon, <3>4, <4>1, <4>2, <4>3, <4>4
    <3>8. /\ InUse(info', child'[t]) /\ pc'[child'[t]] \in Outside
          /\ \A w \in Thread \ {t} : child'[w] # child'[t]
      <4>1. pc'[u] \in Outside
        BY Zenon, <3>1, <3>3 DEF InRegion
      <4> QED
        BY Zenon, <3>1, <3>4, <3>6, <4>1
    <3> QED
      BY Zenon, <3>5, <3>7, <3>8 DEF SlotsDistinct, InUse, InRegion
  <2> QED
    BY Zenon, <1>7, <2>1, <2>2 DEF PthreadCreate, NewInfo
<1>8. CASE Spawn(t)
  <2>1. /\ pc[t] = "spawned" /\ pc[child[t]] \in {"none", "dead"}
        /\ pc' = [pc EXCEPT ![t] = "idle", ![child[t]] = "born"]
        /\ child' = [child EXCEPT ![t] = NoThread] /\ info' = info
    BY Zenon, <1>8 DEF Spawn
  <2>2. child'[t] = NoThread /\ \A v \in Thread \ {t} : child'[v] = child[v]
    BY Zenon, <2>1 DEF TypeOK
  <2>3. \A v \in Thread : InRegion(v)' => InRegion(v) \/ (v = child[t] /\ child[t] # NoThread)
    <3>1. NoThread \notin Thread
      BY ConstantsAssumption DEF Thread, NoThread
    <3>2. InRegion(t)
      BY Zenon, <2>1 DEF InRegion, Outside
    <3>3. \A v \in Thread : v # t /\ v # child[t] => pc'[v] = pc[v]
      BY Zenon, <2>1 DEF TypeOK
    <3>4. \A v \in Thread : v # t /\ v # child[t] => (InRegion(v)' => InRegion(v))
      BY Zenon, <3>3 DEF InRegion
    <3> QED
      BY Zenon, <3>1, <3>2, <3>4
  <2>4. \A v \in Thread : InRegion(v)' => InUse(info', v)
    BY Zenon, <2>1, <2>3 DEF SlotsDistinct, InUse
  <2>5. ASSUME NEW v \in Thread, child'[v] # NoThread
        PROVE  /\ InUse(info', child'[v]) /\ pc'[child'[v]] \in Outside
               /\ \A w \in Thread \ {v} : child'[w] # child'[v]
    <3>1. v # t /\ child'[v] = child[v] /\ child[v] \in Thread
      BY Zenon, <2>2, <2>5 DEF TypeOK
    <3>2. InUse(info, child[v]) /\ ~InRegion(child[v]) /\ \A w \in Thread \ {v} : child[w] # child[v]
      BY Zenon, <2>5, <3>1 DEF SlotsDistinct, InUse
    <3>3. pc'[child[v]] \in Outside
      BY Zenon, <2>3, <2>5, <3>1, <3>2 DEF InRegion
    <3>4. \A w \in Thread \ {v} : child'[w] # child[v]
      BY Zenon, <2>2, <2>5, <3>1, <3>2
    <3> QED
      BY Zenon, <2>1, <3>1, <3>2, <3>3, <3>4
  <2> QED
    BY Zenon, <2>4, <2>5 DEF SlotsDistinct, InUse, InRegion
<1>9. CASE Arrive(t) \/ SelectRegion(t) \/ ReleaseRegionBarrier(t) \/ HbNodeMissing(t) \/ RunOff(t)
  BY Zenon, <1>2, <1>9 DEF Arrive, SelectRegion, ReleaseRegionBarrier, HbNodeMissing, RunOff, Stop
<1>10. CASE InitializeMyThreadSchedulePtr(t) /\ Stop("no schedule in region")
  BY Zenon, <1>2, <1>10 DEF Stop
<1> QED
  BY ZenonT(60), <1>1, <1>3, <1>4, <1>5, <1>6, <1>7, <1>8, <1>9, <1>10 DEF Step, QuietStep
=============================================================================
