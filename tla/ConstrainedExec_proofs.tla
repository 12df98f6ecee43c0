----------------------- MODULE ConstrainedExec_proofs -----------------------
(***************************************************************************)
(* Every step keeps the levels of the fragments; with that the invariant is*)
(* inductive, and the theorems about the scheduler follow, for every number*)
(* of threads and every schedule table.                                    *)
(***************************************************************************)
EXTENDS ConstrainedExec_inv

(* Fragments and levels.                                                     *)

\* What LevelInv says of one thread of the region.
LevelAt(t) ==
  /\ sub[t] \in {"none", "init"} => frag[t] <= fragId
  /\ sub[t] \in {"choose", "publish", "fragwait"} => 1 <= frag[t] /\ frag[t] - 1 <= fragId
  /\ sub[t] = "publish" => Level[fragList[frag[t]]] = frag[t]
  /\ sub[t] = "none" /\ pc[t] # "born" => Level[at[t]] = frag[t] /\ t < Sched[at[t]].numThreads

\* A step of one thread that leaves the published fragments alone.
LEMMA LevelKept ==
  ASSUME TypeOK, SlotsDistinct, LevelInv, NEW t \in Thread, UNCHANGED <<fragList, fragId, child>>,
         InRegion(t) \/ UNCHANGED frag,
         pc[t] = "created" => pc'[t] = "created",
         pc'[t] \notin Outside => LevelAt(t)',
         \A u \in Thread \ {t} : /\ pc'[u] = pc[u] /\ sub'[u] = sub[u]
                                 /\ frag'[u] = frag[u] /\ at'[u] = at[u]
  PROVE  LevelInv'
<1>1. ASSUME NEW u \in Thread, pc'[u] \notin Outside
      PROVE  LevelAt(u)'
  <2>1. CASE u = t
    BY Zenon, <1>1, <2>1
  <2>2. CASE u # t
    <3>1. LevelAt(u)
      BY Zenon, <1>1, <2>2 DEF LevelInv, LevelAt, InRegion
    <3> QED
      BY Zenon, <2>2, <3>1 DEF LevelAt
  <2> QED
    BY Zenon, <2>1, <2>2
<1>2. \A k \in FragIndex : k <= fragId' => Level[fragList'[k]] = k
  BY Zenon DEF LevelInv
<1>3. ChildrenPlaced'
  <2>1. \A u \in Thread : child[u] # NoThread => child[u] \in Thread /\ ~InRegion(child[u])
    BY Zenon DEF SlotsDistinct, TypeOK
  <2>2. \A u \in Thread : child[u] # NoThread => frag'[child[u]] = frag[child[u]]
    BY Zenon, <2>1
  <2>3. \A u \in Thread : pc'[u] # "created" => pc[u] # "created"
    OBVIOUS
  <2> QED
    BY Zenon, <2>2, <2>3 DEF LevelInv, ChildrenPlaced
<1> QED
  BY Zenon, <1>1, <1>2, <1>3 DEF LevelInv, LevelAt, InRegion

\* The thread stays where it is in the schedule.
LEMMA LevelPlain ==
  ASSUME TypeOK, SlotsDistinct, LevelInv, NEW t \in Thread, NEW there, Goto(t, there),
         pc[t] # "created", there \notin Outside => InRegion(t) /\ pc[t] # "born",
         UNCHANGED <<fragList, fragId, child, sub, frag, at>>
  PROVE  LevelInv'
<1>1. ASSUME pc'[t] \notin Outside
      PROVE  LevelAt(t)'
  <2>1. pc'[t] = there
    BY Zenon DEF Goto, TypeOK
  <2>2. LevelAt(t)
    BY Zenon, <1>1, <2>1 DEF LevelInv, LevelAt
  <2> QED
    BY Zenon, <1>1, <2>1, <2>2 DEF LevelAt
<1> QED
  BY Zenon, <1>1, LevelKept DEF Goto, TypeOK

\* The thread enters AdvanceToNextFragment or RegionBarrier.
LEMMA LevelBegin ==
  ASSUME TypeOK, SlotsDistinct, LevelInv, NEW t \in Thread, NEW d, NEW there \in Callers,
         BeginNextFragment(t, d) \/ BeginRegionBarrier(t, d),
         pc[t] \in Callers, sub[t] \in {"none", "init"}, pc' = [pc EXCEPT ![t] = there]
  PROVE  LevelInv'
<1>1. InRegion(t) /\ pc[t] # "created" /\ pc'[t] = there
  BY Zenon DEF InRegion, Callers, Outside, TypeOK
<1>2. LevelAt(t)
  BY Zenon, <1>1 DEF LevelInv, LevelAt
<1>3. UNCHANGED <<fragList, fragId, child, at>>
  BY Zenon DEF BeginNextFragment, BeginRegionBarrier, frags, threads
<1>4. \/ frag'[t] = frag[t] + 1 /\ sub'[t] \in {"choose", "fragwait"}
      \/ sub'[t] = "arrive"
  BY Zenon DEF BeginNextFragment, BeginRegionBarrier, Within, TypeOK
<1>5. \A u \in Thread \ {t} : pc'[u] = pc[u] /\ sub'[u] = sub[u] /\ frag'[u] = frag[u]
  BY Zenon DEF BeginNextFragment, BeginRegionBarrier, Within, TypeOK
<1>7. frag[t] \in Nat /\ fragId \in Nat
  BY ConstantsAssumption DEF TypeOK, FragIndex
<1>8. LevelAt(t)'
  <2>1. (sub[t] \in {"choose", "publish", "fragwait"} => 1 <= frag[t] /\ frag[t] - 1 <= fragId)'
    <3>1. CASE sub'[t] = "arrive"
      BY Zenon, <3>1
    <3>2. CASE sub'[t] # "arrive"
      <4>1. frag'[t] = frag[t] + 1 /\ fragId' = fragId
        BY Zenon, <1>3, <1>4, <3>2
      <4>2. frag[t] <= fragId
        BY Zenon, <1>2 DEF LevelAt
      <4> QED
        BY <1>7, <4>1, <4>2
    <3> QED
      BY Zenon, <3>1, <3>2
  <2> QED
    BY Zenon, <1>4, <2>1 DEF LevelAt
<1> QED
  BY Zenon, <1>1, <1>3, <1>5, <1>8, LevelKept

\* When the barrier is being released, no other thread is at a fragment.
LEMMA OthersStopped ==
  ASSUME TypeOK, BarrierCount, NEW t \in Thread, Releasing(t)
  PROVE  /\ \A u \in Thread \ {t} : InRegion(u) => Stopped(u)
         /\ \A u \in Thread : child[u] # NoThread => pc[u] = "created"
<1>1. running = 0 /\ \A u \in Thread \ {t} : ~Releasing(u)
  BY Zenon DEF BarrierCount
<1>2. Counted \in SUBSET Thread /\ Creating({"created"}) \in SUBSET Thread
  BY Zenon DEF Counted, Creating
<1>3. Cardinality(Counted) \in Nat /\ Cardinality(Creating({"created"})) \in Nat
  BY Zenon, <1>2, CountSubset
<1>4. running >= Cardinality(Counted) + Cardinality(Creating({"created"}))
  BY Zenon DEF BarrierCount
<1>5. Cardinality(Counted) <= 0 /\ Cardinality(Creating({"created"})) <= 0
  BY <1>1, <1>3, <1>4
<1>6. Counted = {} /\ Creating({"created"}) = {}
  BY Zenon, <1>2, <1>5, CountEmpty
<1> QED
  BY Zenon, <1>1, <1>6 DEF Counted, Creating

\* LevelInv holds after every step.
LEMMA LevelStep ==
  ASSUME IInv, TypeOK', NEW t \in Thread, Step(t)
  PROVE  LevelInv'
<1> USE DEF barrier, frags, threads, place
<1>0. TypeOK /\ SlotsDistinct /\ LevelInv /\ PlaceInv /\ BarrierCount
  BY Zenon DEF IInv
<1>a. pc \in [Thread -> Pc] /\ sub \in [Thread -> Sub] /\ frag \in [Thread -> FragIndex]
  BY Zenon, <1>0 DEF TypeOK
<1>b. FragIndex \subseteq Nat /\ 0 \in FragIndex
  BY ConstantsAssumption DEF FragIndex
<1>c. \A u \in Thread : InRegion(u) => LevelAt(u)
  BY Zenon, <1>0 DEF LevelInv, LevelAt
<1>d. ASSUME \A k \in FragIndex : k <= fragId' => Level[fragList'[k]] = k,
             \A u \in Thread : pc'[u] \notin Outside => LevelAt(u)',
             ChildrenPlaced'
      PROVE  LevelInv'
  BY Zenon, <1>d DEF LevelInv, LevelAt, InRegion
<1>e. sub[t] # "none" => InRegion(t) /\ pc[t] \notin {"created", "born"}
  BY Zenon, <1>0 DEF PlaceInv, Callers, InRegion, Outside
<1>f. \A u \in Thread : child[u] # NoThread => child[u] \in Thread /\ ~InRegion(child[u])
  BY Zenon, <1>0 DEF TypeOK, SlotsDistinct
<1>1. CASE ChooseFragment(t)
  <2>1. PICK f \in Selectors[Sched[fragList[frag[t] - 1]].selector] :
          fragList' = [fragList EXCEPT ![frag[t]] = f]
    BY Zenon, <1>1 DEF ChooseFragment, ChosenIndex
  <2>2. /\ UNCHANGED <<fragId, child, frag, at, pc>> /\ sub' = [sub EXCEPT ![t] = "publish"]
        /\ sub[t] = "choose"
    BY Zenon, <1>1 DEF ChooseFragment, Within
  <2>3. LevelAt(t) /\ InRegion(t)
    BY Zenon, <1>c, <1>e, <2>2
  <2>4. 1 <= frag[t] /\ frag[t] - 1 <= fragId /\ frag[t] - 1 \in FragIndex /\ frag[t] \in FragIndex
    <3>1. 1 <= frag[t] /\ frag[t] - 1 <= fragId
      BY Zenon, <2>2, <2>3 DEF LevelAt
    <3>2. frag[t] \in FragIndex
      BY Zenon, <1>a
    <3> QED
      BY <3>1, <3>2, ConstantsAssumption DEF FragIndex
  <2>5. Level[f] = frag[t]
    <3>1. fragList[frag[t] - 1] \in Fragment /\ Level[fragList[frag[t] - 1]] = frag[t] - 1
      BY Zenon, <1>0, <2>4 DEF LevelInv, TypeOK
    <3>2. Level[f] = Level[fragList[frag[t] - 1]] + 1
      BY Zenon, <2>1, <3>1, TableAssumption
    <3>3. frag[t] \in Nat
      BY Zenon, <1>b, <2>4
    <3> QED
      BY <3>1, <3>2, <3>3
  <2>6. \A k \in FragIndex : Level[fragList[k]] = k \/ k = frag[t] => Level[fragList'[k]] = k
    BY Zenon, <1>0, <2>1, <2>5 DEF TypeOK
  <2>7. \A k \in FragIndex : k <= fragId' => Level[fragList'[k]] = k
    BY Zenon, <1>0, <2>2, <2>6 DEF LevelInv
  <2>8. ASSUME NEW u \in Thread, pc'[u] \notin Outside
        PROVE  LevelAt(u)'
    <3>1. LevelAt(u)
      BY Zenon, <1>c, <2>2, <2>8 DEF InRegion
    <3>2. CASE u = t
      <4>1. sub'[t] = "publish"
        BY Zenon, <1>a, <2>2
      <4> QED
        BY Zenon, <2>2, <2>4, <2>6, <3>1, <3>2, <4>1 DEF LevelAt
    <3>3. CASE u # t
      <4>1. sub'[u] = sub[u] /\ frag[u] \in FragIndex
        BY Zenon, <1>a, <2>2, <3>3
      <4> QED
        BY Zenon, <2>2, <2>6, <3>1, <4>1 DEF LevelAt
    <3> QED
      BY Zenon, <3>2, <3>3
  <2>9. ChildrenPlaced'
    BY Zenon, <1>0, <2>2 DEF LevelInv, ChildrenPlaced
  <2> QED
    BY Zenon, <1>d, <2>7, <2>8, <2>9
<1>2. CASE UpdateCurrFragmentId(t)
  <2>1. /\ UNCHANGED <<fragList, child, frag, at, pc>> /\ sub' = [sub EXCEPT ![t] = "init"]
        /\ sub[t] = "publish" /\ fragId' = IF fragId = frag[t] - 1 THEN frag[t] ELSE fragId
    BY Zenon, <1>2 DEF UpdateCurrFragmentId, Within
  <2>2. LevelAt(t) /\ InRegion(t)
    BY Zenon, <1>c, <1>e, <2>1
  <2>3. /\ 1 <= frag[t] /\ frag[t] - 1 <= fragId /\ Level[fragList[frag[t]]] = frag[t]
        /\ frag[t] \in Nat /\ fragId \in Nat
    BY ZenonT(60), <1>0, <1>a, <1>b, <2>1, <2>2 DEF LevelAt, TypeOK
  <2>4. fragId' >= fragId /\ fragId' >= frag[t] /\ fragId' \in Nat
    <3>1. fragId' = IF fragId = frag[t] - 1 THEN frag[t] ELSE fragId
      BY Zenon, <2>1
    <3>2. frag[t] - 1 <= fragId /\ frag[t] \in Nat /\ fragId \in Nat
      BY Zenon, <2>3
    <3> QED
      BY <3>1, <3>2
  <2>5. \A k \in FragIndex : k <= fragId' => Level[fragList'[k]] = k
    BY <1>0, <1>b, <2>1, <2>3 DEF LevelInv
  <2>6. ASSUME NEW u \in Thread, pc'[u] \notin Outside
        PROVE  LevelAt(u)'
    <3>1. LevelAt(u)
      BY Zenon, <1>c, <2>1, <2>6 DEF InRegion
    <3>2. frag[u] \in Nat
      BY Zenon, <1>a, <1>b
    <3>4. CASE u = t
      <4>1. sub'[t] = "init"
        BY Zenon, <1>a, <2>1
      <4> QED
        BY Zenon, <2>1, <2>4, <3>4, <4>1 DEF LevelAt
    <3>5. CASE u # t
      <4>1. sub'[u] = sub[u]
        BY Zenon, <1>a, <2>1, <3>5
      <4>2. UNCHANGED <<fragList, frag, at, pc>>
        BY Zenon, <2>1
      <4>3. /\ frag[u] <= fragId => frag[u] <= fragId'
            /\ frag[u] - 1 <= fragId => frag[u] - 1 <= fragId'
        BY <2>3, <2>4, <3>2
      <4> QED
        BY Zenon, <3>1, <4>1, <4>2, <4>3 DEF LevelAt
    <3> QED
      BY Zenon, <3>4, <3>5
  <2>7. ChildrenPlaced'
    <3>1. \A u \in Thread : child[u] # NoThread => frag[child[u]] \in Nat
      BY Zenon, <1>a, <1>b, <1>f
    <3>2. \A u \in Thread : child[u] # NoThread /\ frag[child[u]] <= fragId => frag[child[u]] <= fragId'
      BY <2>3, <2>4, <3>1
    <3>3. UNCHANGED <<child, frag, pc>>
      BY Zenon, <2>1
    <3> QED
      BY Zenon, <1>0, <3>2, <3>3 DEF LevelInv, ChildrenPlaced
  <2> QED
    BY Zenon, <1>d, <2>5, <2>6, <2>7
<1>3. CASE WaitForNextFragment(t)
  <2>1. /\ UNCHANGED <<fragList, fragId, child, frag, at, pc>> /\ sub' = [sub EXCEPT ![t] = "init"]
        /\ sub[t] = "fragwait" /\ fragId >= frag[t]
    BY Zenon, <1>3 DEF WaitForNextFragment, FragmentReady, Within
  <2>2. LevelAt(t)
    BY Zenon, <1>c, <1>e, <2>1
  <2>3. frag[t] <= fragId /\ sub'[t] = "init"
    BY Zenon, <1>0, <1>a, <1>b, <2>1 DEF TypeOK
  <2>4. LevelAt(t)'
    BY Zenon, <2>1, <2>2, <2>3 DEF LevelAt
  <2> QED
    BY Zenon, <1>0, <1>a, <1>e, <2>1, <2>4, LevelKept
<1>4. CASE Arrive(t)
  <2>1. /\ UNCHANGED <<fragList, fragId, child, frag, at, pc>> /\ sub[t] = "arrive"
        /\ \E there \in {"select", "barrier"} : sub' = [sub EXCEPT ![t] = there]
    BY Zenon, <1>4 DEF Arrive, Within
  <2>2. LevelAt(t) /\ sub'[t] \in {"select", "barrier"}
    BY Zenon, <1>a, <1>c, <1>e, <2>1
  <2>3. LevelAt(t)'
    BY Zenon, <2>1, <2>2 DEF LevelAt
  <2> QED
    BY Zenon, <1>0, <1>a, <1>e, <2>1, <2>3, LevelKept
<1>5. CASE SelectRegion(t) /\ ~Stop("no matching region")
  <2>1. PICK f \in Selectors[CurrSchedule(t).next] : fragList' = [fragList EXCEPT ![0] = f]
    BY Zenon, <1>5 DEF SelectRegion
  <2>2. /\ UNCHANGED <<child, frag, at, pc>> /\ sub' = [sub EXCEPT ![t] = "release"]
        /\ sub[t] = "select" /\ fragId' = 0
    BY Zenon, <1>5 DEF SelectRegion, Within
  <2>3. Level[f] = 0
    <3>1. fragList[frag[t]] \in Fragment
      BY Zenon, <1>0 DEF TypeOK
    <3> QED
      BY Zenon, <2>1, <3>1, TableAssumption DEF CurrSchedule
  <2>4. \A k \in FragIndex : k <= fragId' => Level[fragList'[k]] = k
    <3>0. \A k \in Nat : k <= 0 => k = 0
      OBVIOUS
    <3>1. \A k \in FragIndex : k <= 0 => k = 0
      BY Zenon, <1>b, <3>0
    <3>2. fragList'[0] = f
      BY Zenon, <1>0, <1>b, <2>1 DEF TypeOK
    <3> QED
      BY Zenon, <2>2, <2>3, <3>1, <3>2
  <2>5. Releasing(t)
    BY Zenon, <2>2 DEF Releasing
  <2>6. ASSUME NEW u \in Thread, pc'[u] \notin Outside
        PROVE  LevelAt(u)'
    <3>2. sub'[u] \in {"release", "barrier"}
      <4>1. CASE u = t
        BY Zenon, <1>a, <2>2, <4>1
      <4>2. CASE u # t
        BY Zenon, <1>0, <1>a, <2>2, <2>5, <2>6, <4>2, OthersStopped DEF Stopped, InRegion
      <4> QED
        BY Zenon, <4>1, <4>2
    <3> QED
      BY Zenon, <3>2 DEF LevelAt
  <2>7. ChildrenPlaced'
    BY Zenon, <1>0, <2>2, <2>5, OthersStopped DEF ChildrenPlaced
  <2> QED
    BY Zenon, <1>d, <2>4, <2>6, <2>7
<1>6. CASE ReleaseRegionBarrier(t) \/ WaitAtRegionBarrier(t)
  <2>1. /\ UNCHANGED <<fragList, fragId, child, at, pc>> /\ sub' = [sub EXCEPT ![t] = "init"]
        /\ frag' = [frag EXCEPT ![t] = 0] /\ sub[t] # "none"
    BY Zenon, <1>6 DEF ReleaseRegionBarrier, WaitAtRegionBarrier, StartFragment, Within
  <2>2. LevelAt(t) /\ InRegion(t) /\ pc[t] # "created"
    BY Zenon, <1>c, <1>e, <2>1
  <2>3. sub'[t] = "init" /\ frag'[t] = 0 /\ 0 <= fragId
    <3>1. fragId \in Nat
      BY Zenon, <1>0, <1>b DEF TypeOK
    <3>2. sub'[t] = "init" /\ frag'[t] = 0
      BY Zenon, <1>a, <2>1
    <3> QED
      BY <3>1, <3>2
  <2>5. LevelAt(t)'
    BY Zenon, <2>1, <2>2, <2>3 DEF LevelAt
  <2> QED
    BY Zenon, <1>0, <1>a, <2>1, <2>2, <2>5, LevelKept
<1>7. CASE InitializeMyThreadSchedulePtr(t) /\ ~Stop("no schedule in region")
  <2>1. pc[t] \in Callers /\ sub[t] = "init"
    BY Zenon, <1>0, <1>7 DEF InitializeMyThreadSchedulePtr, PlaceInv
  <2>2. CASE \/ BeginRegionBarrier(t, depth[t] + 1) /\ UNCHANGED pc
             \/ BeginNextFragment(t, depth[t] + 1) /\ UNCHANGED pc
    <3>1. pc' = [pc EXCEPT ![t] = pc[t]]
      BY Zenon, <1>a, <2>2
    <3> QED
      BY Zenon, <1>0, <2>1, <2>2, <3>1, LevelBegin
  <2>3. CASE ~\/ BeginRegionBarrier(t, depth[t] + 1) /\ UNCHANGED pc
              \/ BeginNextFragment(t, depth[t] + 1) /\ UNCHANGED pc
    <3>1. /\ UNCHANGED <<fragList, fragId, child, frag, pc>> /\ sub' = [sub EXCEPT ![t] = "none"]
          /\ at' = [at EXCEPT ![t] = fragList[frag[t]]] /\ t < CurrSchedule(t).numThreads
      BY Zenon, <1>7, <2>3 DEF InitializeMyThreadSchedulePtr, Within
    <3>2. LevelAt(t) /\ InRegion(t)
      BY Zenon, <1>c, <1>e, <2>1
    <3>3. frag[t] <= fragId /\ Level[fragList[frag[t]]] = frag[t]
      BY Zenon, <1>0, <1>a, <2>1, <3>2 DEF LevelAt, LevelInv
    <3>4. at'[t] = fragList[frag[t]] /\ sub'[t] = "none"
      BY Zenon, <1>0, <3>1 DEF TypeOK
    <3>5. LevelAt(t)'
      BY Zenon, <3>1, <3>2, <3>3, <3>4 DEF LevelAt, CurrSchedule
    <3>6. \A u \in Thread \ {t} : pc'[u] = pc[u] /\ sub'[u] = sub[u] /\ frag'[u] = frag[u] /\ at'[u] = at[u]
      BY Zenon, <1>0, <3>1 DEF TypeOK
    <3> QED
      BY Zenon, <1>0, <1>e, <2>1, <3>1, <3>2, <3>5, <3>6, LevelKept
  <2> QED
    BY Zenon, <2>2, <2>3
<1>8. CASE MyThreadStartRoutine(t)
  <2>1. /\ UNCHANGED <<fragList, fragId, child, frag, at>> /\ pc' = [pc EXCEPT ![t] = "start"]
        /\ sub' = [sub EXCEPT ![t] = "init"] /\ pc[t] = "born"
    BY Zenon, <1>8 DEF MyThreadStartRoutine, Goto, Within
  <2>2. InRegion(t) /\ sub[t] = "none"
    BY Zenon, <1>0, <2>1, PlainPlace DEF InRegion, Outside, Callers
  <2>3. LevelAt(t) /\ sub'[t] = "init" /\ pc'[t] = "start"
    BY Zenon, <1>a, <1>c, <2>1, <2>2
  <2>4. LevelAt(t)'
    BY Zenon, <2>1, <2>2, <2>3 DEF LevelAt
  <2> QED
    BY Zenon, <1>0, <1>a, <2>1, <2>2, <2>4, LevelKept
<1>9. ASSUME NEW there, Goto(t, there), pc[t] # "created",
             there \notin Outside => InRegion(t) /\ pc[t] # "born",
             UNCHANGED <<fragList, fragId, child, sub, frag, at>>
      PROVE  LevelInv'
  BY Zenon, <1>0, <1>9, LevelPlain
<1>10. ASSUME BeginRegionBarrier(t, 0), UNCHANGED pc, pc[t] \in Callers, sub[t] = "none"
       PROVE  LevelInv'
  <2>1. pc' = [pc EXCEPT ![t] = pc[t]]
    BY Zenon, <1>a, <1>10
  <2> QED
    BY Zenon, <1>0, <1>10, <2>1, LevelBegin
<1>11. CASE AdvanceToNextFragmentIfComplete(t)
  <2>1. pc[t] \in Callers /\ (IF pc[t] = "asleep" THEN "must" ELSE pc[t]) \in Callers
    BY Zenon, <1>11 DEF AdvanceToNextFragmentIfComplete, Waiting, Callers
  <2> QED
    BY Zenon, <1>0, <1>11, <2>1, LevelBegin DEF AdvanceToNextFragmentIfComplete, Goto
<1>12. CASE WaitForHbNode(t)
  BY Zenon, <1>9, <1>12 DEF WaitForHbNode, Waiting, InRegion, Outside
<1>13. CASE SleepThroughBarrier(t)
  BY Zenon, <1>10, <1>13 DEF SleepThroughBarrier, Callers
<1>14. CASE SyncOp(t) \/ SpawnNode(t) \/ JoinedNode(t)
  <2>1. InRegion(t) /\ pc[t] \notin {"born", "created"}
    BY Zenon, <1>14 DEF SyncOp, SpawnNode, JoinedNode, DoOneSyncOp, InRegion, Outside
  <2>2. UNCHANGED <<fragList, fragId, child, sub, frag, at>> /\ \E there : Goto(t, there)
    BY Zenon, <1>14 DEF SyncOp, SpawnNode, JoinedNode, DoOneSyncOp
  <2> QED
    BY Zenon, <1>9, <2>1, <2>2
<1>15. CASE MyThreadCommonInit(t) \/ AfterInput(t) \/ JoinAllYield(t)
  BY Zenon, <1>9, <1>15 DEF MyThreadCommonInit, AfterInput, JoinAllYield, InRegion, Outside
<1>16. CASE AfterMarker(t)
  <2>1. CASE BeginRegionBarrier(t, 0)
    <3>1. "idle" \in Callers /\ pc[t] \in Callers
      BY Zenon, <1>16 DEF AfterMarker, Callers
    <3> QED
      BY Zenon, <1>0, <1>16, <2>1, <3>1, LevelBegin DEF AfterMarker, Goto
  <2>2. CASE ~BeginRegionBarrier(t, 0)
    BY Zenon, <1>9, <1>16, <2>2 DEF AfterMarker, InRegion, Outside
  <2> QED
    BY Zenon, <2>1, <2>2
<1>17. CASE SkipRegionBarriersOrExit(t)
  <2>1. CASE BeginRegionBarrier(t, 0) /\ UNCHANGED pc
    BY Zenon, <1>10, <1>17, <2>1 DEF SkipRegionBarriersOrExit, Callers
  <2>2. CASE ~(BeginRegionBarrier(t, 0) /\ UNCHANGED pc)
    BY Zenon, <1>9, <1>17, <2>2 DEF SkipRegionBarriersOrExit, InRegion, Outside
  <2> QED
    BY Zenon, <2>1, <2>2
<1>18. CASE JoinAllLoop(t)
  <2>1. CASE BeginRegionBarrier(t, 0) /\ UNCHANGED pc /\ pc[t] = "joinbody"
    BY Zenon, <1>10, <1>18, <2>1 DEF JoinAllLoop, Callers
  <2>2. CASE ~(BeginRegionBarrier(t, 0) /\ UNCHANGED pc /\ pc[t] = "joinbody")
    <3>1. UNCHANGED <<fragList, fragId, child, sub, frag, at>> /\ \E there : Goto(t, there)
      BY Zenon, <1>18, <2>2 DEF JoinAllLoop
    <3>2. InRegion(t) /\ pc[t] \notin {"born", "created"}
      BY Zenon, <1>18 DEF JoinAllLoop, InRegion, Outside
    <3> QED
      BY Zenon, <1>9, <3>1, <3>2
  <2> QED
    BY Zenon, <2>1, <2>2
<1>19. CASE CountTotal(t) \/ PthreadJoin(t) \/ Reap(t) \/ PthreadDetach(t) \/ PthreadExit(t)
  <2>1. InRegion(t) /\ pc[t] \notin {"born", "created"}
    BY Zenon, <1>19 DEF CountTotal, PthreadJoin, Reap, PthreadDetach, PthreadExit, InRegion, Outside
  <2>2. UNCHANGED <<fragList, fragId, child, sub, frag, at>> /\ \E there : Goto(t, there)
    BY Zenon, <1>19 DEF CountTotal, PthreadJoin, Reap, PthreadDetach, PthreadExit
  <2> QED
    BY Zenon, <1>9, <2>1, <2>2
<1>20. CASE \/ ExitTotal(t) \/ (ExitNode(t) /\ ~Stop("schedule not complete at exit"))
            \/ MyThreadCommonTeardown(t)
  BY Zenon, <1>9, <1>20 DEF ExitTotal, ExitNode, MyThreadCommonTeardown, Outside
<1>21. CASE PthreadCreate(t)
  <2>1. CASE UNCHANGED child
    <3>1. Goto(t, "created") \/ Goto(t, "idle")
      BY Zenon, <1>21 DEF PthreadCreate
    <3> QED
      BY Zenon, <1>9, <1>21, <2>1, <3>1 DEF PthreadCreate, InRegion, Outside
  <2>2. CASE child' # child
    <3>1. /\ Goto(t, "created") /\ \E u : child' = [child EXCEPT ![t] = u]
          /\ UNCHANGED <<fragList, fragId, sub, frag, at>> /\ pc[t] = "op"
      BY Zenon, <1>21, <2>2 DEF PthreadCreate
    <3>2. InRegion(t) /\ pc'[t] = "created"
      BY Zenon, <1>a, <3>1 DEF Goto, InRegion, Outside
    <3>3. ASSUME NEW u \in Thread, pc'[u] \notin Outside
          PROVE  LevelAt(u)'
      <4>1. CASE u = t
        BY Zenon, <1>c, <3>1, <3>2, <4>1 DEF LevelAt
      <4>2. CASE u # t
        <5>1. pc'[u] = pc[u] /\ child'[u] = child[u]
          BY Zenon, <1>0, <3>1, <4>2 DEF TypeOK, Goto
        <5>2. LevelAt(u)
          BY Zenon, <1>c, <3>3, <5>1 DEF InRegion
        <5> QED
          BY Zenon, <3>1, <5>1, <5>2 DEF LevelAt
      <4> QED
        BY Zenon, <4>1, <4>2
    <3>4. \A k \in FragIndex : k <= fragId' => Level[fragList'[k]] = k
      BY Zenon, <1>0, <3>1 DEF LevelInv
    <3>5. ChildrenPlaced'
      <4>1. \A u \in Thread \ {t} : pc'[u] = pc[u] /\ child'[u] = child[u]
        BY Zenon, <1>0, <3>1 DEF TypeOK, Goto
      <4> QED
        BY Zenon, <1>0, <3>1, <3>2, <4>1 DEF LevelInv, ChildrenPlaced
    <3> QED
      BY Zenon, <1>d, <3>3, <3>4, <3>5
  <2> QED
    BY Zenon, <2>1, <2>2
<1>22. CASE CountRunning(t)
  <2>1. /\ Goto(t, "counted") /\ frag' = [frag EXCEPT ![child[t]] = frag[t]] /\ pc[t] = "created"
        /\ UNCHANGED <<fragList, fragId, child, sub, at>>
    BY Zenon, <1>22 DEF CountRunning
  <2>2. InRegion(t) /\ sub[t] = "none" /\ pc'[t] = "counted"
    BY Zenon, <1>0, <1>a, <2>1, PlainPlace DEF InRegion, Outside, Callers, Goto
  <2>3. LevelAt(t) /\ frag[t] <= fragId
    BY Zenon, <1>c, <2>2 DEF LevelAt
  <2>4. \A u \in Thread : InRegion(u) => frag'[u] = frag[u]
    <3>1. NoThread \notin Thread
      BY ConstantsAssumption DEF Thread, NoThread
    <3>2. \A u \in Thread : InRegion(u) => u # child[t]
      BY Zenon, <1>f, <3>1
    <3> QED
      BY Zenon, <1>a, <2>1, <3>2
  <2>5. child[t] # NoThread => frag'[child[t]] = frag[t]
    BY Zenon, <1>a, <1>f, <2>1
  <2>6. \A u \in Thread \ {t} : child[u] # NoThread => frag'[child[u]] = frag[child[u]]
    <3>1. \A u \in Thread \ {t} : child[u] # NoThread => child[u] \in Thread /\ child[u] # child[t]
      BY Zenon, <1>0, <1>f DEF SlotsDistinct
    <3> QED
      BY Zenon, <1>a, <2>1, <3>1
  <2>7. ASSUME NEW u \in Thread, pc'[u] \notin Outside
        PROVE  LevelAt(u)'
    <3>1. CASE u = t
      BY Zenon, <2>1, <2>2, <2>3, <2>4, <3>1 DEF LevelAt
    <3>2. CASE u # t
      <4>1. pc'[u] = pc[u]
        BY Zenon, <1>a, <2>1, <3>2 DEF Goto
      <4>2. LevelAt(u) /\ InRegion(u)
        BY Zenon, <1>c, <2>7, <4>1 DEF InRegion
      <4>3. frag'[u] = frag[u]
        BY Zenon, <2>4, <4>2
      <4> QED
        BY Zenon, <2>1, <4>1, <4>2, <4>3 DEF LevelAt
    <3> QED
      BY Zenon, <3>1, <3>2
  <2>8. \A k \in FragIndex : k <= fragId' => Level[fragList'[k]] = k
    BY Zenon, <1>0, <2>1 DEF LevelInv
  <2>9. ChildrenPlaced'
    <3>1. \A u \in Thread \ {t} : pc'[u] = pc[u]
      BY Zenon, <1>a, <2>1 DEF Goto
    <3> QED
      BY SMTT(30), <1>0, <2>1, <2>3, <2>5, <2>6, <3>1 DEF LevelInv, ChildrenPlaced
  <2> QED
    BY Zenon, <1>d, <2>7, <2>8, <2>9
<1>23. CASE Spawn(t)
  <2>1. /\ pc[t] = "spawned" /\ pc[child[t]] \in {"none", "dead"}
        /\ pc' = [pc EXCEPT ![t] = "idle", ![child[t]] = "born"]
        /\ child' = [child EXCEPT ![t] = NoThread]
        /\ UNCHANGED <<fragList, fragId, sub, frag, at>>
    BY Zenon, <1>23 DEF Spawn
  <2>2. InRegion(t) /\ sub[t] = "none"
    BY Zenon, <1>0, <2>1, PlainPlace DEF InRegion, Outside, Callers
  <2>3. ASSUME NEW u \in Thread, pc'[u] \notin Outside
        PROVE  LevelAt(u)'
    <3>1. CASE u = t
      <4>1. pc'[t] \in {"idle", "born"} /\ child'[t] = NoThread
        BY Zenon, <1>0, <1>a, <2>1 DEF TypeOK
      <4> QED
        BY Zenon, <1>c, <2>1, <2>2, <3>1, <4>1 DEF LevelAt
    <3>2. CASE u # t /\ u = child[t]
      <4>1. pc'[u] = "born" /\ child'[u] = child[u] /\ u # NoThread /\ pc[u] \in {"none", "dead"}
        <5>1. u # NoThread
          BY ConstantsAssumption DEF Thread, NoThread
        <5> QED
          BY ZenonT(60), <1>0, <2>1, <3>2, <5>1 DEF TypeOK
      <4>2. frag[u] <= fragId
        BY Zenon, <1>0, <2>1, <3>2, <4>1 DEF LevelInv, ChildrenPlaced
      <4>3. sub[u] = "none"
        BY Zenon, <1>0, <4>1, PlainPlace DEF Callers
      <4> QED
        BY Zenon, <2>1, <4>1, <4>2, <4>3 DEF LevelAt
    <3>3. CASE u # t /\ u # child[t]
      <4>1. pc'[u] = pc[u] /\ child'[u] = child[u]
        BY ZenonT(60), <1>0, <2>1, <3>3 DEF TypeOK
      <4> QED
        BY Zenon, <1>c, <2>1, <2>3, <4>1 DEF LevelAt, InRegion
    <3> QED
      BY Zenon, <3>1, <3>2, <3>3
  <2>4. \A k \in FragIndex : k <= fragId' => Level[fragList'[k]] = k
    BY Zenon, <1>0, <2>1 DEF LevelInv
  <2>5. ChildrenPlaced'
    <3>1. \A u \in Thread \ {t} : child'[u] = child[u] /\ (pc[u] = "created" => pc'[u] = "created")
      <4>1. \A u \in Thread \ {t} : pc[u] = "created" => u # child[t]
        BY Zenon, <2>1
      <4> QED
        BY Zenon, <1>0, <2>1, <4>1 DEF TypeOK
    <3>2. child'[t] = NoThread
      BY Zenon, <1>0, <2>1 DEF TypeOK
    <3> QED
      BY ZenonT(60), <1>0, <2>1, <3>1, <3>2 DEF LevelInv, ChildrenPlaced
  <2> QED
    BY Zenon, <1>d, <2>3, <2>4, <2>5
<1>24. CASE \E why : Stop(why)
  <2>1. UNCHANGED <<fragList, fragId, child, sub, frag, at, pc>>
    BY Zenon, <1>24 DEF Stop
  <2> QED
    BY Zenon, <1>0, <2>1 DEF LevelInv, ChildrenPlaced, InRegion
<1>25. CASE HbNodeMissing(t) \/ RunOff(t)
  BY Zenon, <1>24, <1>25 DEF HbNodeMissing, RunOff
<1> QED
  BY ZenonT(60), <1>1, <1>2, <1>3, <1>4, <1>5, <1>6, <1>7, <1>8, <1>11, <1>12, <1>13, <1>14, <1>15, <1>16, <1>17,
     <1>18, <1>19, <1>20, <1>21, <1>22, <1>23, <1>24, <1>25 DEF Step
-----------------------------------------------------------------------------
(* The theorems.                                                             *)

\* The inductive invariant holds when klee_ics_initialize returns.
LEMMA InitInv == Init => IInv
<1> SUFFICES ASSUME Init PROVE IInv
  OBVIOUS
<1> USE ConstantsAssumption DEF Init
<1>0. 0 \in Thread /\ NoThread \notin Thread /\ 0 \in FragIndex
  BY DEF Thread, NoThread, FragIndex
<1>1. TypeOK
  <2>1. info \in [Thread -> ThreadInfo]
    <3>1. [FreshInfo EXCEPT !.joinable = TRUE] \in ThreadInfo /\ NoInfo \in ThreadInfo
      BY Zenon DEF FreshInfo, NoInfo, ThreadInfo
    <3> QED
      BY Zenon, <3>1
  <2>2. fragList \in [FragIndex -> Fragment] /\ at \in [Thread -> Fragment]
    BY Zenon, TableAssumption
  <2>3. pc \in [Thread -> Pc] /\ sub \in [Thread -> Sub] /\ status \in Outcome
    BY Zenon DEF Pc, Sub, Outcome
  <2> QED
    BY Zenon, <1>0, <2>1, <2>2, <2>3 DEF TypeOK
<1>2. \A t \in Thread : InRegion(t) => t = 0
  BY Zenon DEF InRegion, Outside
<1>3. BarrierCount
  <2>1. Counted \in SUBSET {0} /\ Enrolled \in SUBSET {0} /\ Present \in SUBSET {0}
    BY Zenon, <1>2 DEF Counted, Enrolled, Present
  <2>2. \A places : Creating(places) = {}
    BY Zenon DEF Creating
  <2>3. \A A \in SUBSET {0} : Cardinality(A) \in Nat /\ Cardinality(A) <= 1
    <3>1. \A A \in SUBSET {0} : A = {} \/ A = {0}
      OBVIOUS
    <3>2. Cardinality({}) = 0 /\ Cardinality({0}) = 1
      BY Zenon, FS_EmptySet, FS_Singleton
    <3>3. \A A \in SUBSET {0} : Cardinality(A) = 0 \/ Cardinality(A) = 1
      BY <3>1, <3>2, Zenon
    <3> QED
      BY <3>3
  <2>4. \A places : Cardinality(Creating(places)) = 0
    BY Zenon, <2>2, FS_EmptySet
  <2>5. \A t \in Thread : ~Releasing(t)
    BY Zenon DEF Releasing
  <2> QED
    BY <2>1, <2>3, <2>4, <2>5 DEF BarrierCount
<1>4. SlotsDistinct
  BY Zenon, <1>0, <1>2 DEF SlotsDistinct, FreshInfo
<1>5. PlaceInv
  BY DEF PlaceInv, Callers
<1>6. LevelInv
  <2>1. \A k \in FragIndex : k <= fragId => Level[fragList[k]] = k
    BY TableAssumption DEF FragIndex
  <2>2. ChildrenPlaced
    BY Zenon DEF ChildrenPlaced
  <2> QED
    BY <1>2, <2>1, <2>2 DEF LevelInv
<1> QED
  BY Zenon, <1>1, <1>3, <1>4, <1>5, <1>6 DEF IInv

\* Every step keeps it.
LEMMA NextInv == IInv /\ [Next]_vars => IInv'
<1> SUFFICES ASSUME IInv, [Next]_vars PROVE IInv'
  OBVIOUS
<1>1. CASE Next
  <2>1. PICK t \in Thread : Step(t)
    BY Zenon, <1>1 DEF Next
  <2>2. TypeOK'
    BY Zenon, <2>1, TypeStep
  <2>3. BarrierCount' /\ SlotsDistinct' /\ PlaceInv' /\ LevelInv'
    BY Zenon, <2>1, <2>2, CountStep, SlotStep, PlaceStep, LevelStep DEF IInv
  <2> QED
    BY Zenon, <2>2, <2>3 DEF IInv
<1>2. CASE UNCHANGED vars
  <2> USE <1>2 DEF vars, barrier, frags, threads, logs, place, clocks
  <2>1. TypeOK'
    BY Zenon DEF IInv, TypeOK
  <2>2. BarrierCount'
    BY Zenon, SameCount DEF IInv
  <2>3. SlotsDistinct'
    BY Zenon DEF IInv, SlotsDistinct, InRegion
  <2>4. PlaceInv'
    BY Zenon DEF IInv, PlaceInv
  <2>5. LevelInv'
    BY Zenon DEF IInv, LevelInv, ChildrenPlaced, InRegion
  <2> QED
    BY Zenon, <2>1, <2>2, <2>3, <2>4, <2>5 DEF IInv
<1> QED
  BY Zenon, <1>1, <1>2

\* The runtime never leaves its types; in particular MyThreadCurrScheduleFragment
\* never runs off CurrFragmentList and no counter goes below zero.
THEOREM TypeCorrect == Spec => []TypeOK
<1>1. IInv => TypeOK
  BY Zenon DEF IInv
<1> QED
  BY <1>1, InitInv, NextInv, PTL DEF Spec

\* NumThreadsRunningInRegion, NumThreadsTotal and live_threads never fall short of
\* the threads they stand for, however creations, exits and arrivals interleave.
THEOREM BarrierCounting == Spec => []BarrierCount
<1>1. IInv => BarrierCount
  BY Zenon DEF IInv
<1> QED
  BY <1>1, InitInv, NextInv, PTL DEF Spec

\* pthread_create never finds a slot that another thread runs in or is about to.
THEOREM SlotOwnership == Spec => []SlotsDistinct
<1>1. IInv => SlotsDistinct
  BY Zenon DEF IInv
<1> QED
  BY <1>1, InitInv, NextInv, PTL DEF Spec

\* RegionTicker moves only from ReleaseRegionBarrier.
LEMMA TickerStep ==
  ASSUME NEW t \in Thread, Step(t), ticker' # ticker
  PROVE  ReleaseRegionBarrier(t)
<1> USE DEF barrier
<1>1. \A why : Stop(why) => ticker' = ticker
  BY Zenon DEF Stop
<1>2. \A d : BeginNextFragment(t, d) \/ BeginRegionBarrier(t, d) => ticker' = ticker
  BY Zenon DEF BeginNextFragment, BeginRegionBarrier
<1>3. \A op, there : DoOneSyncOp(t, op, there) => ticker' = ticker
  BY Zenon DEF DoOneSyncOp
<1>4. ~\/ ChooseFragment(t) \/ UpdateCurrFragmentId(t) \/ WaitForNextFragment(t) \/ Arrive(t)
       \/ SelectRegion(t) \/ WaitAtRegionBarrier(t) \/ InitializeMyThreadSchedulePtr(t)
       \/ MyThreadStartRoutine(t) \/ MyThreadCommonInit(t) \/ AdvanceToNextFragmentIfComplete(t)
  BY Zenon, <1>1, <1>2 DEF ChooseFragment, UpdateCurrFragmentId, WaitForNextFragment, Arrive, SelectRegion,
     WaitAtRegionBarrier, InitializeMyThreadSchedulePtr, MyThreadStartRoutine, MyThreadCommonInit,
     AdvanceToNextFragmentIfComplete
<1>5. ~\/ WaitForHbNode(t) \/ HbNodeMissing(t) \/ SleepThroughBarrier(t) \/ SyncOp(t) \/ AfterInput(t)
       \/ AfterMarker(t) \/ SkipRegionBarriersOrExit(t) \/ JoinAllLoop(t) \/ JoinAllYield(t) \/ RunOff(t)
  BY Zenon, <1>1, <1>2, <1>3 DEF WaitForHbNode, HbNodeMissing, SleepThroughBarrier, SyncOp, AfterInput,
     AfterMarker, SkipRegionBarriersOrExit, JoinAllLoop, JoinAllYield, RunOff
<1>6. ~\/ PthreadCreate(t) \/ CountRunning(t) \/ CountTotal(t) \/ SpawnNode(t) \/ Spawn(t)
       \/ PthreadExit(t) \/ ExitTotal(t) \/ ExitNode(t) \/ MyThreadCommonTeardown(t)
       \/ PthreadJoin(t) \/ JoinedNode(t) \/ Reap(t) \/ PthreadDetach(t)
  BY Zenon, <1>1, <1>3 DEF PthreadCreate, CountRunning, CountTotal, SpawnNode, Spawn, PthreadExit, ExitTotal,
     ExitNode, MyThreadCommonTeardown, PthreadJoin, JoinedNode, Reap, PthreadDetach
<1> QED
  BY Zenon, <1>4, <1>5, <1>6 DEF Step

\* The region barrier separates regions: whatever the schedules, the ticker moves
\* only while every other thread of the region waits for this very tick.
THEOREM RegionSeparation == Spec => RegionSync
<1> DEFINE Tick == ticker' # ticker =>
                     \E t \in Thread : /\ Releasing(t)
                                      /\ \A u \in Thread \ {t} : InRegion(u) => Stopped(u)
<1>1. ASSUME IInv, [Next]_vars PROVE [Tick]_vars
  <2>1. CASE Next
    <3> SUFFICES ASSUME ticker' # ticker
                 PROVE  \E t \in Thread : /\ Releasing(t)
                                          /\ \A u \in Thread \ {t} : InRegion(u) => Stopped(u)
      OBVIOUS
    <3>1. PICK t \in Thread : Step(t)
      BY Zenon, <2>1 DEF Next
    <3>2. Releasing(t)
      BY Zenon, <3>1, TickerStep DEF ReleaseRegionBarrier, Releasing
    <3>3. \A u \in Thread \ {t} : InRegion(u) => Stopped(u)
      BY Zenon, <1>1, <3>2, OthersStopped DEF IInv
    <3> QED
      BY Zenon, <3>2, <3>3
  <2>2. CASE UNCHANGED vars
    BY Zenon, <2>2
  <2> QED
    BY Zenon, <1>1, <2>1, <2>2
<1> QED
  BY <1>1, InitInv, NextInv, PTL DEF Spec, RegionSync
=============================================================================
