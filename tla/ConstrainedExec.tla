-------------------------- MODULE ConstrainedExec --------------------------
(***************************************************************************)
(* The scheduler of the constrained-execution runtime                      *)
(* (cloud9/runtime/ConstrainedExec/lib.cpp): the region barrier, schedule   *)
(* fragments, happens-before nodes with their vector clock, and the thread  *)
(* operations that change how many threads the barrier waits for.           *)
(*                                                                         *)
(* A program runs region by region.  In a region every thread follows its   *)
(* own list of HB nodes, cut into fragments at the inputs that decide how    *)
(* the schedule goes on.  The schedule tables are constants: they are what   *)
(* the instrumentor compiles into the program.                              *)
(*                                                                         *)
(* A thread has two program counters.  pc is its place in the code that      *)
(* calls the scheduler (an API function of lib.cpp); sub is its place in     *)
(* RegionBarrier, AdvanceToNextFragment or InitializeMyThreadSchedulePtr,    *)
(* "none" when it is in none of them.                                        *)
(***************************************************************************)
EXTENDS Integers, Sequences, FiniteSets

CONSTANTS
  MaxThreads,    \* KLEE_MAX_THREADS
  MaxFragments,  \* the length of CurrFragmentList
  Sched,         \* HBSchedule tables, indexed by fragment id (1 is the entry)
  Level,         \* fragment id -> its depth in the schedule tree of its region
  Selectors,     \* selector id -> the fragments its function may return
  Regions        \* region id -> the threads of its row of __ics_regionctx_table

Thread == 0 .. MaxThreads - 1
NoThread == MaxThreads
Fragment == DOMAIN Sched
FragIndex == 0 .. MaxFragments - 1

\* What the API call of an HB node does; "block" is any node after which the
\* call sleeps for its next node, "pbarrier" the last one of a barrier wait.
OpKind == {"sync", "input", "marker", "block", "pbarrier", "skip", "create",
           "spawn", "exit", "join", "joined", "joinall", "detach"}

HBNode == [op : OpKind, arg : Thread \cup {NoThread}, in : SUBSET (Thread \X Nat)]

\* What the runtime takes for granted of the tables: selectors return fragments,
\* the ones that open a region at level 0 and the others one level below the
\* fragment they follow, and no schedule tree is deeper than CurrFragmentList.
\* Selector 0 is no selector.
ASSUME ConstantsAssumption ==
  /\ MaxThreads \in Nat \ {0}
  /\ MaxFragments \in Nat \ {0}

ASSUME TableAssumption ==
  /\ Level \in [Fragment -> FragIndex]
  /\ 1 \in Fragment /\ Level[1] = 0
  /\ Selectors[0] = {}
  /\ \A f \in Fragment :
       /\ Sched[f].numThreads \in Nat
       /\ \A t \in Thread : t < Sched[f].numThreads => Sched[f].nodes[t] \in Seq(HBNode)
       /\ Sched[f].selector # 0 => Level[f] + 1 \in FragIndex
       /\ \A g \in Selectors[Sched[f].selector] : g \in Fragment /\ Level[g] = Level[f] + 1
       /\ Sched[f].next \in Nat
       /\ \A g \in Selectors[Sched[f].next] : g \in Fragment /\ Level[g] = 0

VARIABLES
  status,       \* "running", "exited", or the assertion that stopped the process
  ticker,       \* RegionTicker
  running,      \* NumThreadsRunningInRegion
  total,        \* NumThreadsTotal
  fragList,     \* CurrFragmentList
  fragId,       \* CurrFragmentId
  clock,        \* VectorClock[t].info.timestamp
  registered,   \* { t : ThreadContexts[t] # NULL }
  info,         \* __tsync.threads
  live,         \* __tsync.live_threads
  readSnap,     \* LogReadIndex = LogSnapshotIndex
  snap,         \* the ticker at which t's stack variables were last snapshotted
  region,       \* the region the last barrier selected (0: the initial one)
  pc, sub,      \* the two program counters of a thread
  depth,        \* calls of InitializeMyThreadSchedulePtr around the current one
  frag,         \* MyThreadCurrScheduleFragment
  at, ptr,      \* MyThreadSchedulePtr: a fragment and a position in it
  cur,          \* position of the HB node whose operation t is performing
  oldticker,    \* the ticker RegionBarrier read on entry
  child,        \* the slot pthread_create found
  done          \* history: HB nodes of t that have taken effect in this region

barrier == <<ticker, running, total>>
frags   == <<fragList, fragId>>
threads == <<registered, info, live, child>>
logs    == <<readSnap, snap, region>>
place   == <<frag, at, ptr, cur, oldticker, depth>>
clocks  == <<clock, done>>
vars    == <<status, barrier, frags, threads, logs, place, clocks, pc, sub>>
-----------------------------------------------------------------------------
(* Schedule tables, read as the runtime reads them.                         *)

CurrSchedule(t) == Sched[fragList[frag[t]]]      \* MyThreadCurrSchedule()
MySchedule(t) == Sched[at[t]].nodes[t]
Node(t) == MySchedule(t)[cur[t]]
NextNode(t) == MySchedule(t)[ptr[t]]

AtNode(t) == ptr[t] <= Len(MySchedule(t))
IsFragmentComplete(t) == ~AtNode(t) /\ Sched[at[t]].selector # 0
IsScheduleComplete(t) == ~AtNode(t) /\ Sched[at[t]].selector = 0

\* The first position from i on that is not a skip node.
SkipNops(s, i) ==
  i + Cardinality({j \in i .. Len(s) : \A k \in i .. j : s[k].op = "skip"})

FreshInfo == [allocated |-> TRUE, joinable |-> FALSE, terminated |-> FALSE,
              hasjoiner |-> FALSE]
NoInfo == [FreshInfo EXCEPT !.allocated = FALSE]
-----------------------------------------------------------------------------
(* klee_ics_initialize: thread 0 is about to position itself in fragment 1.  *)
Init ==
  /\ status = "running"
  /\ ticker = 0 /\ running = 1 /\ total = 1
  /\ fragList = [k \in FragIndex |-> 1]
  /\ fragId = 0
  /\ clock = [t \in Thread |-> 0]
  /\ done = [t \in Thread |-> 0]
  /\ registered = {}
  /\ info = [t \in Thread |-> IF t = 0 THEN [FreshInfo EXCEPT !.joinable = TRUE]
                                       ELSE NoInfo]
  /\ live = 1
  /\ child = [t \in Thread |-> NoThread]
  /\ readSnap = TRUE
  /\ snap = [t \in Thread |-> 0]
  /\ region = 0
  /\ frag = [t \in Thread |-> 0]
  /\ at = [t \in Thread |-> 1]
  /\ ptr = [t \in Thread |-> 1]
  /\ cur = [t \in Thread |-> 1]
  /\ oldticker = [t \in Thread |-> 0]
  /\ depth = [t \in Thread |-> 0]
  /\ pc = [t \in Thread |-> IF t = 0 THEN "start" ELSE "none"]
  /\ sub = [t \in Thread |-> IF t = 0 THEN "init" ELSE "none"]

\* A failed assert, or exit, ends the process.
Stop(why) ==
  /\ status' = why
  /\ UNCHANGED <<barrier, frags, threads, logs, place, clocks, pc, sub>>

Goto(t, there) == pc' = [pc EXCEPT ![t] = there]
Within(t, there) == sub' = [sub EXCEPT ![t] = there]
-----------------------------------------------------------------------------
(* Fragments.                                                                *)

\* AdvanceToNextFragment up to its choice between leader and follower; d is
\* the nesting of the InitializeMyThreadSchedulePtr call that ends it.
BeginNextFragment(t, d) ==
  /\ frag' = [frag EXCEPT ![t] = @ + 1]
  /\ depth' = [depth EXCEPT ![t] = d]
  /\ Within(t, IF CurrSchedule(t).leader = t THEN "choose" ELSE "fragwait")
  /\ UNCHANGED <<status, barrier, frags, threads, logs, clocks, at, ptr, cur, oldticker>>

ChosenIndexOld(t) == frag[t] - 1

\* The entry of CurrFragmentList that the leader fills in.
ChosenIndex(t) == frag[t]

ChooseFragment(t) ==
  /\ sub[t] = "choose"
  /\ \E f \in Selectors[Sched[fragList[frag[t] - 1]].selector] :
       fragList' = [fragList EXCEPT ![ChosenIndex(t)] = f]
  /\ Within(t, "publish")
  /\ UNCHANGED <<status, barrier, fragId, threads, logs, place, clocks, pc>>

UpdateCurrFragmentId(t) ==
  /\ sub[t] = "publish"
  /\ LET swapped == fragId = frag[t] - 1 IN
       /\ fragId' = IF swapped THEN frag[t] ELSE fragId
       /\ status' = IF swapped THEN status ELSE "fragment id CAS failed"
  /\ Within(t, "init")
  /\ UNCHANGED <<barrier, fragList, threads, logs, place, clocks, pc>>

FragmentReadyEarly(t) == fragId >= frag[t] - 1

FragmentReady(t) == fragId >= frag[t]

WaitForNextFragment(t) ==
  /\ sub[t] = "fragwait"
  /\ FragmentReady(t)
  /\ Within(t, "init")
  /\ UNCHANGED <<status, barrier, frags, threads, logs, place, clocks, pc>>
-----------------------------------------------------------------------------
(* The region barrier.                                                       *)

BeginRegionBarrier(t, d) ==
  /\ status' = IF CurrSchedule(t).exits THEN "barrier in exiting schedule" ELSE status
  /\ oldticker' = [oldticker EXCEPT ![t] = ticker]
  /\ depth' = [depth EXCEPT ![t] = d]
  /\ Within(t, "arrive")
  /\ UNCHANGED <<barrier, frags, threads, logs, clocks, frag, at, ptr, cur>>

LastArrivalEarly == running <= 2
LastArrivalNever == running = 0

\* __sync_sub_and_fetch(&NumThreadsRunningInRegion, 1) returns 0.
LastArrival == running = 1

Arrive(t) ==
  /\ sub[t] = "arrive"
  /\ running' = running - 1
  /\ Within(t, IF LastArrival THEN "select" ELSE "barrier")
  /\ UNCHANGED <<status, ticker, total, frags, threads, logs, place, clocks, pc>>

SnapshottedAllButOne(k) == k < total - 1

\* SnapshotStackVars: for (k = 0; k < NumThreadsTotal; ++k)
Snapshotted(k) == k < total

\* The last thread to arrive: GetNextRegionId compares the registered threads
\* with the region the finished schedule leads to, the selector of that region
\* picks its first fragment, and SnapshotStackVars copies the logs of the first
\* NumThreadsTotal threads if the schedule may need them again.
SelectRegion(t) ==
  /\ sub[t] = "select"
  /\ LET r == CurrSchedule(t).next IN
     \/ /\ registered = Regions[r]
        /\ region' = r
        /\ fragId' = 0
        /\ \E f \in Selectors[r] :
             /\ fragList' = [fragList EXCEPT ![0] = f]
             /\ readSnap' = (Sched[f].selector # 0)
             /\ snap' = IF Sched[f].selector # 0
                        THEN [k \in Thread |-> IF Snapshotted(k) THEN ticker + 1 ELSE snap[k]]
                        ELSE snap
        /\ Within(t, "release")
        /\ UNCHANGED <<status, barrier, threads, place, clocks, pc>>
     \/ registered # Regions[r] /\ Stop("no matching region")

ReleasedKeepCount == running

\* What ReleaseRegionBarrier resets NumThreadsRunningInRegion to.
ReleasedCount == total

ReleaseRegionBarrier(t) ==
  /\ sub[t] = "release"
  /\ running' = ReleasedCount
  /\ clock' = [u \in Thread |-> 0]
  /\ done' = [u \in Thread |-> 0]
  /\ ticker' = ticker + 1
  /\ frag' = [frag EXCEPT ![t] = 0]
  /\ Within(t, "init")
  /\ UNCHANGED <<status, total, frags, threads, logs, at, ptr, cur, oldticker, depth, pc>>

StartFragmentStale(t) == frag[t]

\* RegionBarrier ends with MyThreadCurrScheduleFragment = 0.
StartFragment(t) == 0

WaitAtRegionBarrier(t) ==
  /\ sub[t] = "barrier"
  /\ ticker # oldticker[t]
  /\ frag' = [frag EXCEPT ![t] = StartFragment(t)]
  /\ Within(t, "init")
  /\ UNCHANGED <<status, barrier, frags, threads, logs, at, ptr, cur, oldticker, depth,
                 clocks, pc>>
-----------------------------------------------------------------------------
(* InitializeMyThreadSchedulePtr.  Every enclosing call finds the thread in    *)
(* the schedule when the inner one returns, and skips the leading nodes again. *)

\* How far the clock moves over n leading skip nodes.
SkipTicks(t, n) == (depth[t] + 1) * n

InitializeMyThreadSchedulePtr(t) ==
  /\ sub[t] = "init"
  /\ \/ /\ t < CurrSchedule(t).numThreads
        /\ LET first == SkipNops(CurrSchedule(t).nodes[t], 1) IN
             /\ at' = [at EXCEPT ![t] = fragList[frag[t]]]
             /\ ptr' = [ptr EXCEPT ![t] = first]
             /\ clock' = [clock EXCEPT ![t] = @ + SkipTicks(t, first - 1)]
             /\ done' = [done EXCEPT ![t] = @ + (first - 1)]
        /\ depth' = [depth EXCEPT ![t] = 0]
        /\ Within(t, "none")
        /\ UNCHANGED <<status, barrier, frags, threads, logs, frag, cur, oldticker, pc>>
     \/ /\ t >= CurrSchedule(t).numThreads
        /\ CurrSchedule(t).selector # 0
        /\ BeginNextFragment(t, depth[t] + 1)
        /\ UNCHANGED pc
     \/ /\ t >= CurrSchedule(t).numThreads
        /\ CurrSchedule(t).selector = 0
        /\ \/ frag[t] = 0 /\ Stop("no schedule in region")
           \/ frag[t] # 0 /\ BeginRegionBarrier(t, depth[t] + 1) /\ UNCHANGED pc

\* MyThreadStartRoutine, and the end of MyThreadCommonInit.
MyThreadStartRoutine(t) ==
  /\ pc[t] = "born"
  /\ status' = IF t < CurrSchedule(t).numThreads THEN status ELSE "started outside schedule"
  /\ Goto(t, "start")
  /\ Within(t, "init")
  /\ UNCHANGED <<barrier, frags, threads, logs, place, clocks>>

MyThreadCommonInit(t) ==
  /\ pc[t] = "start" /\ sub[t] = "none"
  /\ registered' = registered \cup {t}
  /\ Goto(t, "idle")
  /\ UNCHANGED <<status, barrier, frags, info, live, child, logs, place, clocks, sub>>
-----------------------------------------------------------------------------
(* Happens-before nodes.                                                     *)

\* Places where the code calls WaitForHbNode; a sleeper is past its loop over
\* region barriers once it has called it.
Waiting(t) == sub[t] = "none" /\ pc[t] \in {"idle", "asleep", "must", "spawn", "joinwait"}

AdvanceToNextFragmentIfComplete(t) ==
  /\ sub[t] = "none"
  /\ Waiting(t) \/ pc[t] \in {"marked", "read"}
  /\ IsFragmentComplete(t)
  /\ BeginNextFragment(t, 0)
  /\ Goto(t, IF pc[t] = "asleep" THEN "must" ELSE pc[t])

EdgesSatisfiedOffByOne(t) == \A e \in NextNode(t).in : clock[e[1]] + 1 >= e[2]

EdgesSatisfied(t) == \A e \in NextNode(t).in : clock[e[1]] >= e[2]

\* pthread_joinall takes only nodes of its own context.
WaitForHbNode(t) ==
  /\ Waiting(t)
  /\ AtNode(t)
  /\ pc[t] = "joinwait" => NextNode(t).op = "joinall"
  /\ EdgesSatisfied(t)
  /\ LET next == SkipNops(MySchedule(t), ptr[t] + 1) IN
       /\ cur' = [cur EXCEPT ![t] = ptr[t]]
       /\ ptr' = [ptr EXCEPT ![t] = next]
       /\ clock' = [clock EXCEPT ![t] = @ + (next - ptr[t] - 1)]
  /\ Goto(t, "op")
  /\ UNCHANGED <<status, barrier, frags, threads, logs, frag, at, oldticker, depth, done, sub>>

\* WaitForHbNodeMustExist, when WaitForHbNode returns false.
HbNodeMissing(t) ==
  /\ Waiting(t) /\ pc[t] \in {"must", "spawn"}
  /\ IsScheduleComplete(t)
  /\ Stop("no HB node")

\* WaitForHbNodeMustExistCanSleep
SleepThroughBarrier(t) ==
  /\ pc[t] = "asleep" /\ sub[t] = "none"
  /\ IsScheduleComplete(t)
  /\ BeginRegionBarrier(t, 0)
  /\ UNCHANGED pc

AdvanceHbNode(t) ==
  /\ clock' = [clock EXCEPT ![t] = @ + 1]
  /\ done' = [done EXCEPT ![t] = @ + (ptr[t] - cur[t])]

\* An operation that is its HB node and continues at pc there.
DoOneSyncOp(t, op, there) ==
  /\ pc[t] = "op" /\ Node(t).op = op
  /\ AdvanceHbNode(t)
  /\ Goto(t, there)
  /\ UNCHANGED <<status, barrier, frags, logs, place, sub>>

SyncOp(t) ==
  /\ \/ DoOneSyncOp(t, "sync", "idle")
     \/ DoOneSyncOp(t, "block", "asleep")
     \/ DoOneSyncOp(t, "input", "read")
     \/ DoOneSyncOp(t, "marker", "marked")
     \/ DoOneSyncOp(t, "pbarrier", "skipbar")
     \/ DoOneSyncOp(t, "joinall", "joinall")
  /\ UNCHANGED threads

\* The ends of DoNewInput, klee_ics_region_marker and pthread_barrier_wait,
\* and the loop of pthread_joinall, once the node is done.
AfterInput(t) ==
  /\ pc[t] = "read" /\ sub[t] = "none"
  /\ ~IsFragmentComplete(t)
  /\ Goto(t, "idle")
  /\ UNCHANGED <<status, barrier, frags, threads, logs, place, clocks, sub>>

AfterMarker(t) ==
  /\ pc[t] = "marked" /\ sub[t] = "none"
  /\ ~IsFragmentComplete(t)
  /\ Goto(t, "idle")
  /\ \/ IsScheduleComplete(t) /\ ~CurrSchedule(t).exits /\ BeginRegionBarrier(t, 0)
     \/ /\ ~IsScheduleComplete(t) \/ CurrSchedule(t).exits
        /\ UNCHANGED <<status, barrier, frags, threads, logs, place, clocks, sub>>

SkipRegionBarriersOrExit(t) ==
  /\ pc[t] = "skipbar" /\ sub[t] = "none"
  /\ \/ /\ IsScheduleComplete(t) /\ ~CurrSchedule(t).exits
        /\ BeginRegionBarrier(t, 0)
        /\ UNCHANGED pc
     \/ /\ ~IsScheduleComplete(t) \/ CurrSchedule(t).exits
        /\ Goto(t, "idle")
        /\ UNCHANGED <<status, barrier, frags, threads, logs, place, clocks, sub>>

JoinAllLoop(t) ==
  /\ pc[t] \in {"joinall", "joinbody", "joinwait"} /\ sub[t] = "none"
  /\ \/ /\ \/ pc[t] = "joinall" /\ Goto(t, IF live > 1 THEN "joinbody" ELSE "yield")
           \/ /\ pc[t] = "joinbody" /\ (IsScheduleComplete(t) => CurrSchedule(t).exits)
              /\ Goto(t, IF IsScheduleComplete(t) THEN "yield" ELSE "joinwait")
           \/ /\ pc[t] = "joinwait"
              /\ IsScheduleComplete(t) \/ (AtNode(t) /\ NextNode(t).op # "joinall")
              /\ Goto(t, "joinall")
        /\ UNCHANGED <<status, barrier, frags, threads, logs, place, clocks, sub>>
     \/ /\ pc[t] = "joinbody" /\ IsScheduleComplete(t) /\ ~CurrSchedule(t).exits
        /\ BeginRegionBarrier(t, 0)
        /\ UNCHANGED pc

JoinAllYield(t) ==
  /\ pc[t] = "yield" /\ live <= 1
  /\ Goto(t, "idle")
  /\ UNCHANGED <<status, barrier, frags, threads, logs, place, clocks, sub>>

\* What a thread does past the last node of a schedule that lets the program
\* exit: end it, call an operation the schedule does not have, or neither.
RunOff(t) ==
  /\ pc[t] = "idle" /\ sub[t] = "none"
  /\ IsScheduleComplete(t)
  /\ \/ CurrSchedule(t).tail[t] = "exit" /\ Stop("exited")
     \/ CurrSchedule(t).tail[t] = "op" /\ Stop("no HB node in exiting schedule")
-----------------------------------------------------------------------------
(* Threads.  The node of pthread_create ends when the slot is taken; the      *)
(* counters follow, one atomic increment each, and the new thread starts      *)
(* after the node of klee_thread_create.                                      *)

SlotTakenLast(u, free) == \A v \in free : v <= u

\* The loop over __tsync.threads takes the first free slot.
SlotTaken(u, free) == \A v \in free : u <= v

NewInfoStale(u) == [info[u] EXCEPT !.allocated = TRUE]

\* pthread_create clears the slot it takes.
NewInfo(u) == FreshInfo

PthreadCreate(t) ==
  /\ pc[t] = "op" /\ Node(t).op = "create"
  /\ LET free == {u \in Thread : ~info[u].allocated} IN
     \/ /\ free # {}
        /\ \E u \in free :
             /\ SlotTaken(u, free)
             /\ info' = [info EXCEPT ![u] = NewInfo(u)]
             /\ child' = [child EXCEPT ![t] = u]
        /\ live' = live + 1
        /\ Goto(t, "created")
     \/ /\ free = {}
        /\ UNCHANGED <<info, child, live>>
        /\ Goto(t, "idle")
  /\ AdvanceHbNode(t)
  /\ UNCHANGED <<status, barrier, frags, registered, logs, place, sub>>

CountRunning(t) ==
  /\ pc[t] = "created"
  /\ info' = [info EXCEPT ![child[t]].joinable = TRUE]
  /\ frag' = [frag EXCEPT ![child[t]] = frag[t]]
  /\ running' = running + 1
  /\ Goto(t, "counted")
  /\ UNCHANGED <<status, ticker, total, frags, registered, live, child, logs, at, ptr, cur,
                 oldticker, depth, clocks, sub>>

CountTotal(t) ==
  /\ pc[t] = "counted"
  /\ total' = total + 1
  /\ Goto(t, "spawn")
  /\ UNCHANGED <<status, ticker, running, frags, threads, logs, place, clocks, sub>>

SpawnNode(t) ==
  /\ DoOneSyncOp(t, "spawn", "spawned")
  /\ UNCHANGED threads

\* The slot is free again only after a region barrier: the runtime does not
\* support reuse in the region of the exit (TODO in MyThreadStartRoutine).
Spawn(t) ==
  /\ pc[t] = "spawned"
  /\ pc[child[t]] \in {"none", "dead"}
  /\ pc' = [pc EXCEPT ![t] = "idle", ![child[t]] = "born"]
  /\ child' = [child EXCEPT ![t] = NoThread]
  /\ UNCHANGED <<status, barrier, frags, registered, info, live, logs, place, clocks, sub>>

PthreadExit(t) ==
  /\ pc[t] = "op" /\ Node(t).op = "exit"
  /\ info' = IF info[t].joinable THEN [info EXCEPT ![t].terminated = TRUE]
                                ELSE [info EXCEPT ![t].allocated = FALSE]
  /\ live' = live - 1
  /\ running' = running - 1
  /\ Goto(t, "uncounted")
  /\ UNCHANGED <<status, ticker, total, frags, registered, child, logs, place, clocks, sub>>

ExitTotal(t) ==
  /\ pc[t] = "uncounted"
  /\ total' = total - 1
  /\ Goto(t, "exiting")
  /\ UNCHANGED <<status, ticker, running, frags, threads, logs, place, clocks, sub>>

ExitNode(t) ==
  /\ pc[t] = "exiting"
  /\ \/ /\ IsScheduleComplete(t)
        /\ AdvanceHbNode(t)
        /\ Goto(t, "teardown")
        /\ UNCHANGED <<status, barrier, frags, threads, logs, place, sub>>
     \/ ~IsScheduleComplete(t) /\ Stop("schedule not complete at exit")

MyThreadCommonTeardown(t) ==
  /\ pc[t] = "teardown"
  /\ registered' = registered \ {t}
  /\ Goto(t, "dead")
  /\ UNCHANGED <<status, barrier, frags, info, live, child, logs, place, clocks, sub>>

\* pthread_join: u has been created, is not being joined and can be.
Joinable(t, u) == /\ u \in Thread \ {t}
                  /\ info[u].allocated /\ info[u].joinable /\ ~info[u].hasjoiner

PthreadJoin(t) ==
  /\ pc[t] = "op" /\ Node(t).op = "join"
  /\ LET u == Node(t).arg IN
     \/ /\ Joinable(t, u)
        /\ info' = [info EXCEPT ![u].hasjoiner = TRUE]
        /\ Goto(t, "asleep")
     \/ ~Joinable(t, u) /\ UNCHANGED info /\ Goto(t, "idle")
  /\ AdvanceHbNode(t)
  /\ UNCHANGED <<status, barrier, frags, registered, live, child, logs, place, sub>>

JoinedNode(t) ==
  /\ DoOneSyncOp(t, "joined", "reap")
  /\ UNCHANGED threads

Reap(t) ==
  /\ pc[t] = "reap"
  /\ LET u == Node(t).arg IN
       /\ status' = IF info[u].terminated THEN status ELSE "joined a live thread"
       /\ info' = [info EXCEPT ![u].allocated = ~info[u].terminated]
  /\ Goto(t, "idle")
  /\ UNCHANGED <<barrier, frags, registered, live, child, logs, place, clocks, sub>>

PthreadDetach(t) ==
  /\ pc[t] = "op" /\ Node(t).op = "detach"
  /\ LET u == Node(t).arg IN
     info' = IF info[u].allocated /\ info[u].joinable
             THEN [info EXCEPT ![u].joinable = FALSE, ![u].allocated = ~info[u].terminated]
             ELSE info
  /\ AdvanceHbNode(t)
  /\ Goto(t, "idle")
  /\ UNCHANGED <<status, barrier, frags, registered, live, child, logs, place, sub>>
-----------------------------------------------------------------------------
Step(t) ==
  \/ ChooseFragment(t) \/ UpdateCurrFragmentId(t) \/ WaitForNextFragment(t)
  \/ Arrive(t) \/ SelectRegion(t) \/ ReleaseRegionBarrier(t) \/ WaitAtRegionBarrier(t)
  \/ InitializeMyThreadSchedulePtr(t) \/ MyThreadStartRoutine(t) \/ MyThreadCommonInit(t)
  \/ AdvanceToNextFragmentIfComplete(t) \/ WaitForHbNode(t) \/ HbNodeMissing(t)
  \/ SleepThroughBarrier(t) \/ SyncOp(t)
  \/ AfterInput(t) \/ AfterMarker(t) \/ SkipRegionBarriersOrExit(t)
  \/ JoinAllLoop(t) \/ JoinAllYield(t) \/ RunOff(t)
  \/ PthreadCreate(t) \/ CountRunning(t) \/ CountTotal(t) \/ SpawnNode(t) \/ Spawn(t)
  \/ PthreadExit(t) \/ ExitTotal(t) \/ ExitNode(t) \/ MyThreadCommonTeardown(t)
  \/ PthreadJoin(t) \/ JoinedNode(t) \/ Reap(t) \/ PthreadDetach(t)

Next == status = "running" /\ \E t \in Thread : Step(t)

Spec == Init /\ [][Next]_vars

\* Every thread is scheduled by the operating system.
FairSpec == Spec /\ \A t \in Thread : WF_vars(status = "running" /\ Step(t))
-----------------------------------------------------------------------------
(* Properties.                                                               *)

Pc == {"none", "born", "start", "idle", "asleep", "must", "op", "read", "marked", "skipbar",
       "joinall", "joinbody", "joinwait", "yield", "created", "counted", "spawn", "spawned",
       "reap", "uncounted", "exiting", "teardown", "dead"}
Sub == {"none", "init", "choose", "publish", "fragwait", "arrive", "barrier", "select", "release"}
Outcome == {"running", "exited", "fragment id CAS failed", "barrier in exiting schedule",
            "no matching region", "no schedule in region", "started outside schedule",
            "no HB node", "no HB node in exiting schedule", "schedule not complete at exit",
            "joined a live thread"}
ThreadInfo == [allocated : BOOLEAN, joinable : BOOLEAN, terminated : BOOLEAN, hasjoiner : BOOLEAN]

\* Every variable holds a value the C++ variable it models can hold; in
\* particular no thread indexes CurrFragmentList outside its bounds.
TypeOK ==
  /\ status \in Outcome
  /\ ticker \in Nat /\ running \in Nat /\ total \in Nat /\ live \in Nat
  /\ fragList \in [FragIndex -> Fragment] /\ fragId \in FragIndex
  /\ registered \in SUBSET Thread
  /\ info \in [Thread -> ThreadInfo]
  /\ child \in [Thread -> Thread \cup {NoThread}]
  /\ readSnap \in BOOLEAN /\ snap \in [Thread -> Nat] /\ region \in Nat
  /\ pc \in [Thread -> Pc] /\ sub \in [Thread -> Sub]
  /\ frag \in [Thread -> FragIndex] /\ at \in [Thread -> Fragment]
  /\ ptr \in [Thread -> Nat] /\ cur \in [Thread -> Nat]
  /\ oldticker \in [Thread -> Nat] /\ depth \in [Thread -> Nat]
  /\ clock \in [Thread -> Nat] /\ done \in [Thread -> Nat]

(* Who takes part in a region.                                               *)

\* Threads the region barrier must wait for: started, and not past the point
\* of pthread_exit where they leave the count.
Outside == {"none", "uncounted", "exiting", "teardown", "dead"}
InRegion(t) == pc[t] \notin Outside
Stopped(t) == sub[t] = "barrier" /\ oldticker[t] = ticker
Releasing(t) == sub[t] \in {"select", "release"}

\* Threads that NumThreadsRunningInRegion, NumThreadsTotal and live_threads stand
\* for, and creators that have counted a thread which has not started yet.
Counted == {t \in Thread : InRegion(t) /\ ~Stopped(t) /\ ~Releasing(t)}
Enrolled == {t \in Thread : InRegion(t) \/ pc[t] = "uncounted"}
Present == {t \in Thread : InRegion(t)}
Creating(places) == {t \in Thread : child[t] # NoThread /\ pc[t] \notin places}

\* No counter ever falls short of the threads it counts, and the barrier is
\* completed, by one thread only, when nobody is left to wait for.
BarrierCount ==
  /\ running >= Cardinality(Counted) + Cardinality(Creating({"created"}))
  /\ total >= Cardinality(Enrolled) + Cardinality(Creating({"created", "counted"}))
  /\ live >= Cardinality(Present) + Cardinality(Creating({}))
  /\ \A t \in Thread : Releasing(t) =>
       /\ running = 0
       /\ \A u \in Thread \ {t} : ~Releasing(u)

\* A slot belongs to one thread: a running thread keeps its slot allocated, and
\* the slot pthread_create has found is nobody else's until the thread starts.
SlotsDistinct ==
  \A t \in Thread :
    /\ InRegion(t) => info[t].allocated /\ ~info[t].terminated
    /\ child[t] # NoThread =>
         /\ info[child[t]].allocated /\ ~info[child[t]].terminated
         /\ ~InRegion(child[t])
         /\ \A u \in Thread \ {t} : child[u] # child[t]

\* The region barrier is a barrier: RegionBarrier moves RegionTicker only when
\* every other thread of the region is waiting for this very tick, so no thread
\* runs on in a region another one has left.
RegionSync ==
  [][ticker' # ticker =>
       \E t \in Thread : /\ Releasing(t)
                        /\ \A u \in Thread \ {t} : InRegion(u) => Stopped(u)]_vars

\* WaitForHbNode "waits until all incoming HB edges have been satisfied": the
\* operation of a node runs only after the operations of its predecessors.
HBOrder ==
  \A t \in Thread : pc[t] = "op" =>
    \A e \in Node(t).in : done[e[1]] >= e[2]

\* A thread that follows a schedule follows a published fragment: the leader's
\* unsynchronized write of CurrFragmentList races with no reader.
FragmentsPublished ==
  \A t \in Thread :
    (InRegion(t) /\ pc[t] # "born" /\ sub[t] = "none") =>
       frag[t] <= fragId /\ at[t] = fragList[frag[t]]

\* A fragment that AdvanceToNextFragment has published stays what it is until
\* the region barrier selects the next region.
PublishedStable ==
  [][\A k \in FragIndex : (k <= fragId /\ fragList'[k] # fragList[k]) =>
       \E t \in Thread : sub[t] = "select"]_vars

\* A selector that runs in the middle of a region reads, for every thread that
\* was there when the region began, the values of the start of the region.
SnapshotFresh ==
  \A t \in Thread : (sub[t] = "choose" /\ ticker > 0) =>
    readSnap /\ \A u \in Regions[region] : snap[u] = ticker

\* pthread_create gives a thread the slot it had in the symbolic execution, the
\* one that the schedule and the HB edges name.
SlotAgreement ==
  \A t \in Thread : pc[t] = "created" => child[t] = Node(t).arg

\* No assertion of the runtime fails.
NoAssertFailure == status \in {"running", "exited"}

\* A program whose schedules end in program exit does exit: no thread waits
\* for ever on an HB edge, a fragment or a region barrier.
Termination == <>(status = "exited")
=============================================================================
