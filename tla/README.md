# Input-covering schedules: a TLA+ verification project

The repository (`src/`) is a research system for *input-covering schedules*: a
multithreaded program is explored symbolically, a finite set of schedules that
covers all inputs is computed, and the program is instrumented so that it may
only run under those schedules. This directory holds TLA+ specifications of
that system, the TLC runs that check them on small instances, and TLAPS proofs
of what holds for every instance.

## 1. Inventory

| part | source | state | operations |
|---|---|---|---|
| constrained-execution scheduler | `cloud9/runtime/ConstrainedExec/lib.cpp` 500-1770 | region ticker, barrier counts, fragment list, vector clock, thread slots and contexts, per-thread schedule pointer | region barrier, fragment advance, HB-node wait/advance, create/exit/join/detach/joinall, region marker, input |
| constrained-execution sync objects | `lib.cpp` 1770-2600 | mutexes, condvars, barriers, semaphores, uClibc locks (rwlocks are no-ops) | lock/unlock, wait/signal/broadcast, ... |
| symbolic POSIX threads and sync objects | `cloud9/runtime/POSIX/threads.c`, `threadsync.c`, `multiprocess.h` | `__tsync`, waiting lists | the pthread API as seen by the explorer |
| happens-before graph | `cloud9/lib/ICS/HBGraph.cpp` | nodes and edges per thread | addNode, addNodeForNewThread, ... |
| traces | `cloud9/include/ics/ForkableTrace.h`, `PrecondSliceTrace` | shared trace segments | push, fork, write, reverse, swap, iterate |
| schedule trees, instrumentation | `cloud9/lib/ICS/Instrumentor.cpp` | tree of fragments, tables | build, validate, encode |
| path manager, exploration strategy | `PathManager.cpp`, `SearchStrategy.cpp` | paths per region, states | add/cover paths, end a region |
| load balancer | `cloud9/lib/Cloud9/LB` | workers, statistics, transfer requests | register, update, balance, time out |
| worker | `cloud9/lib/Cloud9/Worker` | job tree, connection to the balancer | update, transfer, import/export |
| executor, KLEE libraries, uClibc, apps | not in the repository, or third-party | | not modelled |

How the parts interact. The explorer runs the program on the symbolic POSIX
layer, records a happens-before graph per path, and cuts the paths into
*regions*. The instrumentor turns the graphs of a region into a tree of
*schedule fragments*: an inner fragment ends at an input that decides how the
schedule goes on. It compiles the fragments, selector functions and region
contexts into the program as tables. The constrained-execution runtime
intercepts every synchronization operation and enforces the tables: the recorded
graph is all that orders the replayed program. The load
balancer and its workers distribute the exploration over machines.

Hard behaviours, by part: in the runtime, threads that arrive at a region
barrier while others create threads, exit or sleep; a fragment list that the
leader writes and followers read without a lock; clocks that are reset while
others spin on them. In the sync objects, state kept over a wait, and a replay
that takes another branch than the recording. In the
balancer, late workers, lost transfers and premature termination.
`PROJECT.json` lists them at their lines ("hazards").

## 2. Modules

| part | modules | proofs |
|---|---|---|
| constrained-execution scheduler | `ConstrainedExec` | `ConstrainedExec_inv`, `ConstrainedExec_proofs` |
| uClibc lock | `UclibcLock` | |
| runtime's sync objects | `SyncReplay`, on the recordings of `SyncRecording` | |
| happens-before graph | `HBGraph` (operators), used by `SyncRecording` | |
| symbolic POSIX layer | `PosixWait` (the executor's waiting lists), `PosixThreads`, `PosixSync` | `PosixThreads_proofs`, `PosixSync_proofs` |
| traces | `ForkableTrace`, abstract `ForkedSequences`, `ForkableTrace_refinement` | `ForkableTrace_proofs` |
| search | `PathManager`, composed with the strategy in `DepthFirstICS` | `DepthFirstICS_proofs` |
| schedule trees | `ScheduleTree`, composed with the search in `InputCovering` | |
| load balancer and workers | `JobBalancing` | `JobBalancing_proofs` |

Each `MC` module gives the constants of the modules above their values for TLC.

## 3. The models

### The scheduler: `ConstrainedExec`

A program runs region by region. In a region each thread follows its list of HB
nodes. A node is one synchronization operation or one input, with edges
`<<thread, timestamp>>` that the thread's clock must have reached first. The
lists are cut into fragments. A fragment that is not the last of its region
names a *leader*, which runs the selector function and publishes the choice in
`CurrFragmentList`; the others wait for it. At the end of a region the threads
meet at the region barrier; the last to arrive looks up the next region by the
threads' calling contexts and selects its first fragment.

**State.** Each variable names the C++ variable it stands for in the module.
The schedule tables (`Sched`, `Level`, `Selectors`, `Regions`) are constants,
because the instrumentor compiles them in. `pc` is the thread's place in an API
function, `sub` its place in `RegionBarrier`, `AdvanceToNextFragment` or
`InitializeMyThreadSchedulePtr`. `done` is a history variable: the nodes of a
thread whose operations have taken effect.

**Actions.** One per atomic step of the code. A call is split where another
thread could see the difference: `pthread_create` takes the slot inside its HB
node, then raises the two counts one by one, then waits for the node of
`klee_thread_create`; `pthread_exit` lowers the counts, ends its node and clears
its context in separate steps. A node's operation is entered by `WaitForHbNode`
and left by `AdvanceHbNode`.

**Abstractions.**
- `LogicalThreadMap` is taken as the identity, and calling contexts are
  abstracted to the set of threads that have one. A row of
  `__ics_regionctx_table` is the set of threads it names.
- A node's edges are checked as one conjunction. The code checks them one
  after the other; clocks only grow inside a region, so the two agree.
- `ReleaseRegionBarrier`'s writes are one step. The other threads of the region
  are waiting for the last of them, `RegionTicker`.
- `pthread_joinall` without an HB node is not modelled.
- A slot is started again only after its last thread has gone. The runtime does
  not support reuse inside the region of the exit (the TODO in
  `MyThreadStartRoutine`).

### Traces: `ForkableTrace` and `ForkedSequences`

Each execution state keeps its happens-before graph, precondition slice and
harness objects in a `ForkableTrace`: a list of reference-counted nodes, each a
vector of elements. `data`, `nodes` and `size` are `Node::data`, `_nodes` and
`_size`; a trace without nodes does not exist. There is one action per
operation: `Clear` (also the constructor), `Fork` (the copy constructor),
`Destroy`, `PushBack`, `Swap`, `ReverseTrace`, and the two ways to change an
element, `Write` (`getMutableElementPtr`, which tests `refCount`) and
`WriteBack` (`back()`, which does not). `refCount == 1` is `OnlyRef`. Access by
index and the iterators are operators on positions `<<node, element>>`.

`WriteBack` assumes that its callers in `PrecondSliceTrace` write only to an
entry pushed since the last fork (`BackIsOwn`). The executor decides when states
fork and is not in the repository, so the assumption is not checked here. Without it
`SharedFrozen` and `BehavesAsSequences` fail.

`Locate` says where the loop of `getElementAt` stops: at the first node that
reaches beyond `idx`. `FlattenSeq` and `Reverse` are defined in the module
rather than taken from a library, since the proofs are about what they compute.

`ForkedSequences` is the abstract specification: one plain sequence per trace.
`ForkableTrace_refinement` has the mapping: a trace is the sequence of its
elements, and what an operation may return is compared with it.

### The uClibc lock: `UclibcLock`

One mutex, used by threads that lock, try and unlock in any order. Each access
to a shared field is a step, except that an increment or a decrement of
`queued` is one. `depth` counts the lock calls that returned 0 less the unlock
calls.

### The symbolic POSIX layer: `PosixWait`, `PosixThreads`, `PosixSync`

The explorer runs the program on its own pthreads (`threads.c`, `threadsync.c`).
They are scheduled cooperatively. A call runs alone up to a
`klee_thread_sleep`, so an action is one such stretch: the call up to its sleep
or its return, and a second action for what follows the sleep. `PosixWait`
holds the two executor functions that are used, `asleep` and `resume`: who sleeps
on which list, and who has been notified but has not gone on yet. The executor
is not in the repository. Which of several sleepers a notification wakes is left open.

`PosixThreads` has the table `__tsync.threads` and one action per call of
create, exit, join, joinall and detach. Slots are reused. `gen` numbers the
threads, so a property can tell the thread a joiner asked for from a later one
in the same slot.

`PosixSync` has mutexes, a condition variable, a barrier, a read-write lock and
a semaphore, with their counters. `lockset` is what the code tells the executor through
`klee_lockset_add` and `_remove`. Nothing is assumed of the executor: any thread
may call between a notification and the moment the notified thread goes on, as
the comment at `threadsync.c:64` describes, and the code does not look at the
object again after its sleep. `overtaken` is a history variable that marks the
moments where this does harm: a caller takes a mutex, a lock or a unit while a
thread that was notified of it has yet to go on, or an unlock of the read-write
lock notifies a writer while notified readers have yet to go on. It also marks
the semaphore when a post wraps its unsigned count. The properties say that
nothing else breaks exclusion, loses a unit or, for the semaphore, a wake-up;
mutexes, read-write locks and barriers lose no wake-up at all.

### Recording and replay: `HBGraph`, `SyncRecording`, `SyncReplay`

These compose both ends of the system. `SyncRecording` runs the calls of
`PosixSync` from a script per thread and adds the happens-before node each of
them makes: `addNodeForThread`, `addEdge`, the source and sink edges of
conditions and barriers (`HBGraph`), and the `last_hbnode` that a mutex or the
semaphore remembers. Its actions conjoin the action of `PosixSync` with the
change of the graph. When no thread can go on, the recording ends and
`SyncReplay` runs the same script under the runtime: its own mutexes,
conditions, barriers, semaphores and `pthread_once`, each access to a shared
field a step, ordered only by the recorded nodes (`WaitForHbNode`,
`AdvanceHbNode`). `rheld` and `result` are histories; `notes` records what a
recording has met, so that properties can say for which recordings they hold.

The node that a thread has after it was woken on a mutex or a semaphore is made
by the executor; it is taken to have every edge it can have (`WokenNode`). The
order in which timed-out and woken waiters take slots (`TakeNextWaitSlot`) and
the cut of a schedule into fragments and regions are not in `SyncReplay`;
fragments and regions are in `ConstrainedExec`.

### The search and the trees: `PathManager`, `DepthFirstICS`, `ScheduleTree`, `InputCovering`

`PathManager` is `processSlice`: one step per iteration of its loops, with the
frontier, the explored schedules and the two caches of canonical path
constraints. A condition is modelled by what it says: the set of its disjuncts,
each the set of inputs that satisfy it. A slice also has assertions, which are not
flipped: the solver sees them (`kstateConstraints`), so a branch they imply is
dropped, but they are no part of the recorded constraint. The `kept` ones
(assumptions, bounds checks, converted branches) travel with a flip as extra
invariants; `given` are those under which the current path was started. Which of
them `getDependentConstraintsSet` selects is left open: any subset. The `dropped`
ones (pointer aliasing, and concretization under an option) do not travel. The solver
is taken to answer every query. `DepthFirstICS` drives it: it runs one
path of the current region under the next path constraint, discards the other
states, meets new regions, numbers them, and goes on to the next region.

Symbolic execution and the precondition slicer are constants: `PathOf` says
which path an input follows, `Slice` which branches the slicer keeps of it,
`Target` where it ends and `Fails` whether it is discarded. `AgreeingRegions`
are the regions whose slices have what the search relies on:
- an input that satisfies a slice up to some branch meets the same assertions on
  the way and has that branch in its own slice too, on the same side or on one
  that the flips name (`AgreesWith`);
- the kept assertions of a path decide no branch that comes before them
  (`KeptDecideNothing`): carried to another path they come first, and would make
  the branch redundant there.

`ScheduleTree` is the part of the instrumentor that cuts schedules into
fragments at inputs (`Pieces`), merges them (`AddEdges`) and compiles selectors
(`Select`). `InputCovering` builds a tree of each region from the schedules of
the finished search and states what the selectors choose.

### Load balancer and workers: `JobBalancing`

A job is a path of the execution tree. A worker has three threads that share
its jobs under `jobsMutex`: the execution loop, the thread that reports to the
balancer and obeys its answers, and the server for transfers from other
workers. The load balancer is an event loop, so a handler is one action. The
execution loop is split where it gives up the mutex, and between its look at
the queue and its wait, because `requestTermination` does not take the mutex.
Faults are a worker that dies, which closes its connections and takes its jobs and the
transfers on their way to it, and a report that comes later than
`WorkerTimeOut`. `MaxFaults` bounds them.

`analyzeBalance` moves two pointers inwards over the workers sorted by load and
passes over those with a pending transfer. `FreeByLoad` and `Matching` say what
that loop makes: the i-th of the free workers is paired with the i-th from the
end, as long as all up to it are below a tenth of the average. The two were compared
with a transcription of the loop for every load, pending set and order of four workers.

## 4. Runs

`MCConstrainedExec` holds two programs (schedule tables) and each `exec` cfg
picks one. `MCInputCovering` holds the regions of several small programs, as
tables of paths; each cfg picks the region the program starts in.

| run | instance | shows |
|---|---|---|
| `exec_main` | 3 threads, 3 levels of fragments, 3938 states | no assertion fails, the happens-before order is kept, slots are those of the schedule, published fragments stay stable, selectors read fresh snapshots, the program exits |
| `exec_corner` | 3 threads, 3 levels, 1727 states | the counts, slot ownership, publication and region separation hold even in the programs on which the runtime's assertions fail |
| `exec_v_order` | the corner program | a thread overtakes the operation it waits for |
| `trace` | 2 traces of up to 3 elements, 58084 states | a tail has one owner, a shared node never changes, index access and iteration both ways agree, traces behave as plain sequences (`ForkedSequences`) |
| `lock_calls` | 2 threads, 2 lock calls each, 9684 states | every call returns |
| `lock_v_exclusive` | the same | two threads hold the lock at once |
| `posix` | 4 threads, 2 mutexes, 4 creations, nine replayed programs, 512685 states | no wake-up is lost, locks exclude and a semaphore has a unit for whoever it woke until a call overtakes a notified thread, symbolic starts admit the real state, a joiner gets the thread it asked for, joinall ends; the runtime takes the branches that were recorded, keeps exclusion, and stops only at the end of the recording |
| `replay_v_lock` | the replayed programs | two threads hold a mutex at once |
| `search` | 16 inputs, 32658 states | completed regions are covered, recorded constraints admit the inputs of their slices, no region comes twice, selected schedules fit the input and are unique, selectors read inputs that are defined, the search ends |
| `search_v_covered` | a region whose slices do not agree | one input has no schedule |
| `tree_v_select` | a region with a partial edge | a selector panics on a covered input |
| `balancer` | 2 workers, a program with one fork, 1 fault, 252334 states | no job is explored twice, none is dropped without a fault, the exploration is declared over only as late as the reports allow, transfers stay paired, the balancer survives until then, no thread sleeps on work, all workers end |

The `exec_main` program avoids what the corner program exercises, so its
properties hold. These are properties of the schedule tables: the instrumentor
may produce those of the corner program, but that the benchmark programs lead to such
tables is not claimed. Each finding in `PROJECT.json` quotes the line it contradicts.

More disagreements between the code and its comments or assertions have no
run of their own. The first four show when the named property is checked on the
corner program instead of the main one:

- `Termination`: a thread that exits as the last running one brings the
  barrier's count to 0 and releases nobody (`lib.cpp:1638`).
- `SnapshotFresh`: the snapshot is taken of threads `0 .. NumThreadsTotal-1`
  (`lib.cpp:654`), but ids have gaps after an exit.
- `NoAssertFailure`: `IsScheduleComplete` at `lib.cpp:1642` for a thread that
  exits in a fragment that is not the region's last; `GetNextRegionId` finds
  no region (`lib.cpp:637`) when a thread has left the count but not cleared its
  context.
- `NoAssertFailure` again: `assert(ok)` of `WaitForHbNodeMustExist`
  (`lib.cpp:903`) for a sleeper at the end of a fragment, and the `assert(0)` of
  `InitializeMyThreadSchedulePtr` (`lib.cpp:572`) for a thread that sleeps
  through a region of one fragment.
- After a fault `BalancerSurvives` without its `faults = 0` fails in two ways: a worker that
  was timed out and then closes its connection is deregistered twice
  (`LoadBalancer.cpp:132`), and a transfer to a deregistered worker looks it up
  in vain. The second also happens without a fault, among three workers and after
  the exploration was declared done: jobs that arrive late make `analyzeBalance`
  ask for a transfer to a worker that was told to stop and has left
  (`WorkerConnection.cpp:173`). `BalancerSurvives` therefore promises the whole
  only until done.
- From reading only: `barrier_init_symbolic` (`threadsync.c:441`) has the two bounds
  of the comment above it exchanged; inputs read by two threads before one
  condition lead to a selector that is placed too early (`Instrumentor.cpp:1299`).

The cause of `search_v_covered`: for `if (a) x = 1; if (b && x) lock();` the
slice of an input with `~b` lacks the branch on `a`. The search counts the
prefix `{~a}` as explored after running it with `~b`, so nothing leads to
`(~a, b)`. The other properties of the search are therefore stated for
agreeing regions.

A second way to lose an input has no run of its own: with `Initial =
"entry_carried"` in the same cfg `InputsCovered` fails too. There a bounds check
behind the branch on `a` implies `a`. Carried to the path that is started under
`{a, ~c}` it makes the branch on `a` redundant: the path is recorded as `[~c, ~x]`
and its flip is `{~c, x}`, without `a`. That flip may be run with `~a`, and then
`(a, b, ~c, x)` has no schedule. The region is not an agreeing one.

The cause of `tree_v_select`: an inner fragment is added with its newest
condition first, so `addEdge` does not find the prefix it shares with a
fragment in program order. The selector then enters a partial edge that the
input matches but whose children it does not, and failure below a partial edge
is final. `OneFragmentSelects` holds: the case needs an input read on the way.

The cause of `replay_v_lock`: `dolock` ends its node before it writes `taken`
and `owner`. A recorded attempt that found the mutex taken waits for that node
only, so in the replay it may read `taken = 0`, skip the sleep and go on. The
replay properties are therefore about recordings in which no attempt found a mutex
or a semaphore taken (`Orderly`), except that `pthread_once` runs its routine once
after every recording.

The cause of `lock_v_exclusive`: `__sync_lock_test_and_set` returns the old
value, and `spinlock_lock` takes a non-zero result for success. So a taken lock
is acquired at once, and a free one is treated as held by another. For the same
reason the owner's second lock sets `queued` to 1 again, and a trylock of a
free lock can report `EBUSY`.

**Bounds.** `MaxThreads` stands for `KLEE_MAX_THREADS` (16) and `MaxFragments` for the
32 entries of `CurrFragmentList`. Two threads
show every race between two roles (leader and follower, last and earlier
arrival); the third gives a bystander, a gap in the thread ids after an exit,
and two creators. Three levels of fragments give a fragment that is neither the
first nor the last. The tables are finite and acyclic, so no further bound on
the ticker or the clocks is needed.

For traces, three elements give two shared nodes and a tail with any split; that
sharing among more than two traces is safe is proved. `MCNodeId` is
large enough that an allocation never fails. Traces and elements are
symmetric. For the lock, two threads show each race, two
calls the recursion, and `CountMod` stands for 2^32.

For the POSIX layer, four threads give a sleeper, a notified thread, a caller
that slips in between, and a bystander; two mutexes are enough for a wait with the
wrong one. Four creations on four slots reuse slots. `UIntSize` stands for 2^32;
posts are not bounded, so the count wraps. A behaviour uses one family of objects, since
objects share nothing but the sleeping threads. Threads and mutexes are symmetric.
The nine programs cover nested and contended locks, `trylock`, one and several
waiters, signals with and without the mutex, failing calls, two rounds of a
barrier, a barrier with too many threads, semaphores and `pthread_once`, each
recorded under every schedule and replayed under every interleaving.

The program of `search` has a region with redundant branches and a failing
path, assertions that imply a branch or nothing, one with a switch of shared targets and an input read by another thread,
one with two inputs read before the branches on them, and paths back to known
regions. Four Boolean variables give 16 inputs.

For the balancer, two workers give every pair of roles (sender and receiver,
registered and timed out). A program with one fork gives two jobs, enough to
export one while the other runs. One fault shows each fault's consequences
alone; with `BalanceRate` 2 a round without balancing happens. Transfers of 0 jobs and chains of
transfers need more workers and are out of this instance; the theorems hold for
any number, and leave only `Terminates` to it.

**Fairness.** `FairSpec` has weak fairness of each thread's next step: the
operating system schedules every thread, and the code's waits are spins that read
the shared state again (the futex branch of `WaitForHbNode` is disabled). Deadlock is not checked because the process ends
(`exit`, or an assertion); `Termination` covers the rest. In `UclibcLock` a thread keeps running inside a
call; whether it makes another one is its program's choice, so there is no
fairness on starting calls and the system may stop.

The search is one thread that runs until it is done: weak fairness of `Next`.
In `JobBalancing` each thread and the event loop have weak fairness, and what
needs `jobsMutex` or races with other messages of the same thread has strong fairness:
`pthread`'s mutex does not promise it, but the execution loop gives the mutex
up at every instruction and the other threads ask for it rarely. Timeouts and
deaths have none. `Terminates` is about behaviours without faults. Workers
that never register may stay away, as nobody waits for them, but
`registerWorker` is fair, so the case of a worker that stays alone and is never
told to stop (`LoadBalancer.cpp:342`) is not in it. The POSIX layer has no
liveness property: the program under test need not unlock what it locks, and
the executor explores schedules rather than promising a fair one.

## 5. Proofs

`ConstrainedExec_inv` and `ConstrainedExec_proofs`
prove, for every number of threads and fragments and all tables that satisfy
`ConstantsAssumption` and `TableAssumption`:

| theorem | states |
|---|---|
| `TypeCorrect` | `Spec => []TypeOK` |
| `BarrierCounting` | `Spec => []BarrierCount` |
| `SlotOwnership` | `Spec => []SlotsDistinct` |
| `RegionSeparation` | `Spec => RegionSync` |

The inductive invariant is `IInv == TypeOK /\ BarrierCount /\ SlotsDistinct /\
PlaceInv /\ LevelInv`. None of its parts is inductive alone:
- the counts need slot ownership (a new thread must not already be counted) and
  `PlaceInv`, which relates `pc`, `sub` and `child`;
- types need `LevelInv`: a thread's fragment index is the level of the fragment
  it follows, and the tables bound the level;
- `LevelInv` needs the counts: `fragId` falls back to 0 only in
  `SelectRegion`, when nobody is counted as running.

`RegionSeparation` then follows: the ticker moves only in
`ReleaseRegionBarrier`, where `running = 0`, so every other thread of the
region is stopped at this tick.

`ForkableTrace_proofs` proves, for any set of traces, nodes and elements:

| theorem | states |
|---|---|
| `TailsArePrivate` | `Spec => []TailPrivate` |
| `SharedNodesFrozen` | `Spec => SharedFrozen` |
| `TracesAreSequences` | `Spec => BehavesAsSequences` |
| `ReadsAgree` | `Spec => []AccessesAgree` |

They use `TraceAssumption`: the bound is a number, and the value that stands for
"no trace" is not a sequence of elements.

The inductive invariant of the first two is `Sharing == TypeOK /\ TailPrivate`. A fork pushes an
empty node if needed and gives the copy a tail of its own, so both tails are
private. Every other list of the new state is an old one or a single fresh node.
From this a shared node is neither a tail nor fresh, and it is not the target of
a write: `Write` has tested `OnlyRef`, and `WriteBack` is in the tail.

`TracesAreSequences` is the refinement of `ForkedSequences`. The mapping gives a
trace the elements of its nodes, one node after the other (`Views`). The proof
shows for each action what becomes of every trace's view: a step on one trace
leaves the views of the others alone because the node it writes is in no other
list, and changes its own as the abstract step says. It needs `Counted`, which is
inductive next to `Sharing`: an address not in use is empty, and `_size` is the
number of elements. `Counted` is also what `reverse` asserts at its end.

What `FlattenSeq` and `Reverse` compute is proved for lists of any length (a
part changed, a list cut in two, a list reversed). Each of these is an induction
over the list: the provers cannot instantiate the library's induction rules, so
the proofs take the least length at which the claim fails and contradict it.

`ReadsAgree` rests on the same lemmas. An index is in exactly one node
(`Layout`, `LocateAt`); `Increment` and `Decrement` lead from the position of
`i` to that of `i + 1` and back, over any number of empty nodes; so the iterator
is at the position of `i` after `i` steps, and at `End` after `_size` steps.

`TableAssumption` is what the instrumentor gives the runtime: selectors return
fragments of the right level and trees are no deeper than `CurrFragmentList`.
TLC evaluates it on each table.

`PosixThreads_proofs` and `PosixSync_proofs` prove, for any finite set of
threads, any mutexes and any bounds:

| theorem | states |
|---|---|
| `JoinsServed` | `ThreadsSpec => [](JoinServed /\ SlotOwned)` |
| `JoinAllsServed` | `ThreadsSpec => [](JoinAllServed /\ LiveCounted)` |
| `MutexSafe` | `SyncSpec => [](OwnerHolds /\ MutexServed /\ MutexExclusive)` |
| `WakeupsKept` | `SyncSpec => []NoLostWakeup` |
| `RwSafe` | `SyncSpec => []RwExclusive` |
| `SemSafe` | `SyncSpec => []SemUnitsKept` |
| `CountersExact` | `SyncSpec => [](QueuesCounted /\ CondMutexAgrees)` |
| `SymbolicStarts` | `SyncSpec => []SymbolicStartAdmits` |

For threads the inductive invariant adds to the properties that the slots in
use are those of live threads (`SlotsLive`), that one thread at most waits for
a slot and has marked it (`OneJoiner`), and that nobody is both asleep and
notified (`OffList`). For mutexes (`MutexInv`) it adds the count of sleepers,
that a condition's waiters have a mutex to go back to, and `MutexGiven`: until it is
overtaken, a mutex that has notified somebody is free, and notified one thread only. The proofs
use `FiniteSetTheorems` for the counts.

`ObjectsInv` adds the other objects to `MutexInv`, each with its own part:
- `CondInv`: the condition counts its sleepers, and has recorded their mutex;
- `BarrierInv`: who is missing and who sleeps make up the initial count;
- `SemInv`: until the semaphore is overtaken a unit is there for each notified
  thread, and no more than that where threads sleep;
- `RwInv`: the counts, who waits does not hold the lock (`RwAway`), and until the
  lock is overtaken the fields say who holds it, and a notified writer finds it
  free and is the only thread notified.

The objects share the sleeping threads, so each call is also shown to leave the
lists of all other objects as they are (`ListStep`, `Kept`). In the run a behaviour uses one
family of objects; the theorems are about all of them side by side.

`DepthFirstICS_proofs` proves, for any inputs, programs and slices that satisfy
`SliceAssumption` and `ProgramAssumption`:

| theorem | states |
|---|---|
| `SearchCovers` | `Spec => [](InputsPending /\ RegionCovered)` |
| `SchedulesRecorded` | `Spec => [](SchedulesExact /\ NoPathTwice)` |
| `RegionsExploredOnce` | `Spec => [](RegionsOnce /\ IdsDense /\ FreshRegion)` |

The argument for coverage. `PendingInv` says that every good input is covered,
waits under an unexplored constraint on the frontier, or belongs to the path
being processed: it satisfies the slice so far, from the branch whose flip is
being run. A branch hands the inputs on its other sides to the frontier. A
flip that was already seen is harmless, because no input in progress needs it
(`FlipFresh`): whoever added it would share the branch this path was flipped at,
and then the flip would have been erased from the frontier before it ran
(`CacheInv`, `FrontierInv`, `BaseInv`). Carried invariants do not change which
branches are redundant (`RedundantIff`): `OriginInv` says that those of a flip
were kept by an explored path that agrees with this one up to the flip, `SeenInv`
that no flip of such a path is forgotten, and then `KeptDecideNothing` applies.
The end of the slice makes the inputs in
progress covered. Several of these steps compare two slices branch by branch. They take the first
branch where something fails, through a lemma that a nonempty set of naturals
has a least element, proved from `WellFoundedInduction`; induction rules with an
operator parameter are out of the installed provers' reach. `SchedulesExact` rests on one of them (`CanonMeaning`): among the inputs that
satisfy the assertions, the recorded conditions mean what all conditions mean.
For an input that violates an assertion of the path it says nothing, unless the
input's own path does not fail: such an input may satisfy the recorded constraint
and not the slice.
The invariant is `Inv == SearchTyped /\ RegionInv /\ RegionsOnce /\ IdsDense /\
RegionCovered /\ (SlicesAgree(current) => SearchInv)`.

`JobBalancing_proofs` proves, for any number of workers and any program:

| theorem | states |
|---|---|
| `LockDiscipline` | `Spec => [](SleepsOnlyIdle /\ CurrentJobStays)` |
| `DoneLate` | `Spec => DoneOverlooksOnlyArrivals` |
| `TransfersStayPaired` | `Spec => []TransfersPaired` |
| `BalancerKeepsRunning` | `Spec => []BalancerSurvives` |
| `JobsNeverTwice` | `Spec => []NoJobTwice` |
| `JobsNeverLost` | `Spec => []JobsKept` |

`BalancingConstants` asks of the program that its tree is finite and its paths are
sequences of branch outcomes, and of `None` that it is no job, number or answer.

`DoneInv` adds `ReportedIdle`: a registered worker whose last count is 0 and
that has imported nothing since it counted holds no jobs, or a report of them
is on its way.

`BalancerInv == DoneInv /\ PairInv /\ TalkInv /\ SoundInv` is what the next two
rest on:
- `PairInv`: a request is pending with its own two workers only, and only with
  registered ones. A worker registers once, so a request never names a worker
  that came back;
- `TalkInv`: a report and its answer are never both on their way;
- `SoundInv`: without a fault every open connection is that of a registered worker,
  and until done nobody has been told to stop, so nobody has left.

For the jobs, `JobsInv` looks at the places where a job may lie: in a worker's
tree, in a transfer on its way, as the seed of an answer, among the finished. As
long as the root was seeded once, jobs at different places do not overlap
(`Apart`); without a fault and until done, every path of the program begins with
a job at some place (`Covered`). An action moves nothing, drops jobs (only after a
fault or after done), moves jobs from one place to another (export, import, the
seed, the end of a path), or replaces a job by its two children. A move keeps both
facts for any set of jobs, which is why the number a transfer asks for does not
matter. A replacement keeps them because two children have no path in common and
together have all the paths of their parent.

**Only model-checked**, and why:
- `HBOrder`, `SnapshotFresh`, `SlotAgreement`, `NoAssertFailure`: they hold for
  some tables and fail for others, as section 4 says. The runs check them for the tables of
  the main program.
- `FragmentsPublished`, `PublishedStable`: not for arbitrary tables either. A
  thread that exits and a thread created in its slot in the same region share an entry, which the
  runtime does not support.
- `ReplaySame`, `ReplayExclusive`: they are about recordings without contention.
  An invariant would have to relate each moment of the replay to the moment of the
  recording that made the same node; this is not done.
- `ReplayEnds`: uses `ENABLED`, which is outside the proof system's reach.
- `SelectedCovers`, `OneFragmentSelects`, `InputsDefined`: schedule trees are
  recursive data, and their operators are recursive.
- `Termination`, `CallsReturn` and both `Terminates`: liveness under fairness is
  outside the proof system's reach.

## 6. Not modelled

`PROJECT.json` lists every part with its status.

- Out of scope for good: the executor (not in the repository), the KLEE
  libraries, uClibc, STP, the benchmark programs, strategies that only order
  states, and output.
- Runtime: the synchronization objects over several fragments or regions
  (`SyncReplay` has one; in `ConstrainedExec` their operations are nodes without a state
  of their own), timed waits, the slots of waiters (`TakeNextWaitSlot`), calling
  contexts, the contents of the logs.
- POSIX layer: thread attributes, timed waits, destruction of objects, and the
  symbolic start of barriers, read-write locks and semaphores. A program that
  detaches a thread somebody joins is left out: `pthread_detach`
  (`threads.c:216-242`) does not look for a joiner, and `pthread_exit` of the detached
  thread would not notify it.
- Happens-before graph: groups of nodes, input nodes, and the comparison of a
  replayed graph with the recorded one.
- Search: limits on paths, regions and depth (off by default), loop upgrades
  (dead code), alternative context switches (`attachOtherCtxSwitches` has no
  caller), the simplifications of the canonical form, the replay of happens-before
  graphs, and solver queries that fail or time out. After such a query
  (`PathManager.cpp:651`) the branch is kept and flipped, so constraints would get
  longer than they need to be.
- Trees: the expressions' evaluators, stack-variable snapshots, and the 16-bit
  encoding of the tables. The loop of `addEdge` reads past the end of terms
  that are a strict prefix (`Instrumentor.cpp:1108`); the model takes that as a mismatch.
- Balancer: the `MaxTime` deadline, termination by Ctrl-C, coverage updates, the
  balancing timeout, the check of program parameters, the replay of jobs and with it
  the jobs that an import or the execution loop drops because they cannot be
  replayed (`JobManager.cpp:794`, `cleanInvalidJobs`).
