---------------------------- MODULE PosixThreads ----------------------------
(***************************************************************************)
(* The threads of the symbolic POSIX layer (cloud9/runtime/POSIX/threads.c):  *)
(* the table __tsync.threads, which names a thread by its slot, and the calls *)
(* that create, end, join and detach threads.  An action is the stretch of a *)
(* call up to the point where another thread may run; calls that return an   *)
(* error change nothing and have no action.                                *)
(*                                                                         *)
(* Which free slot a new thread gets (the code takes the lowest) is left      *)
(* open.  What is assumed of the program: it does not both join and detach a *)
(* thread, and one thread at a time calls pthread_joinall, as the comment at *)
(* threads.c:207 asks for.                                                 *)
(***************************************************************************)
EXTENDS PosixWait

CONSTANT MaxCreate   \* bound on the threads created

ASSUME ThreadsConstants ==
  MaxCreate \in Nat /\ IsFiniteSet(Thread) /\ None \notin Thread

VARIABLES
  slot,          \* the flags that are set in __tsync.threads[t].data
  live_threads,
  live,          \* the executor's threads, from klee_thread_create on
  gen,           \* history: the number of the thread that a slot stands for
  created,       \* how many threads have been created
  joining        \* history: the number of the thread a joiner waits for

threadvars == <<slot, live_threads, live, gen, created, joining>>

Join(t) == <<"join", t>>
JoinAll == <<"joinall", None>>

\* STATIC_LIST_CLEAR
Cleared == {}

\* klee_init_threads, klee_init_default_thread
ThreadsInit ==
  \E main \in Thread :
    /\ slot = [t \in Thread |-> IF t = main
                 THEN {"allocated", "joinable"}
                 ELSE Cleared]
    /\ live_threads = 1
    /\ live = {main}
    /\ gen = [t \in Thread |-> 0]
    /\ created = 0
    /\ joining = [t \in Thread |-> 0]

InProgram(t) == t \in live /\ Runs(t)

pthread_create(t, new) ==
  /\ InProgram(t) /\ created < MaxCreate
  /\ "allocated" \notin slot[new]
  /\ slot' = [slot EXCEPT ![new] = {"allocated", "joinable"}]
  /\ live_threads' = live_threads + 1
  /\ live' = live \cup {new}
  /\ created' = created + 1
  /\ gen' = [gen EXCEPT ![new] = created + 1]
  /\ UNCHANGED <<joining, waiting>>

\* Mutant: a detached thread notifies nobody.
ExitNotifiesJoinable(t) ==
  IF "joinable" \in slot[t] THEN Sleepers(Join(t)) \cup Sleepers(JoinAll) ELSE {}

\* The two notifications of pthread_exit: the joiner's, unless the thread is
\* detached, and that of pthread_joinall.
ExitNotifies(t) ==
  (IF "joinable" \in slot[t] THEN Sleepers(Join(t)) ELSE {}) \cup Sleepers(JoinAll)

pthread_exit(t) ==
  /\ InProgram(t)
  /\ slot' = [slot EXCEPT ![t] =
                IF "joinable" \in @ THEN @ \cup {"terminated"} ELSE Cleared]
  /\ live_threads' = live_threads - 1
  /\ live' = live \ {t}
  /\ Notify(ExitNotifies(t))
  /\ UNCHANGED <<gen, created, joining>>

\* Mutant: hasjoiner is not looked at.
JoinTwice(t, u) ==
  /\ InProgram(t) /\ t # u
  /\ "allocated" \in slot[u] /\ "joinable" \in slot[u]
  /\ "terminated" \notin slot[u]
  /\ joining' = [joining EXCEPT ![t] = gen[u]]
  /\ Sleep(t, Join(u))
  /\ UNCHANGED <<slot, live_threads, live, gen, created>>

\* pthread_join up to its sleep, or to its return if the thread has ended.
pthread_join(t, u) ==
  /\ InProgram(t) /\ t # u
  /\ "allocated" \in slot[u] /\ "joinable" \in slot[u] /\ "hasjoiner" \notin slot[u]
  /\ \/ /\ "terminated" \notin slot[u]
        /\ slot' = [slot EXCEPT ![u] = @ \cup {"hasjoiner"}]
        /\ joining' = [joining EXCEPT ![t] = gen[u]]
        /\ Sleep(t, Join(u))
     \/ /\ "terminated" \in slot[u]
        /\ slot' = [slot EXCEPT ![u] = Cleared]
        /\ UNCHANGED <<joining, waiting>>
  /\ UNCHANGED <<live_threads, live, gen, created>>

\* The rest of pthread_join: the result is read, the slot is given back.
JoinWoken(t, u) ==
  /\ resume[t] = Join(u)
  /\ slot' = [slot EXCEPT ![u] = Cleared]
  /\ joining' = [joining EXCEPT ![t] = 0]
  /\ GoOn(t)
  /\ UNCHANGED <<live_threads, live, gen, created>>

pthread_joinall(t) ==
  /\ InProgram(t) /\ live_threads > 1
  /\ Sleepers(JoinAll) \cup Notified(JoinAll) = {}
  /\ Sleep(t, JoinAll)
  /\ UNCHANGED threadvars

\* The loop of pthread_joinall looks at live_threads again.
JoinAllWoken(t) ==
  /\ resume[t] = JoinAll
  /\ IF live_threads > 1 THEN Sleep(t, JoinAll) ELSE GoOn(t)
  /\ UNCHANGED threadvars

pthread_detach(t, u) ==
  /\ InProgram(t)
  /\ "allocated" \in slot[u] /\ "joinable" \in slot[u] /\ "hasjoiner" \notin slot[u]
  /\ slot' = [slot EXCEPT ![u] =
                IF "terminated" \in @ THEN Cleared ELSE @ \ {"joinable"}]
  /\ UNCHANGED <<live_threads, live, gen, created, joining, waiting>>

ThreadsNext ==
  \E t \in Thread :
    \/ pthread_exit(t) \/ pthread_joinall(t) \/ JoinAllWoken(t)
    \/ \E u \in Thread : \/ pthread_create(t, u) \/ pthread_join(t, u)
                         \/ JoinWoken(t, u) \/ pthread_detach(t, u)

ThreadsSpec ==
  /\ ThreadsInit /\ asleep = [t \in Thread |-> Awake]
                 /\ resume = [t \in Thread |-> Awake]
  /\ [][ThreadsNext]_<<threadvars, waiting>>
-----------------------------------------------------------------------------
(* Properties *)

\* live_threads counts the threads that have not ended, also the detached
\* ones, so pthread_joinall waits for exactly those.
LiveCounted == live_threads = Cardinality(live)

\* The slot of a running thread is its own: no join or detach of an earlier
\* thread with that slot has given it back.
SlotOwned ==
  \A t \in live : "allocated" \in slot[t] /\ "terminated" \notin slot[t]

\* Who sleeps in pthread_join waits for a thread that still runs and will
\* notify it, and who has been notified finds in the slot the thread it asked
\* for, ended: no other thread has been created there, and nobody else has
\* taken the result.
JoinServed ==
  \A t, u \in Thread :
    /\ asleep[t] = Join(u) => u \in live /\ "joinable" \in slot[u]
    /\ resume[t] = Join(u) => "allocated" \in slot[u] /\ "terminated" \in slot[u]
    /\ asleep[t] = Join(u) \/ resume[t] = Join(u) => gen[u] = joining[t]

\* pthread_joinall does not sleep on when its caller is the last thread.
JoinAllServed == Sleepers(JoinAll) # {} => live_threads > 1
=============================================================================
