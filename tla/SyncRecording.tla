---------------------------- MODULE SyncRecording ----------------------------
(***************************************************************************)
(* What a symbolic execution records of the synchronisation calls of a       *)
(* program: the calls of PosixSync with the happens-before nodes they make    *)
(* (cloud9/runtime/POSIX/threadsync.c, threads.c).  Every thread runs a      *)
(* script, a sequence of calls; the executor may change threads between two   *)
(* calls and where a call sleeps.                                           *)
(*                                                                         *)
(* Read-write locks are left out: the runtime has no implementation of them   *)
(* ("need to reimplement").                                                *)
(***************************************************************************)
EXTENDS PosixSync, Sequences

VARIABLES
  script,       \* the calls of every thread
  at,           \* which of them a thread is in or makes next
  graph,        \* the HBGraph
  last_hbnode,  \* last_hbnode of the mutexes and, under Sem, of the semaphore
  once,         \* *once_control: NoNode or the completion node
  outcome,      \* what the calls of a thread have returned
  notes         \* history: what this execution has met, see below

INSTANCE HBGraph

recvars == <<script, at, graph, last_hbnode, once, outcome, notes>>

Finished(t) == at[t] > Len(script[t])
Calls(t, name) == ~Finished(t) /\ script[t][at[t]].call = name
MutexOf(t) == script[t][at[t]].mutex

RecordInit ==
  /\ at = [t \in Thread |-> 1]
  /\ graph = EmptyGraph
  /\ last_hbnode = [o \in Mutex \cup {Sem} |-> NoNode]
  /\ once = NoNode
  /\ outcome = [t \in Thread |-> <<>>]
  /\ notes = {}

\* The history notes
\*   "busy"      a call that found a mutex or a semaphore taken,
\*   "unowned"   an unlock or a wait by a thread that does not hold the mutex,
\*   "unguarded" a signal from a thread that does not hold the mutex of the
\*               condition variable,
\*   "crowded"   an arrival at the barrier of a thread beyond the InitCount
\*               that use it.
BarrierUsers == {t \in Thread : \E k \in DOMAIN script[t] :
                                  script[t][k].call = "barrier"}
Note(found) == notes' = notes \cup found

Return(t, result) ==
  /\ outcome' = [outcome EXCEPT ![t] = Append(@, result)]
  /\ at' = [at EXCEPT ![t] = @ + 1]

InCall == UNCHANGED <<outcome, at>>

\* __thread_make_hbnode, __thread_make_hbnode_from.
MakeNode(t) == addNodeForThread(graph, t, at[t])
MakeNodeFrom(t, from) == addEdge(MakeNode(t), from, NewNode(graph, t))

Remember(o, node) == last_hbnode' = [last_hbnode EXCEPT ![o] = node]

\* klee_thread_notify wakes a thread of a mutex or a semaphore without edges.
\* The node that klee_last_hbnode then returns is the executor's; it is taken to
\* have all the edges it can have.
WokenNode(t) == addConservativeEdge(MakeNode(t), NewNode(graph, t))

MutexRest == UNCHANGED <<script, once, barrier, rwvars, sem>>
-----------------------------------------------------------------------------
(* Mutexes and the condition variable *)

\* The part of atomic_mutex_lock up to its sleep or its return.
LockNode(t, m) ==
  /\ graph' = MakeNodeFrom(t, last_hbnode[m])
  /\ \/ /\ ~MustWait(m)
        /\ Remember(m, NewNode(graph, t))
        /\ Return(t, "ok") /\ Note({})
     \/ MustWait(m) /\ InCall /\ Note({"busy"}) /\ UNCHANGED last_hbnode

RecordLock(t) ==
  /\ \/ Calls(t, "lock")
     \/ Calls(t, "trylock") /\ ~MustWait(MutexOf(t))
  /\ pthread_mutex_lock(t, MutexOf(t))
  /\ LockNode(t, MutexOf(t))
  /\ MutexRest

\* EBUSY.
RecordTryFails(t) ==
  /\ Runs(t) /\ Calls(t, "trylock") /\ MustWait(MutexOf(t))
  /\ graph' = MakeNodeFrom(t, last_hbnode[MutexOf(t)])
  /\ Return(t, "busy") /\ Note({"busy"})
  /\ UNCHANGED <<mutexvars, waiting, last_hbnode, overtaken>> /\ MutexRest

RecordLockWoken(t) ==
  /\ ~Finished(t)
  /\ LockWoken(t, MutexOf(t))
  /\ graph' = WokenNode(t)
  /\ Remember(MutexOf(t), NewNode(graph, t))
  /\ Return(t, "ok") /\ Note({})
  /\ MutexRest

\* Mutant: the mutex keeps the node of its lock.
UnlockNodeForgotten(t, m) ==
  /\ graph' = MakeNode(t)
  /\ UNCHANGED last_hbnode

\* The node of atomic_mutex_unlock.
UnlockNode(t, m) ==
  /\ graph' = MakeNode(t)
  /\ Remember(m, NewNode(graph, t))

RecordUnlock(t) ==
  /\ Calls(t, "unlock")
  /\ pthread_mutex_unlock(t, MutexOf(t))
  /\ UnlockNode(t, MutexOf(t))
  /\ Return(t, "ok") /\ Note({})
  /\ MutexRest

\* EPERM: no node.
RecordUnlockFails(t) ==
  /\ Runs(t) /\ Calls(t, "unlock") /\ ~Owns(t, MutexOf(t))
  /\ Return(t, "perm") /\ Note({"unowned"})
  /\ UNCHANGED <<mutexvars, waiting, graph, last_hbnode, overtaken>> /\ MutexRest

RecordCondWait(t) ==
  /\ Calls(t, "wait")
  /\ pthread_cond_wait(t, MutexOf(t))
  /\ \/ /\ Owns(t, MutexOf(t))
        /\ UnlockNode(t, MutexOf(t)) /\ InCall /\ Note({})
     \/ /\ ~Owns(t, MutexOf(t)) /\ Return(t, "perm") /\ Note({"unowned"})
        /\ UNCHANGED <<graph, last_hbnode>>
  /\ MutexRest

RecordCondWoken(t) ==
  /\ CondWoken(t)
  /\ LockNode(t, cmutex[t])
  /\ MutexRest

\* The threads this step has notified.
JustNotified == {u \in Thread : asleep[u] # Awake /\ asleep'[u] = Awake}

\* atomic_cond_notify: its node, and one for every thread notified.
RecordCondNotify(t) ==
  /\ \/ Calls(t, "signal") /\ pthread_cond_signal(t)
     \/ Calls(t, "broadcast") /\ pthread_cond_broadcast(t)
     \/ /\ Calls(t, "signal") \/ Calls(t, "broadcast")
        /\ Runs(t) /\ cond.queued = 0
        /\ UNCHANGED <<mutexvars, waiting, overtaken>>
  /\ graph' = addSourceEdges(MakeNode(t), JustNotified, at, NewNode(graph, t))
  /\ Note(IF \E m \in Mutex : Owns(t, m) /\ cond.mutex \in {m, None}
            THEN {} ELSE {"unguarded"})
  /\ Return(t, "ok")
  /\ UNCHANGED last_hbnode /\ MutexRest
-----------------------------------------------------------------------------
(* The barrier, the semaphore and pthread_once *)

\* "N-1 hb edges for barrier arrival, N-1 hb edges for barrier departure"
RecordBarrier(t) ==
  /\ Calls(t, "barrier")
  /\ pthread_barrier_wait(t)
  /\ \/ /\ barrier = 1
        /\ graph' = addSourceSinkEdges(MakeNode(t), JustNotified, at, NewNode(graph, t))
        /\ Return(t, "serial")
     \/ barrier # 1 /\ InCall /\ UNCHANGED graph
  /\ Note(IF Cardinality(BarrierUsers) > InitCount THEN {"crowded"} ELSE {})
  /\ UNCHANGED <<script, last_hbnode, once, mutexvars, rwvars, sem, overtaken>>

RecordBarrierWoken(t) ==
  /\ BarrierWoken(t)
  /\ Return(t, "ok") /\ Note({})
  /\ UNCHANGED <<script, graph, last_hbnode, once, mutexvars, rwvars, sem, overtaken>>

SemRest == UNCHANGED <<script, once, mutexvars, barrier, rwvars>>

\* atomic_sem_down up to its sleep or its return.
RecordDown(t) ==
  /\ \/ Calls(t, "down")
     \/ Calls(t, "trydown") /\ sem # 0
  /\ sem_wait(t)
  /\ graph' = MakeNodeFrom(t, last_hbnode[Sem])
  /\ \/ sem # 0 /\ Remember(Sem, NewNode(graph, t)) /\ Return(t, "ok") /\ Note({})
     \/ sem = 0 /\ InCall /\ Note({"busy"}) /\ UNCHANGED last_hbnode
  /\ SemRest

\* EAGAIN.
RecordTryDownFails(t) ==
  /\ Runs(t) /\ Calls(t, "trydown") /\ sem = 0
  /\ graph' = MakeNodeFrom(t, last_hbnode[Sem])
  /\ Return(t, "again") /\ Note({"busy"})
  /\ UNCHANGED <<sem, waiting, last_hbnode, overtaken>> /\ SemRest

RecordDownWoken(t) ==
  /\ SemWoken(t)
  /\ graph' = WokenNode(t)
  /\ Remember(Sem, NewNode(graph, t))
  /\ Return(t, "ok") /\ Note({})
  /\ SemRest

RecordUp(t) ==
  /\ Calls(t, "up")
  /\ sem_post(t)
  /\ graph' = MakeNodeFrom(t, last_hbnode[Sem])
  /\ Remember(Sem, NewNode(graph, t))
  /\ Return(t, "ok") /\ Note({})
  /\ SemRest

OnceNode(t) == MakeNodeFrom(t, once)

\* pthread_once, with a routine that makes no synchronisation call itself.
RecordOnce(t) ==
  /\ Runs(t) /\ Calls(t, "once")
  /\ graph' = OnceNode(t)
  /\ once' = IF once = NoNode THEN NewNode(graph, t) ELSE once
  /\ Return(t, "ok") /\ Note({})
  /\ UNCHANGED <<script, last_hbnode, mutexvars, waiting, barrier, rwvars, sem, overtaken>>
-----------------------------------------------------------------------------
RecordNext ==
  \E t \in Thread :
    \/ RecordLock(t) \/ RecordTryFails(t) \/ RecordLockWoken(t)
    \/ RecordUnlock(t) \/ RecordUnlockFails(t)
    \/ RecordCondWait(t) \/ RecordCondWoken(t) \/ RecordCondNotify(t)
    \/ RecordBarrier(t) \/ RecordBarrierWoken(t)
    \/ RecordDown(t) \/ RecordTryDownFails(t) \/ RecordDownWoken(t) \/ RecordUp(t)
    \/ RecordOnce(t)

\* No thread can go on: the end of the recording.
Recorded == \A t \in Thread : resume[t] = Awake /\ (Finished(t) \/ asleep[t] # Awake)
=============================================================================
