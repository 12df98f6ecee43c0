----------------------------- MODULE SyncReplay -----------------------------
(***************************************************************************)
(* A recorded execution under the constrained runtime                      *)
(* (cloud9/runtime/ConstrainedExec/lib.cpp): its mutexes, condition          *)
(* variables, barriers, semaphores and pthread_once.  The threads make the   *)
(* calls of the same script, now preempted anywhere; what orders them is the  *)
(* happens-before graph of the recording, from which DumpThreadSchedule       *)
(* makes the schedule of every thread.                                     *)
(*                                                                         *)
(* A step ends where another thread can see or change what the call has      *)
(* read or written.  The fragments and regions a schedule is cut into, and    *)
(* the nodes of inputs, are in ConstrainedExec; here a schedule is one piece. *)
(***************************************************************************)
EXTENDS SyncRecording

VARIABLES
  replaying,  \* the recording has ended and the program runs again
  clock,      \* VectorClock: how many nodes of its schedule a thread has passed
  call,       \* which call of its script a thread is in or makes next
  pc,         \* how far it is in the call
  reg,        \* a value a thread has read and not written back
  rmutex,     \* the runtime's pthread_mutex_t, cond, barrier, semaphore, control
  rcond,
  rleft,
  rsem,
  ronce,
  rheld,      \* history: the mutexes a thread has locked and not unlocked
  result,     \* history: what the calls of a thread have returned
  aborted     \* an assertion has failed

rtobjects == <<rmutex, rcond, rleft, rsem, ronce>>
rtvars == <<rtobjects, replaying, clock, call, pc, reg, rheld, result, aborted>>

ReplayInit ==
  /\ replaying = FALSE
  /\ clock = [t \in Thread |-> 0]
  /\ call = [t \in Thread |-> 1]
  /\ pc = [t \in Thread |-> "start"]
  /\ reg = [t \in Thread |-> 0]
  /\ rmutex = [m \in Mutex |-> [taken |-> FALSE, owner |-> None, queued |-> 0]]
  /\ rcond = [mutex |-> None, queued |-> 0]
  /\ rleft = InitCount
  /\ rsem = InitValue
  /\ ronce = FALSE
  /\ rheld = [t \in Thread |-> {}]
  /\ result = [t \in Thread |-> <<>>]
  /\ aborted = FALSE

StartReplay ==
  /\ ~replaying /\ Recorded
  /\ replaying' = TRUE
  /\ UNCHANGED <<rtobjects, clock, call, pc, reg, rheld, result, aborted>>
-----------------------------------------------------------------------------
(* The schedule *)

Done(t) == call[t] > Len(script[t])
In(t, name) == ~Done(t) /\ script[t][call[t]].call = name
Arg(t) == script[t][call[t]].mutex

IsScheduleComplete(t) == clock[t] = Len(graph[t])

\* "Check if the next HB node has a matching ctx"
NodeExists(t) ==
  ~IsScheduleComplete(t) /\ graph[t][clock[t] + 1].ctx = call[t]

\* Mutant: a node is passed when the one before it has been.
EdgesSatisfiedEarly(t) ==
  \A n \in CrossEdges(graph, t, clock[t] + 1) : clock[n.thread] >= n.order - 1

EdgesSatisfied(t) ==
  \A n \in CrossEdges(graph, t, clock[t] + 1) : clock[n.thread] >= n.order

\* WaitForHbNode has returned true.
WaitForHbNode(t) == NodeExists(t) /\ EdgesSatisfied(t)

AdvanceHbNode(t) == clock' = [clock EXCEPT ![t] = @ + 1]

\* Where a call waits for a node, and may sleep in a region barrier when the
\* schedule has no more.
MaySleep == {"queued", "condwait", "barrier", "barrierout", "semwait"}
MustExist == {"start", "unlocknode", "relock"}
Waits(t) ==
  \/ pc[t] \in MaySleep \cup (MustExist \ {"start"})
  \/ /\ pc[t] = "start" /\ ~Done(t)
     /\ script[t][call[t]].call \notin {"unlock", "wait", "barrier"}

Goto(t, label) ==
  /\ pc' = [pc EXCEPT ![t] = label]
  /\ UNCHANGED <<call, result>>

Returns(t, res) ==
  /\ pc' = [pc EXCEPT ![t] = "start"]
  /\ call' = [call EXCEPT ![t] = @ + 1]
  /\ result' = [result EXCEPT ![t] = Append(@, res)]

\* The assert of WaitForHbNodeMustExist.
NodeMissing(t) ==
  /\ Waits(t) /\ ~NodeExists(t)
  /\ ~(pc[t] \in MaySleep /\ IsScheduleComplete(t))
  /\ aborted' = TRUE
  /\ UNCHANGED <<rtobjects, clock, call, pc, reg, rheld, result>>
-----------------------------------------------------------------------------
(* dolock and dounlock *)

Busy(m) == rmutex[m].taken \/ rmutex[m].queued > 0

Locks(t) ==
  \/ pc[t] = "start" /\ (In(t, "lock") \/ In(t, "trylock"))
  \/ pc[t] = "relock"

\* The test of dolock, and AdvanceHbNode where nothing is written before it.
dolock(t) ==
  /\ Locks(t) /\ WaitForHbNode(t)
  /\ \/ ~Busy(Arg(t)) /\ AdvanceHbNode(t) /\ Goto(t, "turn") /\ UNCHANGED reg
     \/ /\ Busy(Arg(t)) /\ In(t, "trylock")
        /\ AdvanceHbNode(t) /\ Returns(t, "busy") /\ UNCHANGED reg
     \/ /\ Busy(Arg(t)) /\ ~In(t, "trylock")
        /\ reg' = [reg EXCEPT ![t] = rmutex[Arg(t)].queued]
        /\ Goto(t, "queue") /\ UNCHANGED clock
  /\ UNCHANGED <<rtobjects, rheld, aborted>>

LockQueue(t) ==
  /\ pc[t] = "queue"
  /\ rmutex' = [rmutex EXCEPT ![Arg(t)].queued = reg[t] + 1]
  /\ AdvanceHbNode(t) /\ Goto(t, "queued")
  /\ UNCHANGED <<rcond, rleft, rsem, ronce, reg, rheld, aborted>>

\* "Sleep: when we wake, the lock is ours"
LockSleep(t) ==
  /\ pc[t] = "queued" /\ WaitForHbNode(t)
  /\ AdvanceHbNode(t) /\ Goto(t, "turn")
  /\ UNCHANGED <<rtobjects, reg, rheld, aborted>>

\* "Now it's our turn": taken, then owner.
LockTaken(t) ==
  /\ pc[t] = "turn"
  /\ rmutex' = [rmutex EXCEPT ![Arg(t)].taken = TRUE]
  /\ Goto(t, "owner")
  /\ UNCHANGED <<rcond, rleft, rsem, ronce, clock, reg, rheld, aborted>>

LockOwner(t) ==
  /\ pc[t] = "owner"
  /\ rmutex' = [rmutex EXCEPT ![Arg(t)].owner = t]
  /\ rheld' = [rheld EXCEPT ![t] = @ \cup {Arg(t)}]
  /\ Returns(t, "ok")
  /\ UNCHANGED <<rcond, rleft, rsem, ronce, clock, reg, aborted>>

Mine(t, m) == rmutex[m].taken /\ rmutex[m].owner = t

\* dounlock up to its first write, also for pthread_cond_wait.
dounlock(t) ==
  /\ \/ pc[t] = "start" /\ In(t, "unlock")
     \/ pc[t] = "condunlock"
  /\ \/ /\ Mine(t, Arg(t))
        /\ rmutex' = [rmutex EXCEPT ![Arg(t)].taken = FALSE]
        /\ rheld' = [rheld EXCEPT ![t] = @ \ {Arg(t)}]
        /\ Goto(t, "unqueue") /\ UNCHANGED rcond
     \/ /\ ~Mine(t, Arg(t))
        /\ rcond' = IF In(t, "wait") THEN [rcond EXCEPT !.queued = @ - 1] ELSE rcond
        /\ Returns(t, "perm") /\ UNCHANGED <<rmutex, rheld>>
  /\ UNCHANGED <<rleft, rsem, ronce, clock, reg, aborted>>

UnlockQueue(t) ==
  /\ pc[t] = "unqueue"
  /\ rmutex' = [rmutex EXCEPT ![Arg(t)].queued = IF @ > 0 THEN @ - 1 ELSE @]
  /\ Goto(t, "unlocknode")
  /\ UNCHANGED <<rcond, rleft, rsem, ronce, clock, reg, rheld, aborted>>

DoneUnlock(t) ==
  /\ pc[t] = "unlocknode" /\ WaitForHbNode(t)
  /\ AdvanceHbNode(t)
  /\ IF In(t, "wait") THEN Goto(t, "condwait") ELSE Returns(t, "ok")
  /\ UNCHANGED <<rtobjects, reg, rheld, aborted>>
-----------------------------------------------------------------------------
(* The condition variable *)

\* The assert on the mutex of the threads already queued is part of the step.
CondQueue(t) ==
  /\ pc[t] = "start" /\ In(t, "wait")
  /\ aborted' = (rcond.queued > 0 /\ rcond.mutex # Arg(t))
  /\ rcond' = [mutex |-> Arg(t), queued |-> rcond.queued + 1]
  /\ Goto(t, "condunlock")
  /\ UNCHANGED <<rmutex, rleft, rsem, ronce, clock, reg, rheld>>

CondSleep(t) ==
  /\ pc[t] = "condwait" /\ WaitForHbNode(t)
  /\ AdvanceHbNode(t) /\ Goto(t, "relock")
  /\ UNCHANGED <<rtobjects, reg, rheld, aborted>>

\* Mutant: a signal leaves queued alone.
SignalledNone(t) == IF In(t, "broadcast") THEN 0 ELSE rcond.queued

\* queued after pthread_cond_signal or pthread_cond_broadcast.
Signalled(t) ==
  IF In(t, "broadcast") \/ rcond.queued = 0 THEN 0 ELSE rcond.queued - 1

CondNotify(t) ==
  /\ pc[t] = "start" /\ (In(t, "signal") \/ In(t, "broadcast"))
  /\ WaitForHbNode(t)
  /\ rcond' = [rcond EXCEPT !.queued = Signalled(t)]
  /\ AdvanceHbNode(t) /\ Returns(t, "ok")
  /\ UNCHANGED <<rmutex, rleft, rsem, ronce, reg, rheld, aborted>>
-----------------------------------------------------------------------------
(* The barrier *)

BarrierArrive(t) ==
  /\ pc[t] = "start" /\ In(t, "barrier")
  /\ rleft' = rleft - 1
  /\ Goto(t, "barrier")
  /\ UNCHANGED <<rmutex, rcond, rsem, ronce, clock, reg, rheld, aborted>>

numIncoming(t) == Cardinality(CrossEdges(graph, t, clock[t] + 1))

\* "the next HB node we see should either (a) have no incoming edges, or (b)
\* have (barrier->init_count-1) incoming edges": anything else fails an assert.
BarrierWait(t) ==
  /\ pc[t] = "barrier" /\ WaitForHbNode(t)
  /\ AdvanceHbNode(t)
  /\ aborted' = (numIncoming(t) \notin {0, InitCount - 1})
  /\ IF numIncoming(t) = InitCount - 1
       THEN rleft' = InitCount /\ Returns(t, "serial")
       ELSE UNCHANGED rleft /\ Goto(t, "barrierout")
  /\ UNCHANGED <<rmutex, rcond, rsem, ronce, reg, rheld>>

BarrierLeave(t) ==
  /\ pc[t] = "barrierout" /\ WaitForHbNode(t)
  /\ AdvanceHbNode(t) /\ Returns(t, "ok")
  /\ UNCHANGED <<rtobjects, reg, rheld, aborted>>
-----------------------------------------------------------------------------
(* The semaphore and pthread_once *)

\* dodown: the test of count, after the first node and after every sleep.
dodown(t) ==
  /\ \/ pc[t] = "start" /\ (In(t, "down") \/ In(t, "trydown"))
     \/ pc[t] = "semwait"
  /\ WaitForHbNode(t)
  /\ \/ rsem # 0 /\ Goto(t, "semtake") /\ UNCHANGED clock
     \/ rsem = 0 /\ In(t, "trydown") /\ AdvanceHbNode(t) /\ Returns(t, "again")
     \/ rsem = 0 /\ In(t, "down") /\ AdvanceHbNode(t) /\ Goto(t, "semwait")
  /\ reg' = [reg EXCEPT ![t] = rsem]
  /\ UNCHANGED <<rtobjects, rheld, aborted>>

doup(t) ==
  /\ pc[t] = "start" /\ In(t, "up") /\ WaitForHbNode(t)
  /\ reg' = [reg EXCEPT ![t] = rsem]
  /\ Goto(t, "semadd")
  /\ UNCHANGED <<rtobjects, clock, rheld, aborted>>

\* count-- or count++, and the end of the node.
SemWrite(t) ==
  /\ pc[t] \in {"semtake", "semadd"}
  /\ rsem' = IF pc[t] = "semadd" THEN reg[t] + 1 ELSE reg[t] - 1
  /\ AdvanceHbNode(t) /\ Returns(t, "ok")
  /\ UNCHANGED <<rmutex, rcond, rleft, ronce, reg, rheld, aborted>>

pthread_once(t) ==
  /\ pc[t] = "start" /\ In(t, "once") /\ WaitForHbNode(t)
  /\ \/ ~ronce /\ Goto(t, "init") /\ UNCHANGED clock
     \/ ronce /\ AdvanceHbNode(t) /\ Returns(t, "ok")
  /\ UNCHANGED <<rtobjects, reg, rheld, aborted>>

\* initRoutine has returned.
OnceInitialised(t) ==
  /\ pc[t] = "init"
  /\ ronce' = TRUE
  /\ AdvanceHbNode(t) /\ Returns(t, "ok")
  /\ UNCHANGED <<rmutex, rcond, rleft, rsem, reg, rheld, aborted>>
-----------------------------------------------------------------------------
Step(t) ==
  \/ dolock(t) \/ LockQueue(t) \/ LockSleep(t) \/ LockTaken(t) \/ LockOwner(t)
  \/ dounlock(t) \/ UnlockQueue(t) \/ DoneUnlock(t)
  \/ CondQueue(t) \/ CondSleep(t) \/ CondNotify(t)
  \/ BarrierArrive(t) \/ BarrierWait(t) \/ BarrierLeave(t)
  \/ dodown(t) \/ doup(t) \/ SemWrite(t)
  \/ pthread_once(t) \/ OnceInitialised(t)
  \/ NodeMissing(t)

\* The calls up to the end of the recording, then the same calls replayed.  A
\* failed assertion ends the program.
ReplayNext ==
  \/ ~replaying /\ RecordNext /\ UNCHANGED rtvars
  \/ StartReplay /\ UNCHANGED <<recvars, syncvars, waiting>>
  \/ /\ replaying /\ ~aborted
     /\ \E t \in Thread : Step(t)
     /\ UNCHANGED replaying /\ UNCHANGED <<recvars, syncvars, waiting>>
-----------------------------------------------------------------------------
(* Properties *)

\* An execution that never found a mutex or a semaphore taken, unlocked only what
\* it held, signalled under the mutex only and had no more threads at the barrier
\* than it is for.
Orderly == notes = {}

\* The runtime takes the branches of the recording: of an orderly execution, no
\* wait misses its node, no assertion fails, and every call returns what it
\* returned when it was recorded (the results of trylock and sem_trywait, and
\* which thread is the serial one, depend on the order of the threads).
ReplaySame ==
  Orderly => /\ ~aborted
             /\ \A t \in Thread : result[t] = SubSeq(outcome[t], 1, Len(result[t]))

\* "when we wake, the lock is ours": dolock lets one thread at a time have a
\* mutex, whatever a recording has met in which the mutexes did exclude.
LockIsOurs ==
  overtaken = {} => \A t, u \in Thread : t # u => rheld[t] \cap rheld[u] = {}

\* The routine of pthread_once runs once: its test and its write of onceControl
\* are apart, and only the edges of the recording keep two threads from finding
\* it 0.
OnceOnly ==
  \A t, u \in Thread : pc[t] = "init" => ~ronce /\ (pc[u] = "init" => t = u)

\* What one thread at a time may do stays so in the replay: the routine of
\* pthread_once runs once, and after an orderly execution a mutex has one holder at
\* a time, although dolock writes the mutex after its node and dounlock before its own.
ReplayExclusive == OnceOnly /\ (Orderly => LockIsOurs)

\* The replay of an orderly execution cannot stop half way: where no thread can
\* go on, every call that returned in the recording has returned, all nodes
\* are used up, and the objects are in the state in which the next region was
\* recorded.
ReplayEnds ==
  Orderly /\ replaying /\ ~aborted /\ ~(\E t \in Thread : ENABLED Step(t)) =>
    /\ result = outcome
    /\ \A t \in Thread : IsScheduleComplete(t)
    /\ \A m \in Mutex : /\ rmutex[m].taken = taken[m]
                         /\ rmutex[m].queued = queued[m]
                         /\ taken[m] => rmutex[m].owner = owner[m]
    /\ rcond.queued = cond.queued
    /\ cond.queued > 0 => rcond.mutex = cond.mutex
    /\ rleft = barrier /\ rsem = sem
=============================================================================
