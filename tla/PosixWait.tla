------------------------------ MODULE PosixWait ------------------------------
(***************************************************************************)
(* What the symbolic POSIX layer uses of the executor's threads:            *)
(* klee_thread_sleep and klee_thread_notify (cloud9/include/klee/klee.h,     *)
(* called through cloud9/runtime/POSIX/multiprocess.h).  The executor itself *)
(* is not in the repository.                                               *)
(*                                                                         *)
(* Threads are scheduled cooperatively: a call runs uninterrupted up to a    *)
(* sleep, a preemption point or its return.  A thread that sleeps stays on   *)
(* one waiting list until it is notified, and goes on some time after that.  *)
(***************************************************************************)
EXTENDS Integers, FiniteSets

CONSTANTS
  Thread,  \* the threads: indices of __tsync.threads
  None     \* no object, no mutex

VARIABLES
  asleep,  \* the waiting list a thread sleeps on, Awake if on none
  resume   \* the list a notified thread was on and has yet to go on from

waiting == <<asleep, resume>>

\* A waiting list is named by its kind and its object.
Awake == <<"awake", None>>

Sleepers(list) == {t \in Thread : asleep[t] = list}
Notified(list) == {t \in Thread : resume[t] = list}

\* t is not in a call that sleeps.
Runs(t) == asleep[t] = Awake /\ resume[t] = Awake

Sleep(t, list) ==
  /\ asleep' = [asleep EXCEPT ![t] = list]
  /\ resume' = [resume EXCEPT ![t] = Awake]

Notify(ts) ==
  /\ asleep' = [t \in Thread |-> IF t \in ts THEN Awake ELSE asleep[t]]
  /\ resume' = [t \in Thread |-> IF t \in ts THEN asleep[t] ELSE resume[t]]

NotifyAll(list) == Notify(Sleepers(list))

\* The threads one notification wakes: one of the list, if there is one; which
\* is the executor's choice.
OneOf(list) ==
  IF Sleepers(list) = {} THEN {{}} ELSE {{t} : t \in Sleepers(list)}

\* ts are notified, then t sleeps.
NotifyThenSleep(ts, t, list) ==
  /\ asleep' = [u \in Thread |-> IF u = t THEN list
                                 ELSE IF u \in ts THEN Awake ELSE asleep[u]]
  /\ resume' = [u \in Thread |-> IF u \in ts THEN asleep[u] ELSE resume[u]]

\* A notified thread goes on, and does not sleep again in this stretch.
GoOn(t) ==
  /\ resume' = [resume EXCEPT ![t] = Awake]
  /\ UNCHANGED asleep
=============================================================================
