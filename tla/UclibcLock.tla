---------------------------- MODULE UclibcLock ----------------------------
(***************************************************************************)
(* The spinlock behind __uClibc_wrap_pthread_mutex_{lock,trylock,unlock} in *)
(* cloud9/runtime/ConstrainedExec/lib.cpp, on one mutex.  It runs outside   *)
(* any HB node: its threads interleave freely.                              *)
(***************************************************************************)
EXTENDS Integers

CONSTANTS
  Thread,      \* values of MyThreadId
  FirstOwner,  \* what the initializer leaves in owner (uClibc's "kind")
  CountMod,    \* queued counts modulo this (2^32 in the code)
  MaxCalls     \* bound on the calls of a thread

ASSUME LockAssumption ==
  FirstOwner \in Int /\ CountMod \in Nat \ {0, 1} /\ MaxCalls \in Nat

VARIABLES
  taken, owner, queued,  \* the fields of pthread_mutex_t
  pc,                    \* where each thread is in a call, "idle" outside
  istry,                 \* the argument of spinlock_lock
  calls,                 \* calls made
  depth                  \* lock calls that returned 0, less unlock calls made

mutex == <<taken, owner, queued>>
vars == <<taken, owner, queued, pc, istry, calls, depth>>

Init ==
  /\ taken = 0 /\ owner = FirstOwner /\ queued = 0
  /\ pc = [t \in Thread |-> "idle"]
  /\ istry = [t \in Thread |-> FALSE]
  /\ calls = [t \in Thread |-> 0]
  /\ depth = [t \in Thread |-> 0]

Goto(t, place) == pc' = [pc EXCEPT ![t] = place]

-----------------------------------------------------------------------------
(* spinlock_lock *)

\* __sync_lock_test_and_set returns the OLD value; the code takes it for success.
TestAndSetSucceeds == taken = 1

Lock(t, try) ==
  /\ pc[t] = "idle" /\ calls[t] < MaxCalls
  /\ calls' = [calls EXCEPT ![t] = @ + 1]
  /\ istry' = [istry EXCEPT ![t] = try]
  /\ taken' = 1
  /\ Goto(t, IF TestAndSetSucceeds THEN "owner" ELSE "check")
  /\ UNCHANGED <<owner, queued, depth>>

\* "Recursive?"
LockRecursive(t) ==
  /\ pc[t] = "check" /\ owner = t
  /\ queued' = (queued + 1) % CountMod
  /\ depth' = [depth EXCEPT ![t] = @ + 1]
  /\ Goto(t, "idle")
  /\ UNCHANGED <<taken, owner, istry, calls>>

\* "Somebody else holds it"
LockOther(t) ==
  /\ pc[t] = "check" /\ owner # t
  /\ Goto(t, IF istry[t] THEN "idle" ELSE "spin")
  /\ UNCHANGED <<mutex, istry, calls, depth>>

\* Mutant: the spin ends when the old value is 0.
SpinEndsFree == taken = 0

\* What SPIN_WAIT_UNTIL waits for.
SpinEnds == TestAndSetSucceeds

LockSpin(t) ==
  /\ pc[t] = "spin"
  /\ taken' = 1
  /\ Goto(t, IF SpinEnds THEN "owner" ELSE "spin")
  /\ UNCHANGED <<owner, queued, istry, calls, depth>>

LockSetOwner(t) ==
  /\ pc[t] = "owner"
  /\ owner' = t
  /\ Goto(t, "queued")
  /\ UNCHANGED <<taken, queued, istry, calls, depth>>

LockSetQueued(t) ==
  /\ pc[t] = "queued"
  /\ queued' = 1
  /\ depth' = [depth EXCEPT ![t] = @ + 1]
  /\ Goto(t, "idle")
  /\ UNCHANGED <<taken, owner, istry, calls>>

-----------------------------------------------------------------------------
(* spinlock_unlock; the callers unlock what they have locked *)

Unlock(t) ==
  /\ pc[t] = "idle" /\ depth[t] > 0
  /\ depth' = [depth EXCEPT ![t] = @ - 1]
  /\ Goto(t, "test")
  /\ UNCHANGED <<mutex, istry, calls>>

\* EPERM, or on to the count
UnlockTest(t) ==
  /\ pc[t] = "test"
  /\ Goto(t, IF taken = 0 \/ owner # t THEN "idle" ELSE "count")
  /\ UNCHANGED <<mutex, istry, calls, depth>>

UnlockCount(t) ==
  /\ pc[t] = "count"
  /\ Goto(t, IF queued > 0 THEN "decrement" ELSE "release")
  /\ UNCHANGED <<mutex, istry, calls, depth>>

UnlockDecrement(t) ==
  /\ pc[t] = "decrement"
  /\ queued' = (queued - 1) % CountMod
  /\ Goto(t, IF queued' # 0 THEN "idle" ELSE "release")
  /\ UNCHANGED <<taken, owner, istry, calls, depth>>

UnlockRelease(t) ==
  /\ pc[t] = "release"
  /\ taken' = 0
  /\ Goto(t, "idle")
  /\ UNCHANGED <<owner, queued, istry, calls, depth>>

-----------------------------------------------------------------------------
Continue(t) ==
  \/ LockRecursive(t) \/ LockOther(t) \/ LockSpin(t)
  \/ LockSetOwner(t) \/ LockSetQueued(t)
  \/ UnlockTest(t) \/ UnlockCount(t) \/ UnlockDecrement(t) \/ UnlockRelease(t)

Next ==
  \E t \in Thread : Lock(t, TRUE) \/ Lock(t, FALSE) \/ Unlock(t) \/ Continue(t)

\* Inside a call a thread keeps running; whether it makes a call is its program's
\* choice.
Spec == Init /\ [][Next]_vars /\ \A t \in Thread : WF_vars(Continue(t))

-----------------------------------------------------------------------------
\* Every call returns: no thread spins for ever in spinlock_lock, and
\* spinlock_unlock has no loop.
CallsReturn == \A t \in Thread : pc[t] # "idle" ~> pc[t] = "idle"

\* Mutual exclusion: two threads never hold the lock at once.  The comment of
\* spinlock_lock on the path that has to wait is "Somebody else holds it".
Exclusive == \A t, u \in Thread : depth[t] > 0 /\ depth[u] > 0 => t = u
=============================================================================
