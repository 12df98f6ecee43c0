------------------------------ MODULE PosixSync ------------------------------
(***************************************************************************)
(* The synchronisation objects of the symbolic POSIX layer                 *)
(* (cloud9/runtime/POSIX/threadsync.c): mutexes, a condition variable, a     *)
(* barrier, a read-write lock and a semaphore.  An action is the stretch of  *)
(* a call up to the point where another thread may run.  A call that returns *)
(* an error and changes nothing is a stuttering step and has no action.      *)
(*                                                                         *)
(* Nothing is assumed of the executor: it may run other threads between a    *)
(* notification and the moment the notified thread goes on, as the comment   *)
(* at threadsync.c:64-70 describes.  overtaken is the history of the calls    *)
(* that, in such a moment, took what a notified thread goes on to take        *)
(* without looking again.                                                   *)
(***************************************************************************)
EXTENDS PosixWait

CONSTANTS
  Mutex,        \* the mutexes of the program
  InitCount,    \* what the barrier is initialised with
  InitValue,    \* what the semaphore is initialised with
  UIntSize      \* 2^32 in the code: how many values an unsigned int has

ASSUME SyncConstants ==
  /\ IsFiniteSet(Thread) /\ None \notin Thread /\ None \notin Mutex
  /\ InitCount \in Nat \ {0} /\ UIntSize \in Nat /\ InitCount < UIntSize
  /\ Cardinality(Thread) < UIntSize
  /\ InitValue \in Nat /\ InitValue < UIntSize

VARIABLES
  taken,     \* the fields of every pthread_mutex_t
  owner,
  queued,
  lockset,   \* the mutexes a thread has been given (klee_lockset_add, _remove)
  cond,      \* mutex and queued of the pthread_cond_t
  cmutex,    \* the mutex argument of a thread's pthread_cond_wait
  barrier,   \* left of the pthread_barrier_t
  rwlock,    \* the four counters of the pthread_rwlock_t
  rwheld,    \* how a thread holds the read-write lock: history of its calls
  sem,       \* count of the sem_t
  overtaken  \* history: the objects of which a call took what a notified thread
             \* was to have; and the semaphore, once a post has wrapped its count

mutexvars == <<taken, owner, queued, lockset, cond, cmutex>>
rwvars == <<rwlock, rwheld>>
syncvars == <<mutexvars, barrier, rwlock, rwheld, sem, overtaken>>

UInt(n) == n % UIntSize

Lock(m) == <<"mutex", m>>
Cond == <<"cond", None>>
Barrier == <<"barrier", None>>
Readers == <<"readers", None>>
Writers == <<"writers", None>>
RwLock == <<"rwlock", None>>
Sem == <<"sem", None>>

SyncInit ==
  /\ taken = [m \in Mutex |-> FALSE]
  /\ owner = [m \in Mutex |-> None]
  /\ queued = [m \in Mutex |-> 0]
  /\ lockset = [t \in Thread |-> {}]
  /\ cond = [mutex |-> None, queued |-> 0]
  /\ cmutex = [t \in Thread |-> None]
  /\ barrier = InitCount
  /\ rwlock = [nr_readers |-> 0, nr_readers_queued |-> 0,
               nr_writers_queued |-> 0, writer |-> FALSE]
  /\ rwheld = [t \in Thread |-> "not"]
  /\ sem = InitValue
  /\ overtaken = {}

\* History: an object is overtaken by this call if a thread is.
Overtake(object, passed) ==
  overtaken' = IF passed THEN overtaken \cup {object} ELSE overtaken
-----------------------------------------------------------------------------
(* Mutexes *)

\* Mutant: only the queue is looked at.
MustWaitQueueOnly(m) == queued[m] > 0

MustWait(m) == taken[m] \/ queued[m] > 0

\* The end of atomic_mutex_lock, reached at once or after the sleep.
TakeMutex(t, m) ==
  /\ taken' = [taken EXCEPT ![m] = TRUE]
  /\ owner' = [owner EXCEPT ![m] = t]
  /\ lockset' = [lockset EXCEPT ![t] = @ \cup {m}]
  /\ GoOn(t)
  /\ UNCHANGED queued

\* atomic_mutex_lock up to its sleep or its return, also as a part of
\* pthread_cond_wait.  "the notifier will decrement" queued.
MutexLock(t, m) ==
  \/ /\ ~MustWait(m)
     /\ TakeMutex(t, m)
     /\ Overtake(Lock(m), Notified(Lock(m)) # {})
  \/ /\ MustWait(m)
     /\ queued' = [queued EXCEPT ![m] = @ + 1]
     /\ Sleep(t, Lock(m))
     /\ UNCHANGED <<taken, owner, lockset, overtaken>>

\* pthread_mutex_lock, and pthread_mutex_trylock where it succeeds.
pthread_mutex_lock(t, m) ==
  /\ Runs(t)
  /\ MutexLock(t, m)
  /\ UNCHANGED <<cond, cmutex>>

\* atomic_mutex_lock after its sleep: the mutex is not looked at again.
LockWoken(t, m) ==
  /\ resume[t] = Lock(m)
  /\ TakeMutex(t, m)
  /\ UNCHANGED <<cond, cmutex, overtaken>>

Owns(t, m) == taken[m] /\ owner[m] = t

\* atomic_mutex_unlock by the owner, up to its notification.
ReleaseMutex(t, m) ==
  /\ Owns(t, m)
  /\ taken' = [taken EXCEPT ![m] = FALSE]
  /\ queued' = [queued EXCEPT ![m] = IF @ > 0 THEN @ - 1 ELSE @]
  /\ lockset' = [lockset EXCEPT ![t] = @ \ {m}]
  /\ UNCHANGED <<owner, overtaken>>

\* Whom it notifies.
ReleasedTo(m) == IF queued[m] > 0 THEN OneOf(Lock(m)) ELSE {{}}

pthread_mutex_unlock(t, m) ==
  /\ Runs(t)
  /\ ReleaseMutex(t, m)
  /\ \E ts \in ReleasedTo(m) : Notify(ts)
  /\ UNCHANGED <<cond, cmutex>>
-----------------------------------------------------------------------------
(* The condition variable *)

\* atomic_cond_wait up to its sleep.  Another mutex than that of the threads
\* already queued fails klee_assert, which ends the path: there is no step.
pthread_cond_wait(t, m) ==
  /\ Runs(t)
  /\ cond.queued > 0 => cond.mutex = m
  /\ \/ /\ ReleaseMutex(t, m)
        /\ cond' = [mutex |-> m, queued |-> cond.queued + 1]
        /\ cmutex' = [cmutex EXCEPT ![t] = m]
        /\ \E ts \in ReleasedTo(m) : NotifyThenSleep(ts, t, Cond)
     \/ /\ ~Owns(t, m)                     \* EPERM, after the assignment
        /\ cond' = [cond EXCEPT !.mutex = m]
        /\ UNCHANGED <<taken, owner, queued, lockset, cmutex, waiting, overtaken>>

\* atomic_cond_wait after its sleep.
CondWoken(t) ==
  /\ resume[t] = Cond
  /\ MutexLock(t, cmutex[t])
  /\ cmutex' = [cmutex EXCEPT ![t] = None]
  /\ UNCHANGED cond

pthread_cond_signal(t) ==
  /\ Runs(t) /\ cond.queued > 0
  /\ cond' = [cond EXCEPT !.queued = @ - 1]
  /\ \E ts \in OneOf(Cond) : Notify(ts)
  /\ UNCHANGED <<taken, owner, queued, lockset, cmutex, overtaken>>

pthread_cond_broadcast(t) ==
  /\ Runs(t) /\ cond.queued > 0
  /\ cond' = [cond EXCEPT !.queued = 0]
  /\ NotifyAll(Cond)
  /\ UNCHANGED <<taken, owner, queued, lockset, cmutex, overtaken>>

MutexNext ==
  /\ \E t \in Thread :
       \/ \E m \in Mutex : \/ pthread_mutex_lock(t, m) \/ LockWoken(t, m)
                           \/ pthread_mutex_unlock(t, m) \/ pthread_cond_wait(t, m)
       \/ CondWoken(t) \/ pthread_cond_signal(t) \/ pthread_cond_broadcast(t)
  /\ UNCHANGED <<barrier, rwvars, sem>>
-----------------------------------------------------------------------------
(* The barrier *)

\* pthread_barrier_wait up to its sleep or its return.
pthread_barrier_wait(t) ==
  /\ Runs(t)
  /\ \/ barrier = 1 /\ barrier' = InitCount /\ NotifyAll(Barrier)
     \/ barrier # 1 /\ barrier' = barrier - 1 /\ Sleep(t, Barrier)

BarrierWoken(t) ==
  /\ resume[t] = Barrier
  /\ GoOn(t) /\ UNCHANGED barrier

BarrierNext ==
  /\ \E t \in Thread : pthread_barrier_wait(t) \/ BarrierWoken(t)
  /\ UNCHANGED <<mutexvars, rwvars, sem, overtaken>>
-----------------------------------------------------------------------------
(* The read-write lock.  The program is bounded to locking it once at a time *)
(* in a thread, and unlocks only what it has locked; the counters then count  *)
(* threads, and the EAGAIN for a counter that wraps does not come up.         *)

ReadersWait == rwlock.writer \/ rwlock.nr_writers_queued # 0
\* Mutant: a writer does not wait for readers.
WritersWaitWriters == rwlock.writer

WritersWait == rwlock.writer \/ rwlock.nr_readers # 0

\* The end of atomic_rwlock_rdlock, reached at once or after the sleep.
AddReader(t) ==
  /\ rwlock' = [rwlock EXCEPT !.nr_readers = @ + 1]
  /\ rwheld' = [rwheld EXCEPT ![t] = "read"]
  /\ GoOn(t)

\* pthread_rwlock_rdlock up to its sleep or its return, tryrdlock where it
\* succeeds.
pthread_rwlock_rdlock(t) ==
  /\ Runs(t) /\ rwheld[t] = "not"
  /\ \/ ~ReadersWait /\ AddReader(t) /\ Overtake(RwLock, Notified(Writers) # {})
     \/ /\ ReadersWait
        /\ rwlock' = [rwlock EXCEPT !.nr_readers_queued = @ + 1]
        /\ Sleep(t, Readers)
        /\ UNCHANGED <<rwheld, overtaken>>

ReaderWoken(t) == resume[t] = Readers /\ AddReader(t) /\ UNCHANGED overtaken

SetWriter(t) ==
  /\ rwlock' = [rwlock EXCEPT !.writer = TRUE]
  /\ rwheld' = [rwheld EXCEPT ![t] = "write"]
  /\ GoOn(t)

\* pthread_rwlock_wrlock, trywrlock: the same for a writer.
pthread_rwlock_wrlock(t) ==
  /\ Runs(t) /\ rwheld[t] = "not"
  /\ \/ /\ ~WritersWait /\ SetWriter(t)
        /\ Overtake(RwLock, Notified(Readers) \cup Notified(Writers) # {})
     \/ /\ WritersWait
        /\ rwlock' = [rwlock EXCEPT !.nr_writers_queued = @ + 1]
        /\ Sleep(t, Writers)
        /\ UNCHANGED <<rwheld, overtaken>>

WriterWoken(t) == resume[t] = Writers /\ SetWriter(t) /\ UNCHANGED overtaken

\* atomic_rwlock_unlock: what is unlocked, then who is notified.
Unlocked ==
  IF rwlock.writer THEN [rwlock EXCEPT !.writer = FALSE]
                   ELSE [rwlock EXCEPT !.nr_readers = @ - 1]

\* nr_readers does not count the readers that have been notified.
WakeWriter ==
  /\ rwlock' = [Unlocked EXCEPT !.nr_writers_queued = @ - 1]
  /\ \E ts \in OneOf(Writers) : Notify(ts)
  /\ Overtake(RwLock, Notified(Readers) # {})

WakeReaders ==
  /\ rwlock' = [Unlocked EXCEPT !.nr_readers_queued = 0]
  /\ NotifyAll(Readers)
  /\ UNCHANGED overtaken

\* Mutant: the readers are never notified.
RwUnlockForgetsReaders(t) ==
  /\ Runs(t) /\ rwheld[t] # "not"
  /\ rwheld' = [rwheld EXCEPT ![t] = "not"]
  /\ \/ Unlocked.nr_readers = 0 /\ rwlock.nr_writers_queued # 0 /\ WakeWriter
     \/ rwlock' = Unlocked /\ UNCHANGED <<waiting, overtaken>>

pthread_rwlock_unlock(t) ==
  /\ Runs(t) /\ rwheld[t] # "not"
  /\ rwheld' = [rwheld EXCEPT ![t] = "not"]
  /\ IF ~rwlock.writer /\ rwlock.nr_readers = 0
       THEN UNCHANGED <<rwlock, waiting, overtaken>>    \* EPERM
     ELSE IF Unlocked.nr_readers = 0 /\ rwlock.nr_writers_queued # 0
       THEN WakeWriter
     ELSE IF rwlock.nr_readers_queued # 0
       THEN WakeReaders
     ELSE rwlock' = Unlocked /\ UNCHANGED <<waiting, overtaken>>

RwNext ==
  /\ \E t \in Thread :
       \/ pthread_rwlock_rdlock(t) \/ ReaderWoken(t)
       \/ pthread_rwlock_wrlock(t) \/ WriterWoken(t)
       \/ pthread_rwlock_unlock(t)
  /\ UNCHANGED <<mutexvars, barrier, sem>>
-----------------------------------------------------------------------------
(* The semaphore *)

\* sem_wait up to its sleep or its return, sem_trywait where it succeeds.
sem_wait(t) ==
  /\ Runs(t)
  /\ \/ /\ sem # 0 /\ sem' = sem - 1 /\ UNCHANGED waiting
        /\ Overtake(Sem, sem <= Cardinality(Notified(Sem)))
     \/ sem = 0 /\ Sleep(t, Sem) /\ UNCHANGED <<sem, overtaken>>

\* atomic_sem_down after its sleep: count is not looked at again.
SemWoken(t) ==
  /\ resume[t] = Sem
  /\ sem' = UInt(sem - 1)
  /\ GoOn(t)
  /\ UNCHANGED overtaken

\* Mutant: the unit is passed to the thread notified, which decrements too.
SemPostPasses(t) ==
  /\ Runs(t)
  /\ sem' = IF Sleepers(Sem) = {} THEN UInt(sem + 1) ELSE sem
  /\ \E ts \in OneOf(Sem) : Notify(ts)
  /\ Overtake(Sem, sem + 1 = UIntSize)

sem_post(t) ==
  /\ Runs(t)
  /\ sem' = UInt(sem + 1)
  /\ \E ts \in OneOf(Sem) : Notify(ts)
  /\ Overtake(Sem, sem + 1 = UIntSize)

SemNext ==
  /\ \E t \in Thread : sem_wait(t) \/ SemWoken(t) \/ sem_post(t)
  /\ UNCHANGED <<mutexvars, barrier, rwvars>>
-----------------------------------------------------------------------------
SyncNext == MutexNext \/ BarrierNext \/ RwNext \/ SemNext

SyncSpec ==
  /\ SyncInit /\ asleep = [t \in Thread |-> Awake]
              /\ resume = [t \in Thread |-> Awake]
  /\ [][SyncNext]_<<syncvars, waiting>>
-----------------------------------------------------------------------------
(* What a symbolic region start assumes of an object of which it knows only  *)
(* that at least must and at most may threads wait on it.                    *)

mutex_init_symbolic(n, must, may) == must <= n /\ n <= may

\* Mutant: the bounds are swapped.
CondInitSwapped(n, must, may) == may <= n /\ n <= must

cond_init_symbolic(n, must, may) == must <= n /\ n <= may
-----------------------------------------------------------------------------
(* Properties *)

\* The values the fields may have.  The counters stay below the number of
\* threads, or of unsigned values, whatever the calls and their order.
SyncTypeOK ==
  /\ taken \in [Mutex -> BOOLEAN] /\ owner \in [Mutex -> Thread \cup {None}]
  /\ queued \in [Mutex -> Nat]
  /\ lockset \in [Thread -> SUBSET Mutex]
  /\ cond \in [mutex : Mutex \cup {None}, queued : Nat]
  /\ cmutex \in [Thread -> Mutex \cup {None}]
  /\ barrier \in 1 .. InitCount
  /\ rwlock \in [nr_readers : Nat, nr_readers_queued : Nat,
                 nr_writers_queued : Nat, writer : BOOLEAN]
  /\ rwheld \in [Thread -> {"not", "read", "write"}]
  /\ sem \in 0 .. UIntSize - 1
  /\ overtaken \subseteq {Lock(m) : m \in Mutex} \cup {RwLock, Sem}

\* The counters of an object say how many threads sleep on its lists.  The
\* notifiers rely on it: it is the expected_queue_size they hand to
\* klee_thread_notify, and "queued" is what a later mutex call waits for.
QueuesCounted ==
  /\ \A m \in Mutex : queued[m] = Cardinality(Sleepers(Lock(m)))
  /\ cond.queued = Cardinality(Sleepers(Cond))
  /\ barrier = InitCount - Cardinality(Sleepers(Barrier))
  /\ rwlock.nr_readers_queued = Cardinality(Sleepers(Readers))
  /\ rwlock.nr_writers_queued = Cardinality(Sleepers(Writers))

\* Where threads sleep on a mutex, somebody holds it or has been notified by it.
MutexServed ==
  \A m \in Mutex : Sleepers(Lock(m)) # {} => taken[m] \/ Notified(Lock(m)) # {}

\* The same for the read-write lock.
RwServed ==
  Sleepers(Readers) \cup Sleepers(Writers) # {} =>
    \/ rwlock.writer \/ rwlock.nr_readers # 0
    \/ Notified(Readers) \cup Notified(Writers) # {}

\* Never as many threads sleep at the barrier as it is for.
BarrierServed == Cardinality(Sleepers(Barrier)) < InitCount

\* Where threads sleep on the semaphore its units are as many as the threads it
\* has notified, unless a caller took a unit meant for one of these.
SemServed ==
  Sem \notin overtaken /\ Sleepers(Sem) # {} => sem = Cardinality(Notified(Sem))

\* No wake-up is lost, whatever the executor runs between a notification and
\* the notified thread: where threads sleep on a mutex or a read-write lock,
\* somebody holds it or has been notified by it and will pass it on; a barrier
\* releases its threads, and the units of a semaphore are on their way to sleepers.
NoLostWakeup == MutexServed /\ RwServed /\ BarrierServed /\ SemServed

\* The owner of a taken mutex is a thread that has been given it and has not
\* unlocked it, so the mutex can be freed again: atomic_mutex_unlock answers
\* EPERM to everybody else.
OwnerHolds ==
  \A m \in Mutex : taken[m] =>
    owner[m] \in Thread /\ m \in lockset[owner[m]]

\* All the threads that sleep in pthread_cond_wait gave the mutex that the
\* condition variable has recorded, also after a failed wait with another one.
CondMutexAgrees ==
  \A t \in Sleepers(Cond) : cmutex[t] = cond.mutex

\* Whatever the executor runs in between, a mutex is given to two threads only
\* after a caller has found it free that was on its way to a notified thread:
\* atomic_mutex_lock does not look at the mutex again after its sleep.
MutexExclusive ==
  \A m \in Mutex : Lock(m) \notin overtaken =>
    \A t, u \in Thread : m \in lockset[t] \cap lockset[u] => t = u

\* The same for the read-write lock, which has three such moments: a reader or a
\* writer that finds the lock free on its way to a notified thread, and an unlock
\* that notifies a writer although readers it has notified have yet to go on.
\* Until one of them is met, a writer excludes all others.
RwExclusive ==
  RwLock \notin overtaken =>
    \A t \in Thread : rwheld[t] = "write" =>
      \A u \in Thread \ {t} : rwheld[u] = "not"

\* The same for the semaphore: until a caller takes a unit meant for a notified
\* thread there is a unit for each of these, so that the unsigned count does not
\* wrap below zero when atomic_sem_down goes on after its sleep.
SemUnitsKept ==
  Sem \notin overtaken => Cardinality(Notified(Sem)) <= sem

\* A region that starts symbolically starts, among others, in the state the
\* program is really in: what mutex_init_symbolic and cond_init_symbolic assume
\* of queued holds for every bound on the waiting threads that is right.
SymbolicStartAdmits ==
  \A must, may \in 0 .. Cardinality(Thread) :
    /\ \A m \in Mutex :
         Cardinality(Sleepers(Lock(m))) \in must .. may =>
           mutex_init_symbolic(queued[m], must, may)
    /\ Cardinality(Sleepers(Cond)) \in must .. may =>
         cond_init_symbolic(cond.queued, must, may)
=============================================================================
