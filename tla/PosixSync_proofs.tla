-------------------------- MODULE PosixSync_proofs --------------------------
(***************************************************************************)
(* Proofs about the synchronisation objects of the symbolic POSIX layer, for *)
(* any number of threads and mutexes: mutexes, the condition variable, the   *)
(* barrier, the read-write lock and the semaphore, used side by side.        *)
(***************************************************************************)
EXTENDS PosixSync, FiniteSetTheorems, TLAPS

\* The waiting lists other than those of the mutexes.
OtherLists == {Cond, Barrier, Readers, Writers, Sem}

Lists == {Awake} \cup OtherLists \cup {Lock(m) : m \in Mutex}

MutexTyped ==
  /\ taken \in [Mutex -> BOOLEAN] /\ owner \in [Mutex -> Thread \cup {None}]
  /\ queued \in [Mutex -> Nat]
  /\ lockset \in [Thread -> SUBSET Mutex] /\ cmutex \in [Thread -> Mutex \cup {None}]
  /\ asleep \in [Thread -> Lists] /\ resume \in [Thread -> Lists]

\* A notified thread is off its list.
OffList == \A t \in Thread : asleep[t] = Awake \/ resume[t] = Awake

\* Who is in pthread_cond_wait has a mutex to take again.
CondHasMutex ==
  \A t \in Thread : asleep[t] = Cond \/ resume[t] = Cond => cmutex[t] \in Mutex

\* queued is the number of the threads that sleep on the mutex.
MutexCounted == \A m \in Mutex : queued[m] = Cardinality(Sleepers(Lock(m)))

\* Until a mutex is overtaken, who has been given it owns it, and a notified thread
\* finds it free and is the only one notified.
MutexGiven ==
  \A m \in Mutex : Lock(m) \notin overtaken =>
    /\ \A t \in Thread : m \in lockset[t] => taken[m] /\ owner[m] = t
    /\ \A t \in Thread : resume[t] = Lock(m) => ~taken[m]
    /\ \A t, u \in Thread : resume[t] = Lock(m) /\ resume[u] = Lock(m) => t = u

MutexInv ==
  /\ MutexTyped /\ OffList /\ CondHasMutex /\ MutexCounted
  /\ MutexServed /\ OwnerHolds /\ MutexGiven

-----------------------------------------------------------------------------

\* The waiting lists are distinct.
LEMMA ListsDiffer ==
  /\ Awake \notin OtherLists
  /\ \A m : Lock(m) # Awake /\ Lock(m) \notin OtherLists
  /\ \A m, n : Lock(m) = Lock(n) => m = n
  /\ Cond \notin {Barrier, Readers, Writers, Sem} /\ Cond \in OtherLists
  BY DEF Awake, OtherLists, Lock, Cond, Barrier, Readers, Writers, Sem

\* The names of the lists.
LEMMA ListsTyped ==
  Awake \in Lists /\ OtherLists \subseteq Lists /\ \A m \in Mutex : Lock(m) \in Lists
  BY DEF Lists

\* Finitely many threads sleep.
LEMMA SleepersFinite == \A list : IsFiniteSet(Sleepers(list))
<1>1. \A list : Sleepers(list) \subseteq Thread
  BY DEF Sleepers
<1> QED
  BY <1>1, FS_Subset, SyncConstants, Zenon

\* The lists after a step.
LEMMA ListsPrimed ==
  \A n : /\ Sleepers(Lock(n))' = {u \in Thread : asleep'[u] = Lock(n)}
         /\ Notified(Lock(n))' = {u \in Thread : resume'[u] = Lock(n)}
  BY DEF Sleepers, Notified, Lock

\* The initial state.
LEMMA SyncInitInv ==
  ASSUME SyncInit, asleep = [t \in Thread |-> Awake], resume = [t \in Thread |-> Awake]
  PROVE  MutexInv
<1>1. \A m : Sleepers(Lock(m)) = {}
  BY ListsDiffer DEF Sleepers
<1>2. MutexTyped
  BY ListsTyped DEF SyncInit, MutexTyped
<1>3. OffList /\ CondHasMutex /\ OwnerHolds /\ MutexGiven
  BY ListsDiffer DEF SyncInit, OffList, CondHasMutex, OwnerHolds, MutexGiven
<1>4. MutexCounted
  <2>1. \A m \in Mutex : queued[m] = 0
    BY DEF SyncInit
  <2>2. Cardinality({}) = 0
    BY FS_EmptySet
  <2> QED
    BY <1>1, <2>1, <2>2 DEF MutexCounted
<1>5. MutexServed
  BY <1>1 DEF MutexServed
<1> QED
  BY <1>2, <1>3, <1>4, <1>5 DEF MutexInv

\* What a call on another object may do to the waiting threads.
MovesOther ==
  \/ UNCHANGED waiting
  \/ \E t \in Thread, list \in {Barrier, Readers, Writers, Sem} : Runs(t) /\ Sleep(t, list)
  \/ \E ts \in SUBSET {t \in Thread : asleep[t] \in OtherLists} : Notify(ts)
  \/ \E t \in Thread : resume[t] \in OtherLists /\ GoOn(t)

\* Such a step leaves the mutexes' lists alone.
LEMMA OtherListsKept ==
  ASSUME MutexInv, MovesOther
  PROVE  /\ asleep' \in [Thread -> Lists] /\ resume' \in [Thread -> Lists] /\ OffList'
         /\ \A t \in Thread : \A m \in Mutex : /\ asleep'[t] = Lock(m) <=> asleep[t] = Lock(m)
                                               /\ resume'[t] = Lock(m) <=> resume[t] = Lock(m)
         /\ \A t \in Thread : asleep'[t] = Cond \/ resume'[t] = Cond
                              => asleep[t] = Cond \/ resume[t] = Cond
<1> USE ListsDiffer, ListsTyped DEF MutexInv, MutexTyped, OffList
<1>1. CASE UNCHANGED waiting
  BY <1>1 DEF waiting
<1>2. CASE \E t \in Thread, list \in {Barrier, Readers, Writers, Sem} : Runs(t) /\ Sleep(t, list)
  <2>1. PICK t \in Thread, list \in {Barrier, Readers, Writers, Sem} : Runs(t) /\ Sleep(t, list)
    BY <1>2
  <2>2. list \in OtherLists /\ list # Cond
    BY <2>1 DEF OtherLists
  <2> QED
    BY <2>1, <2>2 DEF Runs, Sleep
<1>3. CASE \E ts \in SUBSET {t \in Thread : asleep[t] \in OtherLists} : Notify(ts)
  BY <1>3 DEF Notify
<1>4. CASE \E t \in Thread : resume[t] \in OtherLists /\ GoOn(t)
  BY <1>4 DEF GoOn
<1> QED
  BY <1>1, <1>2, <1>3, <1>4 DEF MovesOther

\* Such a step keeps the invariant.
LEMMA OtherInv ==
  ASSUME MutexInv, MovesOther, UNCHANGED <<taken, owner, queued, lockset, cmutex>>,
         overtaken \subseteq overtaken'
  PROVE  MutexInv'
<1>1. \A m \in Mutex : Sleepers(Lock(m))' = Sleepers(Lock(m))
                       /\ Notified(Lock(m))' = Notified(Lock(m))
  BY OtherListsKept DEF Sleepers, Notified, Lock
<1>2. MutexTyped' /\ OffList' /\ CondHasMutex'
  BY OtherListsKept DEF MutexInv, MutexTyped, CondHasMutex
<1>3. MutexCounted' /\ MutexServed'
  BY <1>1 DEF MutexInv, MutexCounted, MutexServed
<1>4. OwnerHolds' /\ MutexGiven'
  BY OtherListsKept DEF MutexInv, OwnerHolds, MutexGiven, Lock
<1> QED
  BY <1>2, <1>3, <1>4 DEF MutexInv

\* A thread takes a mutex, at once or after its sleep.
LEMMA TakeInv ==
  ASSUME MutexInv, NEW t \in Thread, NEW m \in Mutex, TakeMutex(t, m),
         overtaken \subseteq overtaken',
         resume[t] \in {Awake, Cond, Lock(m)},
         Lock(m) \notin overtaken' => ~taken[m] /\ \A u \in Thread \ {t} : resume[u] # Lock(m),
         cmutex' \in [Thread -> Mutex \cup {None}],
         \A u \in Thread \ {t} : cmutex'[u] = cmutex[u],
         resume[t] = Awake => cmutex'[t] = cmutex[t]
  PROVE  MutexInv'
<1>1. /\ taken' = [taken EXCEPT ![m] = TRUE] /\ owner' = [owner EXCEPT ![m] = t]
      /\ lockset' = [lockset EXCEPT ![t] = @ \cup {m}]
      /\ resume' = [resume EXCEPT ![t] = Awake] /\ UNCHANGED <<asleep, queued>>
  BY DEF TakeMutex, GoOn
<1>2. MutexTyped'
  BY <1>1, ListsTyped DEF MutexInv, MutexTyped
<1>3. OffList'
  BY <1>1 DEF MutexInv, MutexTyped, OffList
<1>4. CondHasMutex'
  <2>1. Awake # Cond
    BY ListsDiffer
  <2>2. asleep[t] = Cond => resume[t] = Awake
    BY <2>1 DEF MutexInv, OffList
  <2> QED
    BY <1>1, <2>1, <2>2 DEF MutexInv, MutexTyped, CondHasMutex
<1>9. \A n \in Mutex : Sleepers(Lock(n))' = Sleepers(Lock(n))
  BY <1>1, ListsPrimed DEF Sleepers
<1>5. MutexCounted'
  BY <1>1, <1>9 DEF MutexInv, MutexCounted
<1>6. MutexServed'
  <2>1. ASSUME NEW n \in Mutex, n # m
        PROVE  Notified(Lock(n)) \subseteq Notified(Lock(n))' /\ taken'[n] = taken[n]
    <3>1. resume[t] # Lock(n)
      BY <2>1, ListsDiffer
    <3> QED
      BY <1>1, <2>1, <3>1, ListsPrimed DEF MutexInv, MutexTyped, Notified
  <2>2. taken'[m]
    BY <1>1 DEF MutexInv, MutexTyped
  <2> QED
    BY <1>9, <2>1, <2>2 DEF MutexInv, MutexServed
<1>7. OwnerHolds'
  BY <1>1 DEF MutexInv, MutexTyped, OwnerHolds
<1>8. MutexGiven'
  BY <1>1, ListsDiffer DEF MutexInv, MutexTyped, MutexGiven
<1> QED
  BY <1>2, <1>3, <1>4, <1>5, <1>6, <1>7, <1>8 DEF MutexInv

\* A thread queues up for a mutex.
LEMMA QueueInv ==
  ASSUME MutexInv, NEW t \in Thread, NEW m \in Mutex, MustWait(m),
         overtaken \subseteq overtaken',
         queued' = [queued EXCEPT ![m] = @ + 1], Sleep(t, Lock(m)),
         UNCHANGED <<taken, owner, lockset>>,
         asleep[t] = Awake, resume[t] \in {Awake, Cond},
         cmutex' \in [Thread -> Mutex \cup {None}],
         \A u \in Thread \ {t} : cmutex'[u] = cmutex[u]
  PROVE  MutexInv'
<1>1. asleep' = [asleep EXCEPT ![t] = Lock(m)] /\ resume' = [resume EXCEPT ![t] = Awake]
  BY DEF Sleep
<1>2. MutexTyped'
  BY <1>1, ListsTyped DEF MutexInv, MutexTyped
<1>3. OffList' /\ CondHasMutex'
  BY <1>1, ListsDiffer DEF MutexInv, MutexTyped, OffList, CondHasMutex
<1>4. /\ Sleepers(Lock(m))' = Sleepers(Lock(m)) \cup {t} /\ t \notin Sleepers(Lock(m))
      /\ \A n \in Mutex \ {m} : Sleepers(Lock(n))' = Sleepers(Lock(n))
  BY <1>1, ListsDiffer DEF MutexInv, MutexTyped, Sleepers, Lock
<1>5. MutexCounted'
  <2>1. Cardinality(Sleepers(Lock(m)) \cup {t}) = Cardinality(Sleepers(Lock(m))) + 1
    BY <1>4, SleepersFinite, FS_AddElement, Zenon
  <2>2. \A n \in Mutex : queued[n] = Cardinality(Sleepers(Lock(n))) /\ queued[n] \in Nat
    BY DEF MutexInv, MutexTyped, MutexCounted
  <2>3. queued'[m] = Cardinality(Sleepers(Lock(m))')
    BY <1>4, <2>1, <2>2 DEF MutexInv, MutexTyped
  <2>4. \A n \in Mutex \ {m} : queued'[n] = Cardinality(Sleepers(Lock(n))')
    BY <1>4, <2>2 DEF MutexInv, MutexTyped
  <2> QED
    BY <2>3, <2>4 DEF MutexCounted
<1>6. MutexServed'
  <2>1. \A n \in Mutex : Notified(Lock(n))' = Notified(Lock(n))
    BY <1>1, ListsDiffer DEF MutexInv, MutexTyped, Notified, Lock
  <2>2. taken[m] \/ Sleepers(Lock(m)) # {}
    <3>1. Cardinality({}) = 0
      BY FS_EmptySet
    <3> QED
      BY <3>1 DEF MustWait, MutexInv, MutexCounted
  <2> QED
    BY <1>4, <2>1, <2>2 DEF MutexInv, MutexServed
<1>7. OwnerHolds' /\ MutexGiven'
  BY <1>1, ListsDiffer DEF MutexInv, MutexTyped, OwnerHolds, MutexGiven
<1> QED
  BY <1>2, <1>3, <1>5, <1>6, <1>7 DEF MutexInv

\* The owner frees a mutex, notifies one of its list, and perhaps goes to sleep on the
\* condition variable.
LEMMA ReleaseInv ==
  ASSUME MutexInv, NEW t \in Thread, NEW m \in Mutex, ReleaseMutex(t, m),
         asleep[t] = Awake, resume[t] = Awake,
         NEW ts \in ReleasedTo(m),
         NEW list \in {Awake, Cond},
         asleep' = [u \in Thread |-> IF u = t THEN list ELSE IF u \in ts THEN Awake ELSE asleep[u]],
         resume' = [u \in Thread |-> IF u \in ts THEN asleep[u] ELSE resume[u]],
         cmutex' \in [Thread -> Mutex \cup {None}],
         \A u \in Thread \ {t} : cmutex'[u] = cmutex[u],
         list = Cond => cmutex'[t] \in Mutex
  PROVE  MutexInv'
<1>1. /\ taken[m] /\ owner[m] = t
      /\ taken' = [taken EXCEPT ![m] = FALSE] /\ UNCHANGED <<owner, overtaken>>
      /\ queued' = [queued EXCEPT ![m] = IF @ > 0 THEN @ - 1 ELSE @]
      /\ lockset' = [lockset EXCEPT ![t] = @ \ {m}]
  BY DEF ReleaseMutex, Owns
<1>2. \A n \in Mutex : queued[n] = Cardinality(Sleepers(Lock(n))) /\ queued[n] \in Nat
  BY DEF MutexInv, MutexTyped, MutexCounted
<1>3. queued[m] = 0 <=> Sleepers(Lock(m)) = {}
  BY <1>2, SleepersFinite, FS_EmptySet, Zenon
<1>4. \/ Sleepers(Lock(m)) = {} /\ ts = {}
      \/ queued[m] > 0 /\ \E x \in Sleepers(Lock(m)) : ts = {x}
  BY <1>2, <1>3 DEF ReleasedTo, OneOf
<1>5. t \notin ts /\ \A u \in ts : u \in Thread /\ asleep[u] = Lock(m)
  BY <1>4, ListsDiffer DEF Sleepers
<1>6. \A u \in ts : resume[u] = Awake
  BY <1>5, ListsDiffer DEF MutexInv, OffList
<1>7. MutexTyped'
  BY <1>1, <1>2, ListsTyped, ListsDiffer DEF MutexInv, MutexTyped
<1>8. OffList'
  BY <1>5, <1>6 DEF MutexInv, OffList
<1>9. CondHasMutex'
  BY <1>5, ListsDiffer DEF MutexInv, CondHasMutex
<1>10. Sleepers(Lock(m))' = Sleepers(Lock(m)) \ ts
  BY <1>5, ListsPrimed, ListsDiffer DEF Sleepers
<1>11. ASSUME NEW n \in Mutex, n # m
       PROVE  Sleepers(Lock(n))' = Sleepers(Lock(n)) /\ Notified(Lock(n))' = Notified(Lock(n))
  <2>1. Lock(n) # Lock(m) /\ Lock(n) # Awake /\ Lock(n) # Cond
    BY <1>11, ListsDiffer
  <2> QED
    BY <1>5, <1>6, <2>1, ListsPrimed DEF Sleepers, Notified
<1>12. MutexCounted'
  <2>1. queued'[m] = Cardinality(Sleepers(Lock(m))')
    <3>0. queued'[m] = IF queued[m] > 0 THEN queued[m] - 1 ELSE queued[m]
      BY <1>1 DEF MutexInv, MutexTyped
    <3>1. CASE Sleepers(Lock(m)) = {} /\ ts = {}
      <4>1. Sleepers(Lock(m))' = Sleepers(Lock(m))
        BY <1>10, <3>1
      <4>2. queued'[m] = queued[m]
        BY <1>2, <1>3, <3>0, <3>1
      <4> QED
        BY <1>2, <4>1, <4>2
    <3>2. CASE queued[m] > 0 /\ \E x \in Sleepers(Lock(m)) : ts = {x}
      <4>1. PICK x \in Sleepers(Lock(m)) : ts = {x}
        BY <3>2
      <4>2. Cardinality(Sleepers(Lock(m)) \ {x}) = Cardinality(Sleepers(Lock(m))) - 1
        BY <4>1, SleepersFinite, FS_RemoveElement, Zenon
      <4>3. Sleepers(Lock(m))' = Sleepers(Lock(m)) \ {x}
        BY <1>10, <4>1
      <4>4. queued'[m] = queued[m] - 1
        BY <3>0, <3>2
      <4> QED
        BY <1>2, <4>2, <4>3, <4>4
    <3> QED
      BY <1>4, <3>1, <3>2
  <2>2. \A n \in Mutex \ {m} : queued'[n] = Cardinality(Sleepers(Lock(n))')
    BY ZenonT(60), <1>1, <1>2, <1>11 DEF MutexInv, MutexTyped
  <2> QED
    BY <2>1, <2>2 DEF MutexCounted
<1>13. MutexServed'
  <2>1. Sleepers(Lock(m))' # {} => Notified(Lock(m))' # {}
    <3>1. Sleepers(Lock(m))' # {} => \E x \in ts : TRUE
      BY <1>4, <1>10
    <3>2. \A x \in ts : x \in Notified(Lock(m))'
      BY <1>5, ListsPrimed
    <3> QED
      BY <3>1, <3>2
  <2>2. \A n \in Mutex \ {m} : taken'[n] = taken[n]
    BY <1>1 DEF MutexInv, MutexTyped
  <2> QED
    BY <1>11, <2>1, <2>2 DEF MutexInv, MutexServed
<1>14. OwnerHolds'
  BY ZenonT(60), <1>1 DEF MutexInv, MutexTyped, OwnerHolds
<1>15. MutexGiven'
  <2> SUFFICES ASSUME NEW n \in Mutex, Lock(n) \notin overtaken
               PROVE  /\ \A u \in Thread : n \in lockset'[u] => taken'[n] /\ owner'[n] = u
                      /\ \A u \in Thread : resume'[u] = Lock(n) => ~taken'[n]
                      /\ \A u, v \in Thread : resume'[u] = Lock(n) /\ resume'[v] = Lock(n) => u = v
    BY ZenonT(60), <1>1 DEF MutexGiven, Lock
  <2>1. /\ \A u \in Thread : n \in lockset[u] => taken[n] /\ owner[n] = u
        /\ \A u \in Thread : resume[u] = Lock(n) => ~taken[n]
        /\ \A u, v \in Thread : resume[u] = Lock(n) /\ resume[v] = Lock(n) => u = v
    BY DEF MutexInv, MutexGiven
  <2>2. CASE n = m
    <3>1. \A u \in Thread : resume[u] # Lock(m)
      BY <1>1, <2>1, <2>2
    <3>2. \A u, v \in ts : u = v
      BY <1>4
    <3>3. \A u \in Thread : resume'[u] = Lock(m) => u \in ts
      BY <3>1
    <3>4. ~taken'[m] /\ \A u \in Thread : m \notin lockset'[u]
      BY <1>1, <2>1, <2>2 DEF MutexInv, MutexTyped
    <3> QED
      BY <2>2, <3>2, <3>3, <3>4
  <2>3. CASE n # m
    <3>1. \A u \in Thread : resume'[u] = Lock(n) => resume[u] = Lock(n)
      BY <1>5, <2>3, ListsDiffer
    <3> QED
      BY ZenonT(60), <1>1, <2>1, <2>3, <3>1 DEF MutexInv, MutexTyped
  <2> QED
    BY ZenonT(60), <2>2, <2>3
<1> QED
  BY <1>7, <1>8, <1>9, <1>12, <1>13, <1>14, <1>15 DEF MutexInv

-----------------------------------------------------------------------------

\* What has been overtaken stays so.
LEMMA OvertakenGrows == SyncNext => overtaken \subseteq overtaken'
<1>1. MutexNext => overtaken \subseteq overtaken'
  BY ZenonT(60) DEF MutexNext, pthread_mutex_lock, LockWoken, pthread_mutex_unlock, pthread_cond_wait,
     CondWoken, pthread_cond_signal, pthread_cond_broadcast, MutexLock, ReleaseMutex, Overtake
<1>2. BarrierNext => overtaken \subseteq overtaken'
  BY Zenon DEF BarrierNext
<1>3. RwNext => overtaken \subseteq overtaken'
  BY Zenon DEF RwNext, pthread_rwlock_rdlock, ReaderWoken, pthread_rwlock_wrlock, WriterWoken,
     pthread_rwlock_unlock, WakeWriter, WakeReaders, Overtake
<1>4. SemNext => overtaken \subseteq overtaken'
  BY Zenon DEF SemNext, sem_wait, SemWoken, sem_post, Overtake
<1> QED
  BY <1>1, <1>2, <1>3, <1>4, Zenon DEF SyncNext

\* The calls on the other objects leave the mutexes alone.
LEMMA OthersMove ==
  ASSUME MutexInv, BarrierNext \/ RwNext \/ SemNext
  PROVE  /\ MovesOther /\ UNCHANGED <<taken, owner, queued, lockset, cmutex>>
         /\ overtaken \subseteq overtaken'
<1>g. overtaken \subseteq overtaken'
  BY OvertakenGrows, Zenon DEF SyncNext
<1>1. \A list \in OtherLists : Sleepers(list) \in SUBSET {t \in Thread : asleep[t] \in OtherLists}
  BY DEF Sleepers
<1>2. \A list \in OtherLists : \A ts \in OneOf(list) :
        ts \in SUBSET {t \in Thread : asleep[t] \in OtherLists}
  BY <1>1 DEF OneOf
<1>3. {Barrier, Readers, Writers, Sem} \subseteq OtherLists
  BY DEF OtherLists
<1>7. \A t \in Thread : Runs(t) /\ GoOn(t) => UNCHANGED waiting
  BY ZenonT(60) DEF Runs, GoOn, waiting, MutexInv, MutexTyped
<1>4. CASE BarrierNext
  BY <1>g, <1>1, <1>3, <1>4 DEF BarrierNext, pthread_barrier_wait, BarrierWoken, NotifyAll, MovesOther,
     mutexvars
<1>5. CASE RwNext
  <2>1. PICK t \in Thread : \/ pthread_rwlock_rdlock(t) \/ ReaderWoken(t)
                            \/ pthread_rwlock_wrlock(t) \/ WriterWoken(t)
                            \/ pthread_rwlock_unlock(t)
    BY <1>5 DEF RwNext
  <2>2. ASSUME pthread_rwlock_rdlock(t) PROVE MovesOther
    <3>1. Runs(t) /\ (GoOn(t) \/ Sleep(t, Readers))
      BY <2>2 DEF pthread_rwlock_rdlock, AddReader
    <3>2. Readers \in {Barrier, Readers, Writers, Sem}
      OBVIOUS
    <3> QED
      BY <1>7, <3>1, <3>2, Zenon DEF MovesOther
  <2>3. ASSUME pthread_rwlock_wrlock(t) PROVE MovesOther
    <3>1. Runs(t) /\ (GoOn(t) \/ Sleep(t, Writers))
      BY <2>3 DEF pthread_rwlock_wrlock, SetWriter
    <3>2. Writers \in {Barrier, Readers, Writers, Sem}
      OBVIOUS
    <3> QED
      BY <1>7, <3>1, <3>2, Zenon DEF MovesOther
  <2>4. ASSUME ReaderWoken(t) \/ WriterWoken(t) PROVE MovesOther
    <3>1. resume[t] \in OtherLists /\ GoOn(t)
      BY <1>3, <2>4 DEF ReaderWoken, WriterWoken, AddReader, SetWriter
    <3> QED
      BY <3>1, Zenon DEF MovesOther
  <2>5. ASSUME pthread_rwlock_unlock(t) PROVE MovesOther
    <3>1. UNCHANGED waiting \/ WakeWriter \/ WakeReaders
      BY <2>5 DEF pthread_rwlock_unlock
    <3>2. UNCHANGED waiting \/ \E ts \in OneOf(Writers) \cup {Sleepers(Readers)} : Notify(ts)
      BY <3>1 DEF WakeWriter, WakeReaders, NotifyAll
    <3>3. \A ts \in OneOf(Writers) \cup {Sleepers(Readers)} :
            ts \in SUBSET {u \in Thread : asleep[u] \in OtherLists}
      BY <1>1, <1>2, <1>3
    <3> QED
      BY <3>2, <3>3, Zenon DEF MovesOther
  <2>6. MovesOther
    BY ZenonT(60), <2>1, <2>2, <2>3, <2>4, <2>5
  <2> QED
    BY <1>g, <1>5, <2>6 DEF RwNext, mutexvars
<1>6. CASE SemNext
  BY ZenonT(60), <1>g, <1>2, <1>3, <1>6 DEF SemNext, sem_wait, SemWoken, sem_post, MovesOther, mutexvars
<1> QED
  BY <1>4, <1>5, <1>6

\* atomic_mutex_lock, by a thread that runs or has left the condition variable's list.
LEMMA LockInv ==
  ASSUME MutexInv, NEW t \in Thread, NEW m \in Mutex, MutexLock(t, m),
         overtaken \subseteq overtaken',
         asleep[t] = Awake, resume[t] \in {Awake, Cond},
         cmutex' \in [Thread -> Mutex \cup {None}],
         \A u \in Thread \ {t} : cmutex'[u] = cmutex[u],
         resume[t] = Awake => cmutex'[t] = cmutex[t]
  PROVE  MutexInv'
<1>1. CASE /\ ~MustWait(m)
           /\ TakeMutex(t, m)
           /\ Overtake(Lock(m), Notified(Lock(m)) # {})
  <2>1. Lock(m) \notin overtaken' => ~taken[m] /\ \A u \in Thread \ {t} : resume[u] # Lock(m)
    BY <1>1 DEF MustWait, Overtake, Notified
  <2>2. resume[t] \in {Awake, Cond, Lock(m)}
    OBVIOUS
  <2>3. TakeMutex(t, m)
    BY <1>1
  <2> QED
    BY <2>1, <2>2, <2>3, TakeInv, Zenon
<1>2. CASE /\ MustWait(m)
           /\ queued' = [queued EXCEPT ![m] = @ + 1]
           /\ Sleep(t, Lock(m))
           /\ UNCHANGED <<taken, owner, lockset, overtaken>>
  BY <1>2, QueueInv, Zenon
<1> QED
  BY <1>1, <1>2 DEF MutexLock

\* Every call on a mutex or on the condition variable.
LEMMA MutexNextInv ==
  ASSUME MutexInv, MutexNext
  PROVE  MutexInv'
<1>0. cmutex \in [Thread -> Mutex \cup {None}] /\ overtaken \subseteq overtaken'
  BY OvertakenGrows DEF MutexInv, MutexTyped, SyncNext
<1>1. ASSUME NEW t \in Thread, NEW m \in Mutex, pthread_mutex_lock(t, m)
      PROVE  MutexInv'
  <2>1. /\ MutexLock(t, m) /\ asleep[t] = Awake /\ resume[t] \in {Awake, Cond}
        /\ cmutex' = cmutex
    BY <1>1 DEF pthread_mutex_lock, Runs
  <2>2. /\ cmutex' \in [Thread -> Mutex \cup {None}]
        /\ \A u \in Thread \ {t} : cmutex'[u] = cmutex[u]
        /\ resume[t] = Awake => cmutex'[t] = cmutex[t]
    BY <1>0, <2>1
  <2> QED
    BY <1>0, <2>1, <2>2, LockInv, ZenonT(60)
<1>2. ASSUME NEW t \in Thread, NEW m \in Mutex, LockWoken(t, m)
      PROVE  MutexInv'
  <2>1. /\ TakeMutex(t, m) /\ resume[t] = Lock(m) /\ cmutex' = cmutex
        /\ overtaken' = overtaken
    BY <1>2 DEF LockWoken
  <2>2. /\ cmutex' \in [Thread -> Mutex \cup {None}]
        /\ \A u \in Thread \ {t} : cmutex'[u] = cmutex[u]
        /\ resume[t] = Awake => cmutex'[t] = cmutex[t]
        /\ resume[t] \in {Awake, Cond, Lock(m)}
    BY <1>0, <2>1
  <2>3. Lock(m) \notin overtaken' => ~taken[m] /\ \A u \in Thread \ {t} : resume[u] # Lock(m)
    BY <2>1 DEF MutexInv, MutexGiven
  <2> QED
    BY <1>0, <2>1, <2>2, <2>3, TakeInv, Zenon
<1>3. ASSUME NEW t \in Thread, NEW m \in Mutex, pthread_mutex_unlock(t, m)
      PROVE  MutexInv'
  <2>1. /\ asleep[t] = Awake /\ resume[t] = Awake
        /\ ReleaseMutex(t, m) /\ cmutex' = cmutex
    BY <1>3 DEF pthread_mutex_unlock, Runs
  <2>2. PICK ts \in ReleasedTo(m) : Notify(ts)
    BY <1>3 DEF pthread_mutex_unlock
  <2>3. /\ asleep' = [u \in Thread |-> IF u = t THEN Awake
                                       ELSE IF u \in ts THEN Awake ELSE asleep[u]]
        /\ resume' = [u \in Thread |-> IF u \in ts THEN asleep[u] ELSE resume[u]]
    BY <2>1, <2>2 DEF Notify
  <2>4. /\ cmutex' \in [Thread -> Mutex \cup {None}]
        /\ \A u \in Thread \ {t} : cmutex'[u] = cmutex[u]
        /\ Awake \in {Awake, Cond} /\ (Awake = Cond => cmutex'[t] \in Mutex)
    BY <1>0, <2>1, ListsDiffer
  <2> QED
    BY <1>0, <2>1, <2>2, <2>3, <2>4, ReleaseInv, ZenonT(60)
<1>4. ASSUME NEW t \in Thread, NEW m \in Mutex, pthread_cond_wait(t, m)
      PROVE  MutexInv'
  <2>1. asleep[t] = Awake /\ resume[t] = Awake
    BY <1>4 DEF pthread_cond_wait, Runs
  <2>2. CASE /\ ReleaseMutex(t, m)
             /\ cmutex' = [cmutex EXCEPT ![t] = m]
             /\ \E ts \in ReleasedTo(m) : NotifyThenSleep(ts, t, Cond)
    <3>1. PICK ts \in ReleasedTo(m) : NotifyThenSleep(ts, t, Cond)
      BY <2>2
    <3>2. /\ asleep' = [u \in Thread |-> IF u = t THEN Cond
                                         ELSE IF u \in ts THEN Awake ELSE asleep[u]]
          /\ resume' = [u \in Thread |-> IF u \in ts THEN asleep[u] ELSE resume[u]]
      BY <3>1 DEF NotifyThenSleep
    <3>3. /\ cmutex' \in [Thread -> Mutex \cup {None}]
          /\ \A u \in Thread \ {t} : cmutex'[u] = cmutex[u]
          /\ Cond \in {Awake, Cond} /\ (Cond = Cond => cmutex'[t] \in Mutex)
      BY <1>0, <2>2
    <3>4. ReleaseMutex(t, m)
      BY <2>2
    <3> QED
      BY <1>0, <2>1, <3>1, <3>2, <3>3, <3>4, ReleaseInv, Zenon
  <2>3. CASE UNCHANGED <<taken, owner, queued, lockset, cmutex, waiting, overtaken>>
    BY <1>0, <2>3, OtherInv DEF MovesOther
  <2> QED
    BY <1>4, <2>2, <2>3 DEF pthread_cond_wait
<1>5. ASSUME NEW t \in Thread, CondWoken(t)
      PROVE  MutexInv'
  <2>1. /\ MutexLock(t, cmutex[t]) /\ resume[t] = Cond
        /\ cmutex' = [cmutex EXCEPT ![t] = None]
    BY <1>5 DEF CondWoken
  <2>2. cmutex[t] \in Mutex /\ asleep[t] = Awake /\ resume[t] # Awake
    BY <2>1, ListsDiffer DEF MutexInv, CondHasMutex, OffList
  <2>3. /\ cmutex' \in [Thread -> Mutex \cup {None}]
        /\ \A u \in Thread \ {t} : cmutex'[u] = cmutex[u]
        /\ resume[t] = Awake => cmutex'[t] = cmutex[t]
        /\ resume[t] \in {Awake, Cond}
    BY <1>0, <2>1, <2>2
  <2> QED
    BY <1>0, <2>1, <2>2, <2>3, LockInv, Zenon
<1>6. ASSUME NEW t \in Thread, pthread_cond_signal(t) \/ pthread_cond_broadcast(t)
      PROVE  MutexInv'
  <2>1. \A ts \in OneOf(Cond) \cup {Sleepers(Cond)} :
          ts \in SUBSET {u \in Thread : asleep[u] \in OtherLists}
    BY ListsDiffer DEF OneOf, Sleepers
  <2>2. MovesOther
    BY <1>6, <2>1 DEF pthread_cond_signal, pthread_cond_broadcast, NotifyAll, MovesOther
  <2>3. UNCHANGED <<taken, owner, queued, lockset, cmutex>> /\ overtaken \subseteq overtaken'
    BY <1>0, <1>6 DEF pthread_cond_signal, pthread_cond_broadcast
  <2> QED
    BY <2>2, <2>3, OtherInv
<1> QED
  BY <1>1, <1>2, <1>3, <1>4, <1>5, <1>6 DEF MutexNext

\* The inductive invariant holds in every state.
LEMMA MutexInvariant == SyncSpec => []MutexInv
<1>1. SyncInit /\ asleep = [t \in Thread |-> Awake] /\ resume = [t \in Thread |-> Awake] => MutexInv
  BY SyncInitInv
<1>2. MutexInv /\ [SyncNext]_<<syncvars, waiting>> => MutexInv'
  <2> SUFFICES ASSUME MutexInv, [SyncNext]_<<syncvars, waiting>>
               PROVE  MutexInv'
    OBVIOUS
  <2>1. CASE MutexNext
    BY <2>1, MutexNextInv
  <2>2. CASE BarrierNext \/ RwNext \/ SemNext
    BY <2>2, OthersMove, OtherInv
  <2>3. CASE UNCHANGED <<syncvars, waiting>>
    BY <2>3, OtherInv DEF MovesOther, syncvars, mutexvars
  <2> QED
    BY <2>1, <2>2, <2>3 DEF SyncNext
<1> QED
  BY <1>1, <1>2, PTL DEF SyncSpec

\* Whatever the executor's schedule, the owner of a taken mutex has been given it, so
\* that it can be freed again, where threads sleep on a mutex somebody holds it or has
\* been notified, and two threads are given a mutex only after a caller has found it
\* free on its way to a notified thread (atomic_mutex_lock, atomic_mutex_unlock,
\* atomic_cond_wait).
THEOREM MutexSafe == SyncSpec => [](OwnerHolds /\ MutexServed /\ MutexExclusive)
<1>1. MutexInv => MutexExclusive
  BY Zenon DEF MutexInv, MutexGiven, MutexExclusive
<1>2. MutexInv => OwnerHolds /\ MutexServed
  BY DEF MutexInv
<1> QED
  BY <1>1, <1>2, MutexInvariant, PTL

-----------------------------------------------------------------------------
(* The other objects.  Their invariants speak of the lists only through       *)
(* Sleepers and Notified, so a step that keeps these sets keeps them.         *)

WaitTyped == asleep \in [Thread -> Lists] /\ resume \in [Thread -> Lists] /\ OffList

Kept(list) == Sleepers(list)' = Sleepers(list) /\ Notified(list)' = Notified(list)

\* A thread that is not asleep goes to sleep on a list.
LEMMA SleepMoves ==
  ASSUME WaitTyped, NEW t \in Thread, asleep[t] = Awake, NEW K \in Lists, Sleep(t, K),
         NEW L \in Lists, L # Awake
  PROVE  /\ Sleepers(L)' = IF L = K THEN Sleepers(L) \cup {t} ELSE Sleepers(L)
         /\ Notified(L)' = Notified(L) \ {t}
  BY DEF WaitTyped, Sleep, Sleepers, Notified

\* Some threads of a list are notified.
LEMMA NotifyMoves ==
  ASSUME WaitTyped, NEW K \in Lists, K # Awake, NEW ts \in SUBSET Sleepers(K), Notify(ts),
         NEW L \in Lists, L # Awake
  PROVE  /\ Sleepers(L)' = Sleepers(L) \ ts
         /\ Notified(L)' = IF L = K THEN Notified(L) \cup ts ELSE Notified(L)
         /\ L # K => Sleepers(L) \ ts = Sleepers(L)
<1>1. \A u \in ts : u \in Thread /\ asleep[u] = K /\ resume[u] = Awake
  BY DEF Sleepers, WaitTyped, OffList
<1> QED
  BY <1>1 DEF WaitTyped, Notify, Sleepers, Notified

\* A notified thread goes on.
LEMMA GoOnMoves ==
  ASSUME WaitTyped, NEW t \in Thread, GoOn(t), NEW L \in Lists, L # Awake
  PROVE  Sleepers(L)' = Sleepers(L) /\ Notified(L)' = Notified(L) \ {t}
  BY DEF WaitTyped, GoOn, Sleepers, Notified

\* Some threads of a list are notified, and a running one goes to sleep on another.
LEMMA NotifyThenSleepMoves ==
  ASSUME WaitTyped, NEW t \in Thread, Runs(t),
         NEW K \in Lists, K # Awake, NEW ts \in SUBSET Sleepers(K),
         NEW J \in Lists, J # K, NotifyThenSleep(ts, t, J), NEW L \in Lists, L # Awake, L # K
  PROVE  /\ Sleepers(L)' = IF L = J THEN Sleepers(L) \cup {t} ELSE Sleepers(L)
         /\ Notified(L)' = Notified(L)
<1>1. \A u \in ts : u \in Thread /\ asleep[u] = K /\ resume[u] = Awake
  BY DEF Sleepers, WaitTyped, OffList
<1> QED
  BY <1>1 DEF WaitTyped, NotifyThenSleep, Runs, Sleepers, Notified

\* More on the names of the lists.
LEMMA ObjectLists ==
  /\ {Cond, Barrier, Readers, Writers, Sem} \subseteq Lists
  /\ Barrier # Awake /\ Readers # Awake /\ Writers # Awake /\ Sem # Awake /\ Cond # Awake
  /\ Barrier \notin {Cond, Readers, Writers, Sem} /\ Readers \notin {Cond, Barrier, Writers, Sem}
  /\ Writers \notin {Cond, Barrier, Readers, Sem} /\ Sem \notin {Cond, Barrier, Readers, Writers}
  /\ Cond \notin {Barrier, Readers, Writers, Sem}
  BY ListsTyped DEF Awake, OtherLists, Cond, Barrier, Readers, Writers, Sem

\* Whom a notification wakes sleeps on the list.
LEMMA OneOfSleeps ==
  ASSUME NEW K, NEW ts \in OneOf(K)
  PROVE  ts \in SUBSET Sleepers(K) /\ (Sleepers(K) # {} => \E u \in Sleepers(K) : ts = {u})
  BY DEF OneOf

\* The same for a mutex that is unlocked.
LEMMA ReleasedSleeps ==
  ASSUME NEW m, NEW ts \in ReleasedTo(m)
  PROVE  ts \in SUBSET Sleepers(Lock(m))
  BY OneOfSleeps DEF ReleasedTo

\* The mutex calls leave every list alone that is neither the mutex's nor, in
\* pthread_cond_wait, the condition variable's.
LEMMA LockLists ==
  ASSUME WaitTyped, NEW t \in Thread, NEW m \in Mutex, asleep[t] = Awake, MutexLock(t, m),
         NEW L \in OtherLists
  PROVE  Sleepers(L)' = Sleepers(L) /\ Notified(L)' = Notified(L) \ {t}
<1>1. L \in Lists /\ L # Awake /\ Lock(m) \in Lists /\ L # Lock(m)
  BY ListsDiffer, ListsTyped, Zenon
<1>2. CASE TakeMutex(t, m)
  <2>1. GoOn(t)
    BY <1>2 DEF TakeMutex
  <2> QED
    BY <1>1, <2>1, GoOnMoves, Zenon
<1>3. CASE Sleep(t, Lock(m))
  BY <1>1, <1>3, SleepMoves
<1> QED
  BY <1>2, <1>3 DEF MutexLock

\* Releasing a mutex leaves the other lists as they are (_mutex_unlock).
LEMMA UnlockLists ==
  ASSUME WaitTyped, NEW m \in Mutex, NEW ts \in ReleasedTo(m), Notify(ts), NEW L \in OtherLists
  PROVE  Kept(L)
<1>1. L \in Lists /\ L # Awake /\ Lock(m) \in Lists /\ Lock(m) # Awake /\ L # Lock(m)
  BY ListsDiffer, ListsTyped, Zenon
<1>2. ts \in SUBSET Sleepers(Lock(m))
  BY ReleasedSleeps, Zenon
<1> QED
  BY <1>1, <1>2, NotifyMoves DEF Kept

\* pthread_cond_wait releases the mutex and adds the caller to the condition's list, and no more.
LEMMA CondWaitLists ==
  ASSUME WaitTyped, NEW t \in Thread, Runs(t), NEW m \in Mutex, NEW ts \in ReleasedTo(m),
         NotifyThenSleep(ts, t, Cond), NEW L \in OtherLists
  PROVE  /\ Sleepers(L)' = IF L = Cond THEN Sleepers(L) \cup {t} ELSE Sleepers(L)
         /\ Notified(L)' = Notified(L)
<1>1. /\ L \in Lists /\ L # Awake /\ Lock(m) \in Lists /\ Lock(m) # Awake /\ L # Lock(m)
      /\ Cond \in Lists /\ Cond # Lock(m)
  BY ListsDiffer, ListsTyped, Zenon
<1>2. ts \in SUBSET Sleepers(Lock(m))
  BY ReleasedSleeps, Zenon
<1> QED
  BY <1>1, <1>2, NotifyThenSleepMoves, Zenon

\* The other objects' lists are not touched by the mutexes and the condition
\* variable.
LEMMA MutexKeeps ==
  ASSUME WaitTyped, CondHasMutex, MutexNext, NEW L \in {Barrier, Readers, Writers, Sem}
  PROVE  Kept(L)
<1>0. L \in OtherLists /\ L \in Lists /\ L # Awake /\ L # Cond
  BY ObjectLists, ListsTyped DEF OtherLists
<1>1. PICK t \in Thread :
         \/ \E m \in Mutex : \/ pthread_mutex_lock(t, m) \/ LockWoken(t, m)
                             \/ pthread_mutex_unlock(t, m) \/ pthread_cond_wait(t, m)
         \/ CondWoken(t) \/ pthread_cond_signal(t) \/ pthread_cond_broadcast(t)
  BY DEF MutexNext
<1>2. ASSUME NEW m \in Mutex, pthread_mutex_lock(t, m) PROVE Kept(L)
  <2>1. asleep[t] = Awake /\ t \notin Notified(L) /\ MutexLock(t, m)
    BY <1>0, <1>2 DEF pthread_mutex_lock, Runs, Notified
  <2> QED
    BY SMTT(30), <1>0, <2>1, LockLists DEF Kept
<1>3. ASSUME NEW m \in Mutex, LockWoken(t, m) PROVE Kept(L)
  <2>1. GoOn(t) /\ t \notin Notified(L)
    BY <1>0, <1>3, ListsDiffer DEF LockWoken, TakeMutex, Notified
  <2> QED
    BY <1>0, <2>1, GoOnMoves DEF Kept
<1>4. ASSUME NEW m \in Mutex, pthread_mutex_unlock(t, m) PROVE Kept(L)
  <2>1. PICK ts \in ReleasedTo(m) : Notify(ts)
    BY <1>4 DEF pthread_mutex_unlock
  <2> QED
    BY <1>0, <2>1, UnlockLists, Zenon
<1>5. ASSUME NEW m \in Mutex, pthread_cond_wait(t, m) PROVE Kept(L)
  <2>1. CASE \E ts \in ReleasedTo(m) : NotifyThenSleep(ts, t, Cond)
    <3>1. PICK ts \in ReleasedTo(m) : NotifyThenSleep(ts, t, Cond)
      BY <2>1
    <3>2. Runs(t)
      BY <1>5 DEF pthread_cond_wait
    <3> QED
      BY <1>0, <3>1, <3>2, CondWaitLists DEF Kept
  <2>2. CASE UNCHANGED waiting
    BY <2>2 DEF waiting, Kept, Sleepers, Notified
  <2> QED
    BY <1>5, <2>1, <2>2 DEF pthread_cond_wait
<1>6. CASE CondWoken(t)
  <2>1. MutexLock(t, cmutex[t]) /\ cmutex[t] \in Mutex /\ t \notin Notified(L) /\ asleep[t] = Awake
    BY ZenonT(60), <1>0, <1>6, ObjectLists DEF CondWoken, CondHasMutex, Notified, WaitTyped, OffList
  <2>2. \A n \in Mutex : MutexLock(t, n) => Kept(L)
    BY <1>0, <2>1, LockLists DEF Kept
  <2> QED
    BY <2>1, <2>2, Zenon
<1>7. ASSUME NEW ts \in SUBSET Sleepers(Cond), Notify(ts) PROVE Kept(L)
  BY ZenonT(60), <1>0, <1>7, ObjectLists, NotifyMoves DEF Kept
<1>8. CASE pthread_cond_signal(t)
  BY <1>7, <1>8, OneOfSleeps DEF pthread_cond_signal
<1>9. CASE pthread_cond_broadcast(t)
  BY <1>7, <1>9 DEF pthread_cond_broadcast, NotifyAll
<1> QED
  BY <1>1, <1>2, <1>3, <1>4, <1>5, <1>6, <1>8, <1>9, ZenonT(60)

-----------------------------------------------------------------------------
(* What the calls of an object do to its own lists, and to those of others.   *)

ListStep(K) ==
  \/ UNCHANGED waiting
  \/ \E t \in Thread : Runs(t) /\ Sleep(t, K)
  \/ \E ts \in SUBSET Sleepers(K) : Notify(ts)
  \/ \E t \in Thread : resume[t] \in {K, Awake} /\ GoOn(t)

\* A step on one list keeps the others.
LEMMA ListStepKeeps ==
  ASSUME WaitTyped, NEW K \in OtherLists, ListStep(K), NEW L \in OtherLists, L # K
  PROVE  Kept(L)
<1>0. L \in Lists /\ K \in Lists /\ L # Awake /\ K # Awake
  BY ListsTyped, ListsDiffer, Zenon
<1>1. CASE UNCHANGED waiting
  BY <1>1 DEF waiting, Kept, Sleepers, Notified
<1>2. CASE \E t \in Thread : Runs(t) /\ Sleep(t, K)
  <2>1. PICK t \in Thread : Runs(t) /\ Sleep(t, K)
    BY <1>2
  <2>2. asleep[t] = Awake /\ t \notin Notified(L)
    BY <1>0, <2>1 DEF Runs, Notified
  <2> QED
    BY <1>0, <2>1, <2>2, SleepMoves DEF Kept
<1>3. CASE \E ts \in SUBSET Sleepers(K) : Notify(ts)
  BY <1>0, <1>3, NotifyMoves DEF Kept
<1>4. CASE \E t \in Thread : resume[t] \in {K, Awake} /\ GoOn(t)
  <2>1. PICK t \in Thread : resume[t] \in {K, Awake} /\ GoOn(t)
    BY <1>4
  <2>2. t \notin Notified(L)
    BY <1>0, <2>1 DEF Notified
  <2> QED
    BY <1>0, <2>1, <2>2, GoOnMoves DEF Kept
<1> QED
  BY <1>1, <1>2, <1>3, <1>4 DEF ListStep

\* A thread joins the list.
LEMMA SleepCounts ==
  ASSUME WaitTyped, NEW K \in OtherLists, NEW t \in Thread, Runs(t), Sleep(t, K)
  PROVE  /\ Sleepers(K)' = Sleepers(K) \cup {t}
         /\ Notified(K)' = Notified(K)
         /\ Cardinality(Sleepers(K)') = Cardinality(Sleepers(K)) + 1
         /\ Cardinality(Sleepers(K)) \in Nat
<1>0. K \in Lists /\ K # Awake
  BY ListsTyped, ListsDiffer, Zenon
<1>1. asleep[t] = Awake /\ t \notin Notified(K) /\ t \notin Sleepers(K)
  BY <1>0 DEF Runs, Notified, Sleepers
<1>2. Sleepers(K)' = Sleepers(K) \cup {t} /\ Notified(K)' = Notified(K)
  BY <1>0, <1>1, SleepMoves
<1>3. IsFiniteSet(Sleepers(K))
  BY SleepersFinite, ZenonT(60)
<1>4. /\ Cardinality(Sleepers(K) \cup {t}) = Cardinality(Sleepers(K)) + 1
      /\ Cardinality(Sleepers(K)) \in Nat
  BY <1>1, <1>3, FS_AddElement, FS_CardinalityType
<1> QED
  BY <1>2, <1>4

\* One thread of the list is notified.
LEMMA NotifyOneCounts ==
  ASSUME WaitTyped, NEW K \in OtherLists, NEW ts \in OneOf(K), Notify(ts), Sleepers(K) # {}
  PROVE  /\ Cardinality(Sleepers(K)') = Cardinality(Sleepers(K)) - 1
         /\ Cardinality(Sleepers(K)) \in Nat /\ Cardinality(Sleepers(K)) # 0
         /\ \E u \in Sleepers(K) : /\ u \notin Notified(K) /\ Notified(K)' = Notified(K) \cup {u}
                                   /\ Sleepers(K)' = Sleepers(K) \ {u}
<1>0. K \in Lists /\ K # Awake
  BY ListsTyped, ListsDiffer, Zenon
<1>1. PICK u \in Sleepers(K) : ts = {u}
  BY OneOfSleeps, Zenon
<1>2. ts \in SUBSET Sleepers(K)
  BY OneOfSleeps, Zenon
<1>3. Sleepers(K)' = Sleepers(K) \ {u} /\ Notified(K)' = Notified(K) \cup {u}
  BY <1>0, <1>1, <1>2, NotifyMoves
<1>4. u \notin Notified(K)
  BY <1>0 DEF Sleepers, Notified, WaitTyped, OffList
<1>5. IsFiniteSet(Sleepers(K))
  BY SleepersFinite, Zenon
<1>6. /\ Cardinality(Sleepers(K) \ {u}) = Cardinality(Sleepers(K)) - 1
      /\ Cardinality(Sleepers(K)) \in Nat
  BY <1>5, FS_RemoveElement, FS_CardinalityType
<1>7. Cardinality(Sleepers(K)) # 0
  BY <1>5, FS_EmptySet
<1> QED
  BY <1>3, <1>4, <1>6, <1>7

\* All threads of the list are notified.
LEMMA NotifyAllCounts ==
  ASSUME WaitTyped, NEW K \in OtherLists, NotifyAll(K)
  PROVE  /\ Sleepers(K)' = {} /\ Notified(K)' = Notified(K) \cup Sleepers(K)
         /\ Cardinality(Sleepers(K)') = 0
<1>0. K \in Lists /\ K # Awake
  BY ListsTyped, ListsDiffer, Zenon
<1>1. Sleepers(K)' = Sleepers(K) \ Sleepers(K) /\ Notified(K)' = Notified(K) \cup Sleepers(K)
  BY <1>0, NotifyMoves DEF NotifyAll
<1>2. Sleepers(K)' = {}
  BY <1>1
<1> QED
  BY <1>1, <1>2, FS_EmptySet

\* A step that does not touch the lists, or after which a notified thread is off.
LEMMA GoOnCounts ==
  ASSUME WaitTyped, NEW K \in OtherLists, NEW t \in Thread, GoOn(t)
  PROVE  Sleepers(K)' = Sleepers(K) /\ Notified(K)' = Notified(K) \ {t}
  BY ListsTyped, ListsDiffer, GoOnMoves, Zenon

\* A step that leaves the scheduler's lists alone keeps each of them.
LEMMA WaitingKept ==
  ASSUME UNCHANGED waiting, NEW K
  PROVE  Kept(K)
  BY DEF waiting, Kept, Sleepers, Notified

-----------------------------------------------------------------------------
(* The invariants of the other objects.                                      *)

\* The condition variable counts its sleepers, and has recorded their mutex.
CondInv ==
  /\ cond \in [mutex : Mutex \cup {None}, queued : Nat]
  /\ cond.queued = Cardinality(Sleepers(Cond)) /\ CondMutexAgrees

\* Who is missing at the barrier and who sleeps there make up InitCount.
BarrierInv ==
  /\ barrier \in Nat \ {0}
  /\ barrier = InitCount - Cardinality(Sleepers(Barrier))

\* The semaphore: until it is overtaken a unit is there for whoever has been
\* notified, and no other where threads sleep.
SemInv ==
  /\ sem \in 0 .. UIntSize - 1
  /\ Sem \notin overtaken =>
       /\ Cardinality(Notified(Sem)) <= sem
       /\ Sleepers(Sem) # {} => sem = Cardinality(Notified(Sem))

Holding(how) == {t \in Thread : rwheld[t] = how}

RwTyped ==
  /\ rwlock \in [nr_readers : Nat, nr_readers_queued : Nat,
                 nr_writers_queued : Nat, writer : BOOLEAN]
  /\ rwheld \in [Thread -> {"not", "read", "write"}]

RwCounted ==
  /\ rwlock.nr_readers_queued = Cardinality(Sleepers(Readers))
  /\ rwlock.nr_writers_queued = Cardinality(Sleepers(Writers))

\* Who waits for the read-write lock does not hold it.
RwAway ==
  \A t \in Sleepers(Readers) \cup Sleepers(Writers) \cup Notified(Readers) \cup Notified(Writers) :
    rwheld[t] = "not"

\* Until the lock is overtaken the fields say who holds it, and a notified writer
\* finds it free and is the only thread notified.
RwGiven ==
  RwLock \notin overtaken =>
    /\ rwlock.nr_readers = Cardinality(Holding("read"))
    /\ rwlock.writer <=> Holding("write") # {}
    /\ \A t, u \in Holding("write") : t = u
    /\ rwlock.writer => /\ rwlock.nr_readers = 0
                        /\ Notified(Readers) = {} /\ Notified(Writers) = {}
    /\ Notified(Writers) # {} => rwlock.nr_readers = 0 /\ Notified(Readers) = {}
    /\ \A t, u \in Notified(Writers) : t = u

RwInv == RwTyped /\ RwCounted /\ RwAway /\ RwServed /\ RwGiven

ObjectsInv == MutexInv /\ CondInv /\ BarrierInv /\ SemInv /\ RwInv

-----------------------------------------------------------------------------
(* Each object's calls keep its invariant, and those of the other objects.    *)

\* The calls of an object touch the object's own waiting lists only.
LEMMA StepOfList ==
  /\ BarrierNext => ListStep(Barrier)
  /\ SemNext => ListStep(Sem)
  /\ RwNext => ListStep(Readers) \/ ListStep(Writers)
<1>1. ASSUME BarrierNext PROVE ListStep(Barrier)
  BY <1>1 DEF BarrierNext, pthread_barrier_wait, BarrierWoken, NotifyAll, ListStep
<1>2. ASSUME SemNext PROVE ListStep(Sem)
  <2>1. PICK t \in Thread : sem_wait(t) \/ SemWoken(t) \/ sem_post(t)
    BY <1>2 DEF SemNext
  <2>2. CASE sem_post(t)
    BY <2>2, OneOfSleeps DEF sem_post, ListStep
  <2> QED
    BY <2>1, <2>2 DEF sem_wait, SemWoken, ListStep
<1>3. ASSUME RwNext PROVE ListStep(Readers) \/ ListStep(Writers)
  <2>1. PICK t \in Thread : \/ pthread_rwlock_rdlock(t) \/ ReaderWoken(t)
                            \/ pthread_rwlock_wrlock(t) \/ WriterWoken(t)
                            \/ pthread_rwlock_unlock(t)
    BY <1>3 DEF RwNext
  <2>2. CASE pthread_rwlock_rdlock(t) \/ ReaderWoken(t)
    BY <2>2 DEF pthread_rwlock_rdlock, ReaderWoken, AddReader, Runs, ListStep
  <2>3. CASE pthread_rwlock_wrlock(t) \/ WriterWoken(t)
    BY <2>3 DEF pthread_rwlock_wrlock, WriterWoken, SetWriter, Runs, ListStep
  <2>4. CASE pthread_rwlock_unlock(t)
    <3>1. WakeWriter \/ WakeReaders \/ UNCHANGED waiting
      BY <2>4 DEF pthread_rwlock_unlock
    <3>2. CASE WakeWriter
      BY <3>2, OneOfSleeps DEF WakeWriter, ListStep
    <3>3. CASE WakeReaders
      BY <3>3 DEF WakeReaders, NotifyAll, ListStep
    <3> QED
      BY <3>1, <3>2, <3>3 DEF ListStep
  <2> QED
    BY <2>1, <2>2, <2>3, <2>4, Zenon
<1> QED
  BY <1>1, <1>2, <1>3

\* The lists a step leaves alone.
LEMMA StepKeeps ==
  ASSUME WaitTyped, CondHasMutex
  PROVE  /\ MutexNext => Kept(Barrier) /\ Kept(Readers) /\ Kept(Writers) /\ Kept(Sem)
         /\ BarrierNext => Kept(Cond) /\ Kept(Readers) /\ Kept(Writers) /\ Kept(Sem)
         /\ SemNext => Kept(Cond) /\ Kept(Readers) /\ Kept(Writers) /\ Kept(Barrier)
         /\ RwNext => Kept(Cond) /\ Kept(Sem) /\ Kept(Barrier)
<1>0. {Cond, Barrier, Readers, Writers, Sem} = OtherLists
  BY DEF OtherLists
<1>1. MutexNext => Kept(Barrier) /\ Kept(Readers) /\ Kept(Writers) /\ Kept(Sem)
  BY MutexKeeps, Zenon
<1>2. BarrierNext => Kept(Cond) /\ Kept(Readers) /\ Kept(Writers) /\ Kept(Sem)
  <2>1. ASSUME BarrierNext, NEW L \in {Cond, Readers, Writers, Sem} PROVE Kept(L)
    <3>1. L \in OtherLists /\ L # Barrier /\ Barrier \in OtherLists
      BY <1>0, ObjectLists, Zenon
    <3> QED
      BY <2>1, <3>1, StepOfList, ListStepKeeps, Zenon
  <2> QED
    BY <2>1, Zenon
<1>3. SemNext => Kept(Cond) /\ Kept(Readers) /\ Kept(Writers) /\ Kept(Barrier)
  <2>1. ASSUME SemNext, NEW L \in {Cond, Readers, Writers, Barrier} PROVE Kept(L)
    <3>1. L \in OtherLists /\ L # Sem /\ Sem \in OtherLists
      BY <1>0, ObjectLists, Zenon
    <3> QED
      BY <2>1, <3>1, StepOfList, ListStepKeeps, Zenon
  <2> QED
    BY <2>1, Zenon
<1>4. RwNext => Kept(Cond) /\ Kept(Sem) /\ Kept(Barrier)
  <2>1. ASSUME RwNext, NEW L \in {Cond, Sem, Barrier} PROVE Kept(L)
    <3>1. L \in OtherLists /\ L # Readers /\ L # Writers
          /\ Readers \in OtherLists /\ Writers \in OtherLists
      BY <1>0, ObjectLists, Zenon
    <3> QED
      BY <2>1, <3>1, StepOfList, ListStepKeeps, Zenon
  <2> QED
    BY <2>1, Zenon
<1> QED
  BY <1>1, <1>2, <1>3, <1>4, Zenon

\* pthread_barrier_wait.
LEMMA BarrierStep ==
  ASSUME WaitTyped, BarrierInv, BarrierNext
  PROVE  BarrierInv'
<1>0. Barrier \in OtherLists /\ InitCount \in Nat \ {0}
  BY SyncConstants DEF OtherLists
<1>1. PICK t \in Thread : pthread_barrier_wait(t) \/ BarrierWoken(t)
  BY DEF BarrierNext
<1>2. CASE barrier = 1 /\ barrier' = InitCount /\ NotifyAll(Barrier)
  <2>1. Cardinality(Sleepers(Barrier)') = 0
    BY <1>0, <1>2, NotifyAllCounts, Zenon
  <2> QED
    BY <1>0, <1>2, <2>1 DEF BarrierInv
<1>3. CASE Runs(t) /\ barrier # 1 /\ barrier' = barrier - 1 /\ Sleep(t, Barrier)
  <2>1. /\ Cardinality(Sleepers(Barrier)') = Cardinality(Sleepers(Barrier)) + 1
        /\ Cardinality(Sleepers(Barrier)) \in Nat
    BY <1>0, <1>3, SleepCounts, Zenon
  <2> QED
    BY <1>0, <1>3, <2>1 DEF BarrierInv
<1>4. CASE BarrierWoken(t)
  <2>1. Sleepers(Barrier)' = Sleepers(Barrier)
    BY <1>0, <1>4, GoOnCounts DEF BarrierWoken
  <2> QED
    BY <1>4, <2>1 DEF BarrierWoken, BarrierInv
<1> QED
  BY <1>1, <1>2, <1>3, <1>4 DEF pthread_barrier_wait

\* sem_wait and sem_post.
LEMMA SemStep ==
  ASSUME WaitTyped, SemInv, SemNext
  PROVE  SemInv'
<1>0. Sem \in OtherLists /\ UIntSize \in Nat /\ sem \in 0 .. UIntSize - 1
  BY SyncConstants DEF OtherLists, SemInv
<1>1. PICK t \in Thread : sem_wait(t) \/ SemWoken(t) \/ sem_post(t)
  BY DEF SemNext
<1>f. IsFiniteSet(Notified(Sem)) /\ Cardinality(Notified(Sem)) \in Nat
  <2>1. Notified(Sem) \subseteq Thread
    BY DEF Notified
  <2> QED
    BY <2>1, FS_Subset, FS_CardinalityType, SyncConstants
<1>g. Sem \notin overtaken' =>
        /\ Sem \notin overtaken
        /\ Cardinality(Notified(Sem)) <= sem
        /\ Sleepers(Sem) # {} => sem = Cardinality(Notified(Sem))
  BY OvertakenGrows, Zenon DEF SemInv, SyncNext
<1>2. CASE sem_wait(t)
  <2>1. CASE /\ sem # 0 /\ sem' = sem - 1 /\ UNCHANGED waiting
             /\ Overtake(Sem, sem <= Cardinality(Notified(Sem)))
    <3>1. Sleepers(Sem)' = Sleepers(Sem) /\ Notified(Sem)' = Notified(Sem)
      BY <2>1, WaitingKept DEF Kept
    <3>2. Sem \notin overtaken' => ~(sem <= Cardinality(Notified(Sem)))
      BY <2>1 DEF Overtake
    <3>3. sem' \in 0 .. UIntSize - 1
      BY <1>0, <2>1
    <3>4. Sem \notin overtaken' => Cardinality(Notified(Sem)) <= sem' /\ Sleepers(Sem) = {}
      BY <1>0, <1>f, <1>g, <2>1, <3>2
    <3> QED
      BY <3>1, <3>3, <3>4, ZenonT(60) DEF SemInv
  <2>2. CASE sem = 0 /\ Sleep(t, Sem) /\ UNCHANGED <<sem, overtaken>>
    <3>1. Notified(Sem)' = Notified(Sem)
      BY <1>0, <1>2, <2>2, SleepCounts, ZenonT(60) DEF sem_wait
    <3>2. Sem \notin overtaken' => Cardinality(Notified(Sem)) = 0
      BY <1>f, <1>g, <2>2
    <3> QED
      BY <1>0, <2>2, <3>1, <3>2 DEF SemInv
  <2> QED
    BY <1>2, <2>1, <2>2 DEF sem_wait
<1>3. CASE SemWoken(t)
  <2>1. t \in Notified(Sem) /\ GoOn(t) /\ sem' = UInt(sem - 1)
    BY <1>3 DEF SemWoken, Notified
  <2>2. Sleepers(Sem)' = Sleepers(Sem) /\ Notified(Sem)' = Notified(Sem) \ {t}
    BY <1>0, <2>1, GoOnCounts, Zenon
  <2>3. /\ Cardinality(Notified(Sem) \ {t}) = Cardinality(Notified(Sem)) - 1
        /\ Cardinality(Notified(Sem)) # 0
    BY <1>f, <2>1, FS_RemoveElement, FS_EmptySet
  <2>4. sem' \in 0 .. UIntSize - 1
    BY <1>0, <2>1 DEF UInt
  <2>5. sem >= 1 => sem' = sem - 1
    BY <1>0, <2>1 DEF UInt
  <2>6. Sem \notin overtaken' => sem >= 1
    BY <1>0, <1>f, <1>g, <2>3
  <2>7. Sem \notin overtaken' =>
          /\ Cardinality(Notified(Sem) \ {t}) <= sem'
          /\ Sleepers(Sem) # {} => sem' = Cardinality(Notified(Sem) \ {t})
    BY <1>0, <1>f, <1>g, <2>3, <2>5, <2>6
  <2> QED
    BY <2>2, <2>4, <2>7, ZenonT(60) DEF SemInv
<1>4. CASE sem_post(t)
  <2>0. /\ sem' = UInt(sem + 1)
        /\ Sem \notin overtaken' => sem + 1 # UIntSize
    BY <1>4 DEF sem_post, Overtake
  <2>1. PICK ts \in OneOf(Sem) : Notify(ts)
    BY <1>4 DEF sem_post
  <2>2. sem' \in 0 .. UIntSize - 1 /\ (Sem \notin overtaken' => sem' = sem + 1)
    BY <1>0, <2>0 DEF UInt
  <2>3. CASE Sleepers(Sem) = {}
    <3>1. ts \in SUBSET Sleepers(Sem)
      BY <2>1, OneOfSleeps, Zenon
    <3>2. Sleepers(Sem)' = {} /\ Notified(Sem)' = Notified(Sem)
      BY ZenonT(60), <1>0, <2>1, <2>3, <3>1, NotifyMoves, ListsTyped, ListsDiffer
    <3>3. Sem \notin overtaken' => Cardinality(Notified(Sem)) <= sem'
      BY <1>0, <1>f, <1>g, <2>2
    <3> QED
      BY <2>2, <3>2, <3>3, ZenonT(60) DEF SemInv
  <2>4. CASE Sleepers(Sem) # {}
    <3>1. PICK u \in Sleepers(Sem) : Notified(Sem)' = Notified(Sem) \cup {u}
      BY <1>0, <2>1, <2>4, NotifyOneCounts, Zenon
    <3>2. u \notin Notified(Sem)
      BY <1>0, ObjectLists, ZenonT(60) DEF Sleepers, Notified, WaitTyped, OffList
    <3>3. Cardinality(Notified(Sem)') = Cardinality(Notified(Sem)) + 1
      BY <1>f, <3>1, <3>2, FS_AddElement, ZenonT(60)
    <3>4. Sem \notin overtaken' =>
            /\ Cardinality(Notified(Sem)') <= sem'
            /\ sem' = Cardinality(Notified(Sem)')
      BY <1>0, <1>f, <1>g, <2>2, <2>4, <3>3
    <3> QED
      BY <2>2, <3>4, ZenonT(60) DEF SemInv
  <2> QED
    BY <2>3, <2>4
<1> QED
  BY <1>1, <1>2, <1>3, <1>4

\* The condition variable, and the mutex calls, which leave it alone.
LEMMA CondStep ==
  ASSUME MutexInv, WaitTyped, CondInv, MutexNext
  PROVE  CondInv'
<1>0. Cond \in OtherLists /\ CondHasMutex
  BY DEF OtherLists, MutexInv
<1>1. PICK t \in Thread :
         \/ \E m \in Mutex : \/ pthread_mutex_lock(t, m) \/ LockWoken(t, m)
                             \/ pthread_mutex_unlock(t, m) \/ pthread_cond_wait(t, m)
         \/ CondWoken(t) \/ pthread_cond_signal(t) \/ pthread_cond_broadcast(t)
  BY DEF MutexNext
<1>c. /\ cond.queued \in Nat /\ cond.mutex \in Mutex \cup {None}
      /\ cond.queued = Cardinality(Sleepers(Cond)) /\ Cardinality({}) = 0
      /\ IsFiniteSet(Sleepers(Cond))
  BY SleepersFinite, FS_EmptySet DEF CondInv
<1>s. /\ Sleepers(Cond) \subseteq Thread
      /\ \A u \in Sleepers(Cond) : cmutex[u] = cond.mutex
      /\ cmutex \in [Thread -> Mutex \cup {None}]
  BY DEF CondInv, CondMutexAgrees, Sleepers, MutexInv, MutexTyped
<1>2. ASSUME UNCHANGED <<cond, cmutex>>, Sleepers(Cond)' = Sleepers(Cond) PROVE CondInv'
  BY <1>2 DEF CondInv, CondMutexAgrees
<1>3. ASSUME NEW m \in Mutex, pthread_mutex_lock(t, m) PROVE CondInv'
  <2>1. asleep[t] = Awake /\ MutexLock(t, m) /\ UNCHANGED <<cond, cmutex>>
    BY <1>3 DEF pthread_mutex_lock, Runs
  <2> QED
    BY <1>0, <1>2, <2>1, LockLists, Zenon
<1>4. ASSUME NEW m \in Mutex, LockWoken(t, m) PROVE CondInv'
  <2>1. GoOn(t) /\ UNCHANGED <<cond, cmutex>>
    BY <1>4 DEF LockWoken, TakeMutex
  <2> QED
    BY <1>0, <1>2, <2>1, GoOnCounts, Zenon
<1>5. ASSUME NEW m \in Mutex, pthread_mutex_unlock(t, m) PROVE CondInv'
  <2>1. PICK ts \in ReleasedTo(m) : Notify(ts)
    BY <1>5 DEF pthread_mutex_unlock
  <2>2. Sleepers(Cond)' = Sleepers(Cond)
    BY <1>0, <2>1, UnlockLists DEF Kept
  <2> QED
    BY <1>2, <1>5, <2>2 DEF pthread_mutex_unlock
<1>6. ASSUME NEW m \in Mutex, pthread_cond_wait(t, m) PROVE CondInv'
  <2>0. Runs(t) /\ (cond.queued > 0 => cond.mutex = m) /\ t \notin Sleepers(Cond)
    BY ZenonT(60), <1>6, ObjectLists DEF pthread_cond_wait, Runs, Sleepers
  <2>1. CASE /\ cond' = [mutex |-> m, queued |-> cond.queued + 1]
             /\ cmutex' = [cmutex EXCEPT ![t] = m]
             /\ \E ts \in ReleasedTo(m) : NotifyThenSleep(ts, t, Cond)
    <3>1. PICK ts \in ReleasedTo(m) : NotifyThenSleep(ts, t, Cond)
      BY <2>1
    <3>2. Sleepers(Cond)' = Sleepers(Cond) \cup {t}
      BY <1>0, <2>0, <3>1, CondWaitLists
    <3>3. Cardinality(Sleepers(Cond) \cup {t}) = Cardinality(Sleepers(Cond)) + 1
      BY <1>c, <2>0, FS_AddElement, ZenonT(60)
    <3>4. cond' \in [mutex : Mutex \cup {None}, queued : Nat] /\ cond'.mutex = m
          /\ cond'.queued = cond.queued + 1
      BY <1>c, <2>1
    <3>5. \A u \in Sleepers(Cond) : cmutex[u] = m
      <4>1. ASSUME NEW u \in Sleepers(Cond) PROVE cond.queued > 0
        <5>1. Cardinality(Sleepers(Cond)) # 0
          BY SMTT(30), <1>c, <4>1, FS_EmptySet
        <5> QED
          BY <1>c, <5>1
      <4> QED
        BY <1>s, <2>0, <4>1
    <3>6. \A u \in Sleepers(Cond)' : cmutex'[u] = m
      BY <1>s, <2>1, <3>2, <3>5
    <3> QED
      BY <1>c, <3>2, <3>3, <3>4, <3>6 DEF CondInv, CondMutexAgrees
  <2>2. CASE cond' = [cond EXCEPT !.mutex = m] /\ UNCHANGED <<cmutex, waiting>>
    <3>1. Sleepers(Cond)' = Sleepers(Cond)
      BY <2>2, WaitingKept DEF Kept
    <3>2. cond' \in [mutex : Mutex \cup {None}, queued : Nat] /\ cond'.mutex = m
          /\ cond'.queued = cond.queued
      BY <2>2 DEF CondInv
    <3>3. Sleepers(Cond) # {} => cond.mutex = m
      <4>1. Sleepers(Cond) # {} => Cardinality(Sleepers(Cond)) # 0
        BY ZenonT(60), <1>c, FS_EmptySet
      <4> QED
        BY <1>c, <2>0, <4>1
    <3> QED
      BY <1>c, <1>s, <2>2, <3>1, <3>2, <3>3 DEF CondInv, CondMutexAgrees
  <2> QED
    BY <1>6, <2>1, <2>2 DEF pthread_cond_wait, ReleaseMutex
<1>7. CASE CondWoken(t)
  <2>1. MutexLock(t, cmutex[t]) /\ cmutex[t] \in Mutex /\ asleep[t] = Awake
        /\ t \notin Sleepers(Cond) /\ cmutex' = [cmutex EXCEPT ![t] = None] /\ cond' = cond
    BY <1>0, <1>7, ObjectLists DEF CondWoken, CondHasMutex, Sleepers, WaitTyped, OffList
  <2>2. \A n \in Mutex : MutexLock(t, n) => Sleepers(Cond)' = Sleepers(Cond)
    BY <1>0, <2>1, LockLists, Zenon
  <2>3. Sleepers(Cond)' = Sleepers(Cond)
    BY <2>1, <2>2, Zenon
  <2>4. \A u \in Sleepers(Cond) : cmutex'[u] = cmutex[u]
    BY <1>s, <2>1
  <2> QED
    BY ZenonT(60), <1>s, <2>1, <2>3, <2>4 DEF CondInv, CondMutexAgrees
<1>8. CASE pthread_cond_signal(t)
  <2>0. cond.queued > 0 /\ cond' = [cond EXCEPT !.queued = @ - 1] /\ cmutex' = cmutex
    BY <1>8 DEF pthread_cond_signal
  <2>1. PICK ts \in OneOf(Cond) : Notify(ts)
    BY <1>8 DEF pthread_cond_signal
  <2>2. Sleepers(Cond) # {}
    <3>1. Cardinality(Sleepers(Cond)) # 0
      BY <1>c, <2>0
    <3> QED
      BY <1>c, <3>1, Zenon
  <2>3. /\ Cardinality(Sleepers(Cond)') = Cardinality(Sleepers(Cond)) - 1
        /\ \E u \in Sleepers(Cond) : Sleepers(Cond)' = Sleepers(Cond) \ {u}
    BY <1>0, <2>1, <2>2, NotifyOneCounts, Zenon
  <2>4. cond' \in [mutex : Mutex \cup {None}, queued : Nat] /\ cond'.mutex = cond.mutex
        /\ cond'.queued = cond.queued - 1
    BY <1>c, <2>0 DEF CondInv
  <2> QED
    BY <1>c, <1>s, <2>0, <2>3, <2>4 DEF CondInv, CondMutexAgrees
<1>9. CASE pthread_cond_broadcast(t)
  <2>0. cond' = [cond EXCEPT !.queued = 0] /\ cmutex' = cmutex /\ NotifyAll(Cond)
    BY <1>9 DEF pthread_cond_broadcast
  <2>1. Sleepers(Cond)' = {} /\ Cardinality(Sleepers(Cond)') = 0
    BY <1>0, <2>0, NotifyAllCounts, Zenon
  <2>2. cond' \in [mutex : Mutex \cup {None}, queued : Nat] /\ cond'.queued = 0
    BY <1>c, <2>0 DEF CondInv
  <2> QED
    BY <2>1, <2>2 DEF CondInv, CondMutexAgrees
<1> QED
  BY <1>1, <1>3, <1>4, <1>5, <1>6, <1>7, <1>8, <1>9, Zenon

-----------------------------------------------------------------------------
(* The read-write lock. *)

RwRecord == [nr_readers : Nat, nr_readers_queued : Nat, nr_writers_queued : Nat,
             writer : BOOLEAN]

\* Assignments to the fields.
LEMMA RwAssigned ==
  ASSUME NEW r \in RwRecord
  PROVE  /\ \A n \in Nat :
              LET a == [r EXCEPT !.nr_readers = n] IN
              /\ a \in RwRecord /\ a.nr_readers = n /\ a.writer = r.writer
              /\ a.nr_readers_queued = r.nr_readers_queued
              /\ a.nr_writers_queued = r.nr_writers_queued
         /\ \A n \in Nat :
              LET a == [r EXCEPT !.nr_readers_queued = n] IN
              /\ a \in RwRecord /\ a.nr_readers = r.nr_readers /\ a.writer = r.writer
              /\ a.nr_readers_queued = n /\ a.nr_writers_queued = r.nr_writers_queued
         /\ \A n \in Nat :
              LET a == [r EXCEPT !.nr_writers_queued = n] IN
              /\ a \in RwRecord /\ a.nr_readers = r.nr_readers /\ a.writer = r.writer
              /\ a.nr_readers_queued = r.nr_readers_queued /\ a.nr_writers_queued = n
         /\ \A b \in BOOLEAN :
              LET a == [r EXCEPT !.writer = b] IN
              /\ a \in RwRecord /\ a.nr_readers = r.nr_readers /\ a.writer = b
              /\ a.nr_readers_queued = r.nr_readers_queued
              /\ a.nr_writers_queued = r.nr_writers_queued
  BY DEF RwRecord

\* How the threads hold the lock after a step in which t changes that.
LEMMA HoldingMoves ==
  ASSUME rwheld \in [Thread -> {"not", "read", "write"}], NEW t \in Thread,
         NEW how \in {"not", "read", "write"}, rwheld' = [rwheld EXCEPT ![t] = how],
         NEW k \in {"read", "write"}
  PROVE  /\ rwheld' \in [Thread -> {"not", "read", "write"}]
         /\ Holding(k)' = IF k = how THEN Holding(k) \cup {t} ELSE Holding(k) \ {t}
  BY DEF Holding

\* Finitely many threads hold the read-write lock.
LEMMA HoldingFinite ==
  \A k : IsFiniteSet(Holding(k)) /\ Cardinality(Holding(k)) \in Nat
<1>1. \A k : Holding(k) \subseteq Thread
  BY DEF Holding
<1> QED
  BY <1>1, FS_Subset, FS_CardinalityType, SyncConstants, ZenonT(60)

\* A reader gets the lock.
LEMMA ReaderAdded ==
  ASSUME WaitTyped, RwInv, NEW t \in Thread, AddReader(t),
         overtaken \subseteq overtaken',
         asleep[t] = Awake, rwheld[t] = "not",
         RwLock \notin overtaken' => ~rwlock.writer /\ Notified(Writers) = {}
  PROVE  RwInv'
<1>0. Readers \in OtherLists /\ Writers \in OtherLists /\ rwlock \in RwRecord
      /\ rwlock.nr_readers \in Nat /\ GoOn(t)
  BY DEF OtherLists, RwInv, RwTyped, RwRecord, AddReader
<1>1. /\ Sleepers(Readers)' = Sleepers(Readers) /\ Sleepers(Writers)' = Sleepers(Writers)
      /\ Notified(Readers)' = Notified(Readers) \ {t}
      /\ Notified(Writers)' = Notified(Writers) \ {t}
  BY <1>0, GoOnCounts, Zenon
<1>2. /\ rwlock' \in RwRecord /\ rwlock'.nr_readers = rwlock.nr_readers + 1
      /\ rwlock'.writer = rwlock.writer
      /\ rwlock'.nr_readers_queued = rwlock.nr_readers_queued
      /\ rwlock'.nr_writers_queued = rwlock.nr_writers_queued
  BY <1>0, RwAssigned DEF AddReader
<1>3. /\ rwheld' \in [Thread -> {"not", "read", "write"}]
      /\ Holding("read")' = Holding("read") \cup {t} /\ Holding("write")' = Holding("write") \ {t}
      /\ t \notin Holding("read") /\ t \notin Holding("write")
  BY ZenonT(60), HoldingMoves DEF RwInv, RwTyped, AddReader, Holding
<1>4. Cardinality(Holding("read")') = Cardinality(Holding("read")) + 1
  BY ZenonT(60), <1>3, HoldingFinite, FS_AddElement
<1>5. RwTyped' /\ RwCounted'
  BY ZenonT(60), <1>1, <1>2, <1>3 DEF RwInv, RwTyped, RwCounted, RwRecord
<1>6. RwAway'
  <2>1. t \notin Sleepers(Readers) /\ t \notin Sleepers(Writers)
    BY ObjectLists DEF Sleepers
  <2>2. \A u \in Thread : u # t => rwheld'[u] = rwheld[u]
    BY ZenonT(60) DEF AddReader, RwInv, RwTyped
  <2>3. \A K : Sleepers(K) \subseteq Thread /\ Notified(K) \subseteq Thread
    BY DEF Sleepers, Notified
  <2> QED
    BY ZenonT(60), <1>1, <2>1, <2>2, <2>3 DEF RwInv, RwAway
<1>7. RwServed'
  BY SMTT(30), <1>0, <1>2 DEF RwServed
<1>8. RwGiven'
  <2>1. SUFFICES ASSUME RwLock \notin overtaken', RwLock \notin overtaken PROVE RwGiven'
    BY ZenonT(60) DEF RwGiven
  <2>2. Holding("write")' = Holding("write")
    BY <1>3
  <2> QED
    BY ZenonT(60), <1>1, <1>2, <1>3, <1>4, <2>1, <2>2 DEF RwInv, RwGiven
<1> QED
  BY <1>5, <1>6, <1>7, <1>8 DEF RwInv

\* A writer gets the lock.
LEMMA WriterAdded ==
  ASSUME WaitTyped, RwInv, NEW t \in Thread, SetWriter(t),
         overtaken \subseteq overtaken',
         asleep[t] = Awake, rwheld[t] = "not",
         RwLock \notin overtaken' => /\ ~rwlock.writer /\ rwlock.nr_readers = 0
                                     /\ Notified(Readers) = {} /\ Notified(Writers) \subseteq {t}
  PROVE  RwInv'
<1>0. Readers \in OtherLists /\ Writers \in OtherLists /\ rwlock \in RwRecord /\ GoOn(t)
  BY DEF OtherLists, RwInv, RwTyped, RwRecord, SetWriter
<1>1. /\ Sleepers(Readers)' = Sleepers(Readers) /\ Sleepers(Writers)' = Sleepers(Writers)
      /\ Notified(Readers)' = Notified(Readers) \ {t}
      /\ Notified(Writers)' = Notified(Writers) \ {t}
  BY <1>0, GoOnCounts, Zenon
<1>2. /\ rwlock' \in RwRecord /\ rwlock'.nr_readers = rwlock.nr_readers
      /\ rwlock'.writer = TRUE
      /\ rwlock'.nr_readers_queued = rwlock.nr_readers_queued
      /\ rwlock'.nr_writers_queued = rwlock.nr_writers_queued
  BY <1>0, RwAssigned, Zenon DEF SetWriter
<1>3. /\ rwheld' \in [Thread -> {"not", "read", "write"}]
      /\ Holding("write")' = Holding("write") \cup {t} /\ Holding("read")' = Holding("read") \ {t}
      /\ t \notin Holding("read") /\ t \notin Holding("write")
  BY HoldingMoves DEF RwInv, RwTyped, SetWriter, Holding
<1>5. RwTyped' /\ RwCounted'
  BY ZenonT(60), <1>1, <1>2, <1>3 DEF RwInv, RwTyped, RwCounted, RwRecord
<1>6. RwAway'
  <2>1. t \notin Sleepers(Readers) /\ t \notin Sleepers(Writers)
    BY ObjectLists DEF Sleepers
  <2>2. \A u \in Thread : u # t => rwheld'[u] = rwheld[u]
    BY ZenonT(60) DEF SetWriter, RwInv, RwTyped
  <2>3. \A K : Sleepers(K) \subseteq Thread /\ Notified(K) \subseteq Thread
    BY ZenonT(60) DEF Sleepers, Notified
  <2> QED
    BY ZenonT(60), <1>1, <2>1, <2>2, <2>3 DEF RwInv, RwAway
<1>7. RwServed'
  BY <1>2 DEF RwServed
<1>8. RwGiven'
  <2>1. SUFFICES ASSUME RwLock \notin overtaken', RwLock \notin overtaken PROVE RwGiven'
    BY ZenonT(60) DEF RwGiven
  <2>2. Holding("read")' = Holding("read") /\ Holding("write")' = {t}
    BY <1>3, <2>1 DEF RwInv, RwGiven
  <2> QED
    BY <1>1, <1>2, <2>1, <2>2, Zenon DEF RwInv, RwGiven
<1> QED
  BY <1>5, <1>6, <1>7, <1>8 DEF RwInv

\* A thread waits for the lock, on the readers' or on the writers' list.
LEMMA RwWaits ==
  ASSUME WaitTyped, RwInv, NEW t \in Thread, Runs(t), rwheld[t] = "not",
         UNCHANGED <<rwheld, overtaken>>,
         \/ /\ ReadersWait /\ rwlock' = [rwlock EXCEPT !.nr_readers_queued = @ + 1]
            /\ Sleep(t, Readers)
         \/ /\ WritersWait /\ rwlock' = [rwlock EXCEPT !.nr_writers_queued = @ + 1]
            /\ Sleep(t, Writers)
  PROVE  RwInv'
<1>0. Readers \in OtherLists /\ Writers \in OtherLists /\ rwlock \in RwRecord
      /\ rwlock.nr_readers_queued \in Nat /\ rwlock.nr_writers_queued \in Nat
      /\ rwlock.nr_readers_queued + 1 \in Nat /\ rwlock.nr_writers_queued + 1 \in Nat
      /\ Readers # Writers
  BY ObjectLists DEF OtherLists, RwInv, RwTyped, RwRecord
<1>1. rwlock'.nr_readers = rwlock.nr_readers /\ rwlock'.writer = rwlock.writer
      /\ rwlock' \in RwRecord
  <2>1. CASE rwlock' = [rwlock EXCEPT !.nr_readers_queued = @ + 1]
    BY <1>0, <2>1, RwAssigned
  <2>2. CASE rwlock' = [rwlock EXCEPT !.nr_writers_queued = @ + 1]
    BY <1>0, <2>2, RwAssigned
  <2> QED
    BY <2>1, <2>2, Zenon
<1>2. Notified(Readers)' = Notified(Readers) /\ Notified(Writers)' = Notified(Writers)
  <2>1. ASSUME NEW K \in {Readers, Writers}, NEW L \in {Readers, Writers}, Sleep(t, K)
        PROVE  Notified(L)' = Notified(L)
    <3>1. K \in OtherLists /\ L \in OtherLists /\ ListStep(K)
      BY <1>0, <2>1 DEF ListStep
    <3> QED
      BY <2>1, <3>1, SleepCounts, ListStepKeeps DEF Kept
  <2> QED
    BY <2>1, Zenon
<1>3. /\ \/ /\ Sleepers(Readers)' = Sleepers(Readers) \cup {t}
            /\ Sleepers(Writers)' = Sleepers(Writers)
         \/ /\ Sleepers(Readers)' = Sleepers(Readers)
            /\ Sleepers(Writers)' = Sleepers(Writers) \cup {t}
      /\ RwCounted'
  <2>1. CASE /\ rwlock' = [rwlock EXCEPT !.nr_readers_queued = @ + 1]
             /\ Sleep(t, Readers)
    <3>1. /\ Sleepers(Readers)' = Sleepers(Readers) \cup {t}
          /\ Cardinality(Sleepers(Readers)') = Cardinality(Sleepers(Readers)) + 1
      BY <1>0, <2>1, SleepCounts, Zenon
    <3>2. Sleepers(Writers)' = Sleepers(Writers)
      <4>1. ListStep(Readers)
        BY <2>1 DEF ListStep
      <4> QED
        BY <1>0, <4>1, ListStepKeeps DEF Kept
    <3>3. /\ rwlock'.nr_readers_queued = rwlock.nr_readers_queued + 1
          /\ rwlock'.nr_writers_queued = rwlock.nr_writers_queued
      BY <1>0, <2>1, RwAssigned
    <3> QED
      BY <3>1, <3>2, <3>3 DEF RwInv, RwCounted
  <2>2. CASE /\ rwlock' = [rwlock EXCEPT !.nr_writers_queued = @ + 1]
             /\ Sleep(t, Writers)
    <3>1. /\ Sleepers(Writers)' = Sleepers(Writers) \cup {t}
          /\ Cardinality(Sleepers(Writers)') = Cardinality(Sleepers(Writers)) + 1
      BY <1>0, <2>2, SleepCounts, Zenon
    <3>2. Sleepers(Readers)' = Sleepers(Readers)
      <4>1. ListStep(Writers)
        BY <2>2 DEF ListStep
      <4> QED
        BY <1>0, <4>1, ListStepKeeps DEF Kept
    <3>3. /\ rwlock'.nr_writers_queued = rwlock.nr_writers_queued + 1
          /\ rwlock'.nr_readers_queued = rwlock.nr_readers_queued
      BY <1>0, <2>2, RwAssigned
    <3> QED
      BY <3>1, <3>2, <3>3 DEF RwInv, RwCounted
  <2> QED
    BY <2>1, <2>2
<1>4. RwTyped'
  BY <1>1 DEF RwInv, RwTyped, RwRecord
<1>5. RwAway'
  BY <1>2, <1>3 DEF RwInv, RwAway
<1>6. RwServed'
  <2>1. \/ rwlock.writer \/ rwlock.nr_readers # 0
        \/ Notified(Readers) \cup Notified(Writers) # {}
    <3>1. CASE rwlock.nr_writers_queued # 0
      <4>1. Cardinality(Sleepers(Writers)) # 0
        BY <3>1 DEF RwInv, RwCounted
      <4>2. Sleepers(Writers) # {}
        BY <4>1, FS_EmptySet, Zenon
      <4> QED
        BY <4>2 DEF RwInv, RwServed
    <3> QED
      BY <3>1 DEF ReadersWait, WritersWait
  <2> QED
    BY <1>1, <1>2, <2>1 DEF RwServed
<1>7. RwGiven'
  <2>1. Holding("read")' = Holding("read") /\ Holding("write")' = Holding("write")
    BY DEF Holding
  <2> QED
    BY <1>1, <1>2, <2>1 DEF RwInv, RwGiven
<1> QED
  BY <1>3, <1>4, <1>5, <1>6, <1>7 DEF RwInv

\* What pthread_rwlock_unlock leaves of the lock, and who is notified.
LEMMA UnlockedFields ==
  ASSUME RwInv, rwlock.writer \/ rwlock.nr_readers # 0
  PROVE  /\ Unlocked \in RwRecord /\ Unlocked.writer = FALSE
         /\ Unlocked.nr_readers = IF rwlock.writer THEN rwlock.nr_readers
                                                   ELSE rwlock.nr_readers - 1
         /\ Unlocked.nr_readers_queued = rwlock.nr_readers_queued
         /\ Unlocked.nr_writers_queued = rwlock.nr_writers_queued
<1>1. rwlock \in RwRecord /\ rwlock.nr_readers \in Nat /\ rwlock.writer \in BOOLEAN
  BY DEF RwInv, RwTyped, RwRecord
<1>2. CASE rwlock.writer
  <2>1. Unlocked = [rwlock EXCEPT !.writer = FALSE]
    BY <1>2 DEF Unlocked
  <2>2. /\ Unlocked \in RwRecord /\ Unlocked.nr_readers = rwlock.nr_readers
        /\ Unlocked.writer = FALSE
        /\ Unlocked.nr_readers_queued = rwlock.nr_readers_queued
        /\ Unlocked.nr_writers_queued = rwlock.nr_writers_queued
    BY <1>1, <2>1, RwAssigned, Zenon
  <2> QED
    BY <1>2, <2>2, Zenon
<1>3. CASE ~rwlock.writer
  <2>1. Unlocked = [rwlock EXCEPT !.nr_readers = rwlock.nr_readers - 1]
    BY <1>3 DEF Unlocked
  <2>2. rwlock.nr_readers - 1 \in Nat
    BY <1>1, <1>3
  <2>3. rwlock.writer = FALSE
    BY <1>1, <1>3
  <2> QED
    BY <1>1, <1>3, <2>1, <2>2, <2>3, RwAssigned
<1> QED
  BY <1>2, <1>3, Zenon

\* pthread_rwlock_unlock.
LEMMA RwUnlockStep ==
  ASSUME WaitTyped, RwInv, NEW t \in Thread, pthread_rwlock_unlock(t),
         overtaken \subseteq overtaken'
  PROVE  RwInv'
<1>0. Readers \in OtherLists /\ Writers \in OtherLists /\ rwlock \in RwRecord
      /\ Readers # Writers /\ rwlock.nr_readers \in Nat /\ rwlock.writer \in BOOLEAN
      /\ rwlock.nr_readers_queued \in Nat /\ rwlock.nr_writers_queued \in Nat
  BY ObjectLists DEF OtherLists, RwInv, RwTyped, RwRecord
<1>1. rwheld[t] # "not" /\ rwheld' = [rwheld EXCEPT ![t] = "not"]
  BY DEF pthread_rwlock_unlock
<1>2. /\ rwheld' \in [Thread -> {"not", "read", "write"}]
      /\ Holding("read")' = Holding("read") \ {t} /\ Holding("write")' = Holding("write") \ {t}
      /\ t \in Holding("read") \/ t \in Holding("write")
  BY ZenonT(60), <1>1, HoldingMoves DEF RwInv, RwTyped, Holding
<1>a. /\ \A u \in Thread : rwheld[u] = "not" => rwheld'[u] = "not"
      /\ \A K : Sleepers(K) \subseteq Thread /\ Notified(K) \subseteq Thread
  BY <1>1 DEF RwInv, RwTyped, Sleepers, Notified
<1>f. IsFiniteSet(Holding("read")) /\ Cardinality(Holding("read")) \in Nat
  BY HoldingFinite, Zenon
<1>e. Cardinality({}) = 0
  BY FS_EmptySet
\* Until the lock is overtaken the caller's hold is what the fields lose.
<1>h. RwLock \notin overtaken' =>
        /\ rwlock.writer \/ rwlock.nr_readers # 0
        /\ Holding("write")' = {}
        /\ Cardinality(Holding("read")') = IF rwlock.writer THEN rwlock.nr_readers
                                                            ELSE rwlock.nr_readers - 1
        /\ Notified(Writers) = {}
  <2>1. SUFFICES ASSUME RwLock \notin overtaken
                 PROVE  /\ rwlock.writer \/ rwlock.nr_readers # 0
                        /\ Holding("write")' = {}
                        /\ Cardinality(Holding("read")') =
                             IF rwlock.writer THEN rwlock.nr_readers ELSE rwlock.nr_readers - 1
                        /\ Notified(Writers) = {}
    OBVIOUS
  <2>2. /\ rwlock.nr_readers = Cardinality(Holding("read"))
        /\ rwlock.writer <=> Holding("write") # {}
        /\ \A u, v \in Holding("write") : u = v
        /\ rwlock.writer => rwlock.nr_readers = 0 /\ Notified(Writers) = {}
        /\ Notified(Writers) # {} => rwlock.nr_readers = 0
    BY ZenonT(60), <2>1 DEF RwInv, RwGiven
  <2>3. CASE rwlock.writer
    <3>1. Holding("read") = {}
      BY <1>f, <2>2, <2>3, FS_EmptySet
    <3>2. t \in Holding("write")
      BY ZenonT(60), <1>2, <3>1
    <3> QED
      BY ZenonT(60), <1>2, <1>e, <2>2, <2>3, <3>1, <3>2
  <2>4. CASE ~rwlock.writer
    <3>1. Holding("write") = {} /\ t \in Holding("read")
      BY ZenonT(60), SMTT(30), <1>2, <2>2, <2>4
    <3>2. Cardinality(Holding("read") \ {t}) = Cardinality(Holding("read")) - 1
          /\ Cardinality(Holding("read")) # 0
      BY <1>f, <3>1, FS_RemoveElement, FS_EmptySet
    <3>3. Holding("write")' = {}
      BY <1>2, <3>1
    <3> QED
      BY ZenonT(60), <1>2, <2>2, <2>4, <3>2, <3>3
  <2> QED
    BY <2>3, <2>4
<1>3. CASE ~rwlock.writer /\ rwlock.nr_readers = 0
  <2>1. UNCHANGED <<rwlock, waiting>> /\ RwLock \in overtaken'
    BY <1>3, <1>h DEF pthread_rwlock_unlock
  <2>2. Kept(Readers) /\ Kept(Writers)
    BY <2>1, WaitingKept, Zenon
  <2>3. RwTyped' /\ RwCounted' /\ RwServed'
    BY ZenonT(60), <1>2, <2>1, <2>2 DEF RwInv, RwTyped, RwCounted, RwServed, Kept
  <2>4. RwAway'
    BY <1>a, <2>2 DEF RwInv, RwAway, Kept
  <2>5. RwGiven'
    BY <2>1 DEF RwGiven
  <2> QED
    BY <2>3, <2>4, <2>5 DEF RwInv
<1>4. CASE rwlock.writer \/ rwlock.nr_readers # 0
  <2>0. /\ Unlocked \in RwRecord /\ Unlocked.writer = FALSE
        /\ Unlocked.nr_readers = IF rwlock.writer THEN rwlock.nr_readers
                                                  ELSE rwlock.nr_readers - 1
        /\ Unlocked.nr_readers_queued = rwlock.nr_readers_queued
        /\ Unlocked.nr_writers_queued = rwlock.nr_writers_queued
    BY <1>4, UnlockedFields, ZenonT(60)
  <2>h. RwLock \notin overtaken' => /\ Cardinality(Holding("read")') = Unlocked.nr_readers
                                    /\ Holding("write")' = {} /\ Notified(Writers) = {}
    BY <1>h, <2>0
  <2>1. CASE Unlocked.nr_readers = 0 /\ rwlock.nr_writers_queued # 0 /\ WakeWriter
    <3>1. PICK ts \in OneOf(Writers) : Notify(ts)
      BY <2>1 DEF WakeWriter
    <3>2. Sleepers(Writers) # {}
      <4>1. Cardinality(Sleepers(Writers)) # 0
        BY <2>1 DEF RwInv, RwCounted
      <4> QED
        BY <1>e, <4>1, Zenon
    <3>3. /\ Cardinality(Sleepers(Writers)') = Cardinality(Sleepers(Writers)) - 1
          /\ \E u \in Sleepers(Writers) : /\ Notified(Writers)' = Notified(Writers) \cup {u}
                                          /\ Sleepers(Writers)' = Sleepers(Writers) \ {u}
      BY <1>0, <3>1, <3>2, NotifyOneCounts, ZenonT(60)
    <3>4. Sleepers(Readers)' = Sleepers(Readers) /\ Notified(Readers)' = Notified(Readers)
      <4>1. ListStep(Writers)
        BY <3>1, OneOfSleeps DEF ListStep
      <4> QED
        BY <1>0, <4>1, ListStepKeeps DEF Kept
    <3>5. /\ rwlock' \in RwRecord /\ rwlock'.nr_readers = Unlocked.nr_readers
          /\ rwlock'.writer = FALSE
          /\ rwlock'.nr_readers_queued = rwlock.nr_readers_queued
          /\ rwlock'.nr_writers_queued = rwlock.nr_writers_queued - 1
      <4>1. rwlock.nr_writers_queued - 1 \in Nat
        BY <1>0, <2>1
      <4>2. rwlock' = [Unlocked EXCEPT !.nr_writers_queued = rwlock.nr_writers_queued - 1]
        BY ZenonT(60), <2>0, <2>1 DEF WakeWriter
      <4> QED
        BY <2>0, <4>1, <4>2, RwAssigned
    <3>6. RwTyped' /\ RwCounted'
      BY ZenonT(60), <1>2, <3>3, <3>4, <3>5 DEF RwInv, RwTyped, RwCounted, RwRecord
    <3>7. RwAway' /\ RwServed'
      BY ZenonT(60), <1>a, <3>3, <3>4 DEF RwInv, RwAway, RwServed
    <3>8. RwGiven'
      <4>1. RwLock \notin overtaken' => Notified(Readers) = {}
        BY <2>1 DEF WakeWriter, Overtake
      <4> QED
        BY ZenonT(60), <2>1, <2>h, <3>3, <3>4, <3>5, <4>1 DEF RwGiven
    <3> QED
      BY <3>6, <3>7, <3>8 DEF RwInv
  <2>2. CASE rwlock.nr_readers_queued # 0 /\ WakeReaders
    <3>1. /\ Sleepers(Readers)' = {} /\ Notified(Readers)' = Notified(Readers) \cup Sleepers(Readers)
          /\ Cardinality(Sleepers(Readers)') = 0
      BY <1>0, <2>2, NotifyAllCounts DEF WakeReaders
    <3>2. Sleepers(Readers) # {}
      <4>1. Cardinality(Sleepers(Readers)) # 0
        BY <2>2 DEF RwInv, RwCounted
      <4> QED
        BY <1>e, <4>1, Zenon
    <3>3. Sleepers(Writers)' = Sleepers(Writers) /\ Notified(Writers)' = Notified(Writers)
      <4>1. ListStep(Readers)
        BY <2>2 DEF WakeReaders, NotifyAll, ListStep
      <4> QED
        BY <1>0, <4>1, ListStepKeeps DEF Kept
    <3>4. /\ rwlock' \in RwRecord /\ rwlock'.nr_readers = Unlocked.nr_readers
          /\ rwlock'.writer = FALSE
          /\ rwlock'.nr_readers_queued = 0
          /\ rwlock'.nr_writers_queued = rwlock.nr_writers_queued
      BY SMTT(30), <2>0, <2>2, RwAssigned DEF WakeReaders
    <3>5. RwTyped' /\ RwCounted'
      BY ZenonT(60), <1>2, <3>1, <3>3, <3>4 DEF RwInv, RwTyped, RwCounted, RwRecord
    <3>6. RwAway' /\ RwServed'
      BY ZenonT(60), <1>a, <3>1, <3>2, <3>3 DEF RwInv, RwAway, RwServed
    <3>7. RwGiven'
      BY ZenonT(60), <2>h, <3>1, <3>3, <3>4 DEF RwGiven
    <3> QED
      BY <3>5, <3>6, <3>7 DEF RwInv
  <2>3. CASE /\ ~(Unlocked.nr_readers = 0 /\ rwlock.nr_writers_queued # 0)
             /\ rwlock.nr_readers_queued = 0 /\ rwlock' = Unlocked /\ UNCHANGED waiting
    <3>1. Kept(Readers) /\ Kept(Writers)
      BY <2>3, WaitingKept, Zenon
    <3>2. RwTyped' /\ RwCounted'
      BY <1>2, <2>0, <2>3, <3>1, ZenonT(60) DEF RwInv, RwTyped, RwCounted, RwRecord, Kept
    <3>3. RwAway'
      BY <1>a, <3>1 DEF RwInv, RwAway, Kept
    <3>4. Sleepers(Readers) = {} /\ (rwlock.nr_writers_queued = 0 => Sleepers(Writers) = {})
      <4>1. IsFiniteSet(Sleepers(Readers)) /\ IsFiniteSet(Sleepers(Writers))
        BY SleepersFinite, Zenon
      <4> QED
        BY <2>3, <4>1, FS_EmptySet, Zenon DEF RwInv, RwCounted
    <3>5. RwServed'
      BY <2>0, <2>3, <3>1, <3>4, ZenonT(60) DEF RwServed, Kept
    <3>6. RwGiven'
      BY <2>0, <2>h, <2>3, <3>1 DEF RwGiven, Kept
    <3> QED
      BY <3>2, <3>3, <3>5, <3>6 DEF RwInv
  <2> QED
    BY <1>4, <2>1, <2>2, <2>3 DEF pthread_rwlock_unlock
<1> QED
  BY <1>3, <1>4

\* The calls on the read-write lock.
LEMMA RwStep ==
  ASSUME WaitTyped, RwInv, RwNext
  PROVE  RwInv'
<1>0. overtaken \subseteq overtaken'
  BY OvertakenGrows DEF SyncNext
<1>1. PICK t \in Thread : \/ pthread_rwlock_rdlock(t) \/ ReaderWoken(t)
                          \/ pthread_rwlock_wrlock(t) \/ WriterWoken(t)
                          \/ pthread_rwlock_unlock(t)
  BY DEF RwNext
<1>2. CASE pthread_rwlock_rdlock(t)
  <2>1. /\ Runs(t) /\ asleep[t] = Awake /\ rwheld[t] = "not"
    BY ZenonT(60), <1>2 DEF pthread_rwlock_rdlock, Runs
  <2>2. CASE ~ReadersWait /\ AddReader(t) /\ Overtake(RwLock, Notified(Writers) # {})
    <3>1. RwLock \notin overtaken' => ~rwlock.writer /\ Notified(Writers) = {}
      BY <2>2 DEF Overtake, ReadersWait
    <3> QED
      BY ZenonT(60), SMTT(30), <1>0, <2>1, <2>2, <3>1, ReaderAdded
  <2>3. CASE /\ ReadersWait /\ rwlock' = [rwlock EXCEPT !.nr_readers_queued = @ + 1]
             /\ Sleep(t, Readers) /\ UNCHANGED <<rwheld, overtaken>>
    BY <1>0, <2>1, <2>3, RwWaits
  <2> QED
    BY <1>2, <2>2, <2>3 DEF pthread_rwlock_rdlock
<1>3. CASE pthread_rwlock_wrlock(t)
  <2>1. /\ Runs(t) /\ asleep[t] = Awake /\ rwheld[t] = "not"
    BY ZenonT(60), <1>3 DEF pthread_rwlock_wrlock, Runs
  <2>2. CASE /\ ~WritersWait /\ SetWriter(t)
             /\ Overtake(RwLock, Notified(Readers) \cup Notified(Writers) # {})
    <3>1. RwLock \notin overtaken' => /\ ~rwlock.writer /\ rwlock.nr_readers = 0
                                     /\ Notified(Readers) = {} /\ Notified(Writers) \subseteq {t}
      BY <2>2 DEF Overtake, WritersWait
    <3> QED
      BY ZenonT(60), SMTT(30), <1>0, <2>1, <2>2, <3>1, WriterAdded
  <2>3. CASE /\ WritersWait /\ rwlock' = [rwlock EXCEPT !.nr_writers_queued = @ + 1]
             /\ Sleep(t, Writers) /\ UNCHANGED <<rwheld, overtaken>>
    BY ZenonT(60), SMTT(30), <1>0, <2>1, <2>3, RwWaits
  <2> QED
    BY <1>3, <2>2, <2>3 DEF pthread_rwlock_wrlock
<1>4. CASE ReaderWoken(t)
  <2>1. t \in Notified(Readers) /\ AddReader(t) /\ asleep[t] = Awake
    BY ZenonT(60), <1>4, ObjectLists DEF ReaderWoken, Notified, WaitTyped, OffList
  <2>2. /\ rwheld[t] = "not"
        /\ RwLock \notin overtaken' => ~rwlock.writer /\ Notified(Writers) = {}
    BY ZenonT(60), <1>0, <2>1 DEF RwInv, RwAway, RwGiven
  <2> QED
    BY <1>0, <2>1, <2>2, ReaderAdded
<1>5. CASE WriterWoken(t)
  <2>1. t \in Notified(Writers) /\ SetWriter(t) /\ asleep[t] = Awake
    BY ZenonT(60), <1>5, ObjectLists DEF WriterWoken, Notified, WaitTyped, OffList
  <2>2. /\ rwheld[t] = "not"
        /\ RwLock \notin overtaken' => /\ ~rwlock.writer /\ rwlock.nr_readers = 0
                                       /\ Notified(Readers) = {} /\ Notified(Writers) \subseteq {t}
    BY <1>0, <2>1 DEF RwInv, RwAway, RwGiven
  <2> QED
    BY <1>0, <2>1, <2>2, WriterAdded
<1> QED
  BY <1>0, <1>1, <1>2, <1>3, <1>4, <1>5, RwUnlockStep, ZenonT(60)

\* An object whose fields and lists a step keeps.
LEMMA ObjectsKept ==
  ASSUME overtaken \subseteq overtaken'
  PROVE  /\ CondInv /\ UNCHANGED <<cond, cmutex>> /\ Kept(Cond) => CondInv'
         /\ BarrierInv /\ UNCHANGED barrier /\ Kept(Barrier) => BarrierInv'
         /\ SemInv /\ UNCHANGED sem /\ Kept(Sem) => SemInv'
         /\ RwInv /\ UNCHANGED rwvars /\ Kept(Readers) /\ Kept(Writers) => RwInv'
<1>1. CondInv /\ UNCHANGED <<cond, cmutex>> /\ Kept(Cond) => CondInv'
  BY DEF CondInv, CondMutexAgrees, Kept
<1>2. BarrierInv /\ UNCHANGED barrier /\ Kept(Barrier) => BarrierInv'
  BY DEF BarrierInv, Kept
<1>3. SemInv /\ UNCHANGED sem /\ Kept(Sem) => SemInv'
  BY ZenonT(60) DEF SemInv, Kept
<1>4. ASSUME RwInv, UNCHANGED rwvars, Kept(Readers), Kept(Writers) PROVE RwInv'
  <2>1. Holding("read")' = Holding("read") /\ Holding("write")' = Holding("write")
        /\ rwlock' = rwlock /\ rwheld' = rwheld
    BY <1>4 DEF Holding, rwvars
  <2> QED
    BY <1>4, <2>1 DEF RwInv, RwTyped, RwCounted, RwAway, RwServed, RwGiven, Kept
<1> QED
  BY <1>1, <1>2, <1>3, <1>4

\* The objects as they are initialised.
LEMMA ObjectsInit ==
  ASSUME SyncInit, asleep = [t \in Thread |-> Awake], resume = [t \in Thread |-> Awake]
  PROVE  ObjectsInv
<1>1. \A K \in {Cond, Barrier, Readers, Writers, Sem} : Sleepers(K) = {} /\ Notified(K) = {}
  BY ZenonT(60), ObjectLists DEF Sleepers, Notified
<1>2. Cardinality({}) = 0
  BY FS_EmptySet
<1>3. Holding("read") = {} /\ Holding("write") = {}
  BY DEF SyncInit, Holding
<1>4. CondInv /\ BarrierInv
  <2>1. /\ Cardinality(Sleepers(Cond)) = 0 /\ Cardinality(Sleepers(Barrier)) = 0
        /\ Sleepers(Cond) = {} /\ InitCount \in Nat \ {0}
    BY <1>1, <1>2, SyncConstants, ZenonT(60)
  <2>2. cond \in [mutex : Mutex \cup {None}, queued : Nat] /\ cond.queued = 0
    BY DEF SyncInit
  <2>3. barrier = InitCount
    BY DEF SyncInit
  <2> QED
    BY <2>1, <2>2, <2>3 DEF CondInv, CondMutexAgrees, BarrierInv
<1>5. SemInv
  <2>1. sem = InitValue /\ InitValue \in Nat /\ UIntSize \in Nat /\ InitValue < UIntSize
    BY SyncConstants DEF SyncInit
  <2>2. Cardinality(Notified(Sem)) = 0 /\ Sleepers(Sem) = {}
    BY <1>1, <1>2, Zenon
  <2> QED
    BY SMTT(30), <2>1, <2>2 DEF SemInv
<1>6. RwInv
  BY ZenonT(60), <1>1, <1>2, <1>3 DEF SyncInit, RwInv, RwTyped, RwCounted, RwAway, RwServed, RwGiven
<1> QED
  BY ZenonT(60), <1>4, <1>5, <1>6, SyncInitInv DEF ObjectsInv

\* The inductive invariant of all the objects holds in every state.
LEMMA ObjectsInvariant == SyncSpec => []ObjectsInv
<1>1. SyncInit /\ asleep = [t \in Thread |-> Awake] /\ resume = [t \in Thread |-> Awake] => ObjectsInv
  BY ObjectsInit
<1>2. ObjectsInv /\ MutexInv' /\ [SyncNext]_<<syncvars, waiting>> => ObjectsInv'
  <2> SUFFICES ASSUME ObjectsInv, MutexInv', [SyncNext]_<<syncvars, waiting>>
               PROVE  ObjectsInv'
    OBVIOUS
  <2>0. WaitTyped /\ CondHasMutex /\ MutexInv /\ CondInv /\ BarrierInv /\ SemInv /\ RwInv
    BY ZenonT(60) DEF ObjectsInv, WaitTyped, MutexInv, MutexTyped
  <2>g. overtaken \subseteq overtaken'
    BY OvertakenGrows DEF syncvars
  <2>1. CASE MutexNext
    <3>1. UNCHANGED <<barrier, rwvars, sem>>
      BY <2>1 DEF MutexNext
    <3>2. CondInv'
      BY <2>0, <2>1, CondStep, Zenon
    <3> QED
      BY ZenonT(60), SMTT(30), <2>0, <2>g, <2>1, <3>1, <3>2, StepKeeps, ObjectsKept DEF ObjectsInv
  <2>2. CASE BarrierNext
    <3>1. UNCHANGED <<cond, cmutex, rwvars, sem>>
      BY <2>2 DEF BarrierNext, mutexvars
    <3>2. BarrierInv'
      BY <2>0, <2>2, BarrierStep, Zenon
    <3> QED
      BY ZenonT(60), <2>0, <2>g, <2>2, <3>1, <3>2, StepKeeps, ObjectsKept DEF ObjectsInv
  <2>3. CASE RwNext
    <3>1. UNCHANGED <<cond, cmutex, barrier, sem>>
      BY <2>3 DEF RwNext, mutexvars
    <3>2. RwInv'
      BY <2>0, <2>3, RwStep, ZenonT(60)
    <3> QED
      BY ZenonT(60), <2>0, <2>g, <2>3, <3>1, <3>2, StepKeeps, ObjectsKept DEF ObjectsInv
  <2>4. CASE SemNext
    <3>1. UNCHANGED <<cond, cmutex, barrier, rwvars>>
      BY <2>4 DEF SemNext, mutexvars
    <3>2. SemInv'
      BY <2>0, <2>4, SemStep, ZenonT(60)
    <3> QED
      BY ZenonT(60), SMTT(30), <2>0, <2>g, <2>4, <3>1, <3>2, StepKeeps, ObjectsKept DEF ObjectsInv
  <2>5. CASE UNCHANGED <<syncvars, waiting>>
    <3>1. UNCHANGED <<cond, cmutex, barrier, rwvars, sem, overtaken>> /\ UNCHANGED waiting
      BY <2>5 DEF syncvars, mutexvars, rwvars
    <3>2. \A K \in {Cond, Barrier, Readers, Writers, Sem} : Kept(K)
      BY <3>1, WaitingKept, Zenon
    <3> QED
      BY <2>0, <2>g, <3>1, <3>2, ObjectsKept DEF ObjectsInv
  <2> QED
    BY <2>1, <2>2, <2>3, <2>4, <2>5 DEF SyncNext
<1> QED
  BY <1>1, <1>2, MutexInvariant, PTL DEF SyncSpec

-----------------------------------------------------------------------------
\* No wake-up is lost, whatever the executor runs and for any number of threads: the
\* sleepers of a mutex or of the read-write lock always have a holder or a notified
\* thread to pass it on, fewer threads than InitCount sleep at the barrier, and until
\* a caller overtakes a notified thread the semaphore keeps no unit from its sleepers
\* (atomic_mutex_unlock, atomic_rwlock_unlock, pthread_barrier_wait, sem_post).
THEOREM WakeupsKept == SyncSpec => []NoLostWakeup
<1>1. ObjectsInv => NoLostWakeup
  <2> SUFFICES ASSUME ObjectsInv PROVE NoLostWakeup
    OBVIOUS
  <2>1. MutexServed /\ RwServed /\ SemServed
    BY DEF ObjectsInv, MutexInv, RwInv, SemInv, SemServed
  <2>2. BarrierServed
    <3>1. Cardinality(Sleepers(Barrier)) \in Nat
      BY SleepersFinite, FS_CardinalityType, Zenon
    <3>2. InitCount \in Nat
      BY SyncConstants
    <3> QED
      BY <3>1, <3>2 DEF ObjectsInv, BarrierInv, BarrierServed
  <2> QED
    BY <2>1, <2>2 DEF NoLostWakeup
<1> QED
  BY <1>1, ObjectsInvariant, PTL

\* Whatever the executor runs, a writer holds the read-write lock alone until one of
\* three moments: a reader or a writer finds the lock free on its way to a notified
\* thread, or an unlock notifies a writer before notified readers have gone on
\* (atomic_rwlock_rdlock, atomic_rwlock_wrlock and atomic_rwlock_unlock, which do not
\* look at the lock again after a sleep, nor count who is notified).
THEOREM RwSafe == SyncSpec => []RwExclusive
<1>1. ObjectsInv => RwExclusive
  <2> SUFFICES ASSUME ObjectsInv, RwLock \notin overtaken, NEW t \in Thread, rwheld[t] = "write",
                      NEW u \in Thread, u # t
               PROVE  rwheld[u] = "not"
    BY DEF RwExclusive
  <2>1. /\ rwlock.nr_readers = Cardinality(Holding("read")) /\ rwlock.nr_readers = 0
        /\ \A v \in Holding("write") : v = t
    BY DEF ObjectsInv, RwInv, RwGiven, Holding
  <2>2. Holding("read") = {}
    BY ZenonT(60), <2>1, HoldingFinite, FS_EmptySet
  <2> QED
    BY <2>1, <2>2 DEF ObjectsInv, RwInv, RwTyped, Holding
<1> QED
  BY <1>1, ObjectsInvariant, PTL

\* Whatever the executor runs and however often sem_post is called, until a caller
\* takes a unit meant for a notified thread, or a post wraps the count, the count
\* has a unit for every notified thread: atomic_sem_down, which decrements without a
\* second look, does not wrap it below zero.
THEOREM SemSafe == SyncSpec => []SemUnitsKept
<1>1. ObjectsInv => SemUnitsKept
  BY DEF ObjectsInv, SemInv, SemUnitsKept
<1> QED
  BY <1>1, ObjectsInvariant, PTL

\* Whatever the executor runs, the counters of every object are the numbers of threads on
\* its lists, so that klee_thread_notify's expected_queue_size is right, and all the
\* threads in pthread_cond_wait gave the mutex that the condition variable records.
THEOREM CountersExact == SyncSpec => [](QueuesCounted /\ CondMutexAgrees)
<1>1. ObjectsInv => QueuesCounted /\ CondMutexAgrees
  BY ZenonT(60) DEF ObjectsInv, MutexInv, MutexCounted, CondInv, BarrierInv, RwInv, RwCounted,
         QueuesCounted
<1> QED
  BY <1>1, ObjectsInvariant, PTL

\* What mutex_init_symbolic and cond_init_symbolic assume of a region's start is true
\* of the program's state, for every right bound on the waiting threads.
THEOREM SymbolicStarts == SyncSpec => []SymbolicStartAdmits
<1>1. ObjectsInv => SymbolicStartAdmits
  <2> SUFFICES ASSUME ObjectsInv, NEW must \in 0 .. Cardinality(Thread),
                      NEW may \in 0 .. Cardinality(Thread)
               PROVE  /\ \A m \in Mutex :
                           Cardinality(Sleepers(Lock(m))) \in must .. may =>
                             mutex_init_symbolic(queued[m], must, may)
                      /\ Cardinality(Sleepers(Cond)) \in must .. may =>
                           cond_init_symbolic(cond.queued, must, may)
    BY DEF SymbolicStartAdmits
  <2>1. Cardinality(Thread) \in Nat
    BY SyncConstants, FS_CardinalityType
  <2>2. must \in Int /\ may \in Int
    BY <2>1
  <2> QED
    BY SMTT(30), <2>2 DEF ObjectsInv, MutexInv, MutexCounted, CondInv,
                mutex_init_symbolic, cond_init_symbolic
<1> QED
  BY <1>1, ObjectsInvariant, PTL

=============================================================================
