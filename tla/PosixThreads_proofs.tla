------------------------ MODULE PosixThreads_proofs -------------------------
(***************************************************************************)
(* Proofs about the threads of the symbolic POSIX layer, for any table size *)
(* and any number of threads created: who sleeps in pthread_join or          *)
(* pthread_joinall will be woken, and finds the thread it asked for.         *)
(***************************************************************************)
EXTENDS PosixThreads, FiniteSetTheorems, TLAPS

Slots == SUBSET {"allocated", "terminated", "joinable", "hasjoiner"}

Lists == {Awake, JoinAll} \cup {Join(u) : u \in Thread}

ThreadsTyped ==
  /\ slot \in [Thread -> Slots]
  /\ live \subseteq Thread /\ live_threads \in Int /\ created \in Nat
  /\ gen \in [Thread -> Nat] /\ joining \in [Thread -> Nat]
  /\ asleep \in [Thread -> Lists] /\ resume \in [Thread -> Lists]

\* A slot in use whose thread has not ended is that of a running thread.
SlotsLive == \A t \in Thread : "allocated" \in slot[t] /\ "terminated" \notin slot[t] => t \in live

WaitsFor(t, u) == asleep[t] = Join(u) \/ resume[t] = Join(u)

\* A slot that somebody waits for is taken by one joiner, who has marked it.
OneJoiner ==
  \A t, u \in Thread : WaitsFor(t, u) =>
    /\ "allocated" \in slot[u] /\ "hasjoiner" \in slot[u]
    /\ \A v \in Thread : WaitsFor(v, u) => v = t

\* A notified thread is off its list.
OffList == \A t \in Thread : asleep[t] = Awake \/ resume[t] = Awake

ThreadsInv ==
  /\ ThreadsTyped /\ LiveCounted /\ SlotOwned /\ SlotsLive
  /\ JoinServed /\ JoinAllServed /\ OneJoiner /\ OffList

-----------------------------------------------------------------------------

\* The waiting lists are distinct.
LEMMA ListsDiffer ==
  /\ Awake # JoinAll
  /\ \A u : Join(u) # Awake /\ Join(u) # JoinAll
  /\ \A u, v : Join(u) = Join(v) => u = v
  BY DEF Awake, JoinAll, Join

\* The names of the lists.
LEMMA ListsTyped ==
  Awake \in Lists /\ JoinAll \in Lists /\ \A u \in Thread : Join(u) \in Lists
  BY DEF Lists

\* The initial state.
LEMMA ThreadsInitInv ==
  ASSUME ThreadsInit, asleep = [t \in Thread |-> Awake], resume = [t \in Thread |-> Awake]
  PROVE  ThreadsInv
<1>1. PICK main \in Thread :
        /\ slot = [t \in Thread |-> IF t = main
                     THEN {"allocated", "joinable"}
                     ELSE Cleared]
        /\ live_threads = 1 /\ live = {main} /\ created = 0
        /\ gen = [t \in Thread |-> 0] /\ joining = [t \in Thread |-> 0]
  BY DEF ThreadsInit
<1>2. ThreadsTyped
  <2>1. slot \in [Thread -> Slots]
    BY <1>1 DEF Slots, Cleared
  <2> QED
    BY <1>1, <2>1, ListsTyped DEF ThreadsTyped
<1>3. LiveCounted
  BY <1>1, FS_Singleton, Zenon DEF LiveCounted
<1>4. SlotOwned /\ SlotsLive
  BY <1>1 DEF SlotOwned, SlotsLive, Cleared
<1>5. JoinServed /\ JoinAllServed /\ OneJoiner /\ OffList
  BY ListsDiffer DEF JoinServed, JoinAllServed, OneJoiner, OffList, WaitsFor, Sleepers
<1> QED
  BY <1>2, <1>3, <1>4, <1>5 DEF ThreadsInv

\* pthread_create takes a slot that nobody runs in and nobody waits for.
LEMMA CreateInv ==
  ASSUME ThreadsInv, NEW t \in Thread, NEW new \in Thread, pthread_create(t, new)
  PROVE  ThreadsInv'
<1> USE DEF ThreadsInv, ThreadsTyped, pthread_create, waiting
<1>1. ThreadsTyped'
  BY DEF Slots
<1>2. new \notin live /\ \A v \in Thread : ~WaitsFor(v, new)
  BY DEF SlotOwned, OneJoiner
<1>3. LiveCounted'
  <2>1. IsFiniteSet(live)
    BY FS_Subset, ThreadsConstants
  <2>2. Cardinality(live \cup {new}) = Cardinality(live) + 1
    BY <1>2, <2>1, FS_AddElement, Zenon
  <2> QED
    BY <2>2 DEF LiveCounted
<1>4. SlotOwned' /\ SlotsLive'
  BY DEF SlotOwned, SlotsLive, Slots
<1>5. JoinServed'
  BY <1>2 DEF JoinServed, WaitsFor, Slots
<1>6. JoinAllServed'
  BY DEF JoinAllServed, Sleepers
<1>7. OneJoiner' /\ OffList'
  BY <1>2 DEF OneJoiner, OffList, WaitsFor, Slots
<1> QED
  BY <1>1, <1>3, <1>4, <1>5, <1>6, <1>7

\* pthread_exit wakes its joiner and the caller of pthread_joinall.
LEMMA ExitInv ==
  ASSUME ThreadsInv, NEW t \in Thread, pthread_exit(t)
  PROVE  ThreadsInv'
<1> DEFINE ts == ExitNotifies(t)
<1>1. /\ t \in live /\ asleep[t] = Awake /\ resume[t] = Awake
      /\ slot' = [slot EXCEPT ![t] = IF "joinable" \in @ THEN @ \cup {"terminated"}
                                                        ELSE Cleared]
      /\ live_threads' = live_threads - 1 /\ live' = live \ {t}
      /\ UNCHANGED <<gen, created, joining>>
  BY DEF pthread_exit, InProgram, Runs
<1>2. /\ asleep' = [u \in Thread |-> IF u \in ts THEN Awake ELSE asleep[u]]
      /\ resume' = [u \in Thread |-> IF u \in ts THEN asleep[u] ELSE resume[u]]
  BY DEF pthread_exit, Notify
<1>3. \A u \in Thread : u \in ts <=> asleep[u] = JoinAll \/ asleep[u] = Join(t)
  BY DEF ExitNotifies, Sleepers, ThreadsInv, JoinServed
<1> HIDE DEF ts
<1>4. \A v, u \in Thread : WaitsFor(v, u)' <=> WaitsFor(v, u)
  BY <1>2, <1>3, ListsDiffer DEF WaitsFor, ThreadsInv, OffList, ThreadsTyped
<1>5. ThreadsTyped'
  <2>1. slot' \in [Thread -> Slots]
    BY <1>1 DEF ThreadsInv, ThreadsTyped, Slots, Cleared
  <2> QED
    BY <1>1, <1>2, <2>1, ListsTyped DEF ThreadsInv, ThreadsTyped
<1>6. LiveCounted'
  <2>1. IsFiniteSet(live)
    BY FS_Subset, ThreadsConstants DEF ThreadsInv, ThreadsTyped
  <2>2. Cardinality(live \ {t}) = Cardinality(live) - 1
    BY <1>1, <2>1, FS_RemoveElement, Zenon
  <2> QED
    BY <1>1, <2>2 DEF LiveCounted, ThreadsInv
<1>7. SlotOwned' /\ SlotsLive'
  BY <1>1 DEF Cleared, ThreadsInv, ThreadsTyped, SlotOwned, SlotsLive, Slots
<1>8. OneJoiner'
  <2>1. ASSUME NEW v \in Thread, NEW u \in Thread, WaitsFor(v, u)
        PROVE  "allocated" \in slot'[u] /\ "hasjoiner" \in slot'[u]
    <3>1. "allocated" \in slot[u] /\ "hasjoiner" \in slot[u]
      BY <2>1 DEF ThreadsInv, OneJoiner
    <3>2. CASE u = t
      <4>1. asleep[v] = Join(t)
        BY <1>1, <2>1, <3>2 DEF ThreadsInv, JoinServed, SlotOwned, WaitsFor
      <4>2. "joinable" \in slot[t]
        BY <4>1 DEF ThreadsInv, JoinServed
      <4> QED
        BY <1>1, <3>1, <3>2, <4>2 DEF ThreadsInv, ThreadsTyped, Slots
    <3>3. CASE u # t
      BY <1>1, <3>1, <3>3 DEF ThreadsInv, ThreadsTyped
    <3> QED
      BY <3>2, <3>3
  <2> QED
    BY <1>4, <2>1 DEF ThreadsInv, OneJoiner
<1>9. JoinServed'
  <2> SUFFICES ASSUME NEW v \in Thread, NEW u \in Thread, WaitsFor(v, u)
               PROVE  /\ asleep'[v] = Join(u) => u \in live' /\ "joinable" \in slot'[u]
                      /\ resume'[v] = Join(u) => "allocated" \in slot'[u] /\ "terminated" \in slot'[u]
                      /\ gen'[u] = joining'[v]
    BY <1>4 DEF JoinServed, WaitsFor
  <2>1. gen'[u] = joining'[v]
    BY <1>1 DEF ThreadsInv, JoinServed, WaitsFor
  <2>2. CASE u = t
    <3>1. asleep[v] = Join(t) /\ "joinable" \in slot[t] /\ "allocated" \in slot[t]
      BY <1>1, <2>2 DEF ThreadsInv, JoinServed, SlotOwned, WaitsFor
    <3>2. asleep'[v] = Awake
      BY <1>2, <1>3, <3>1
    <3> QED
      BY <1>1, <2>1, <2>2, <3>1, <3>2, ListsDiffer DEF ThreadsInv, ThreadsTyped, Slots
  <2>3. CASE u # t
    <3>1. asleep'[v] = Join(u) => asleep[v] = Join(u)
      BY <1>2, ListsDiffer DEF ThreadsInv, ThreadsTyped
    <3>2. resume'[v] = Join(u) => resume[v] = Join(u)
      BY <1>2, <1>3, <2>3, ListsDiffer DEF ThreadsInv, ThreadsTyped
    <3>3. slot'[u] = slot[u] /\ (u \in live => u \in live')
      BY <1>1, <2>3 DEF ThreadsInv, ThreadsTyped
    <3> QED
      BY <2>1, <3>1, <3>2, <3>3 DEF ThreadsInv, JoinServed
  <2> QED
    BY <2>2, <2>3
<1>10. JoinAllServed' /\ OffList'
  BY <1>2, <1>3, ListsDiffer DEF ThreadsInv, ThreadsTyped, JoinAllServed, OffList, Sleepers
<1> QED
  BY <1>5, <1>6, <1>7, <1>8, <1>9, <1>10 DEF ThreadsInv

\* A slot whose thread has ended is given back while nobody waits for it.
LEMMA FreeInv ==
  ASSUME ThreadsInv, NEW u \in Thread, "terminated" \in slot[u],
         \A v \in Thread : ~WaitsFor(v, u),
         slot' = [slot EXCEPT ![u] = Cleared],
         UNCHANGED <<live_threads, live, gen, created, joining, asleep, resume>>
  PROVE  ThreadsInv'
<1>1. u \notin live /\ \A v \in Thread \ {u} : slot'[v] = slot[v]
  BY DEF ThreadsInv, ThreadsTyped, SlotOwned
<1>2. ThreadsTyped' /\ LiveCounted' /\ SlotOwned' /\ SlotsLive'
  BY <1>1 DEF Cleared, Slots, ThreadsInv, ThreadsTyped, LiveCounted, SlotOwned, SlotsLive
<1>3. OneJoiner' /\ JoinServed' /\ JoinAllServed' /\ OffList'
  BY <1>1 DEF ThreadsInv, OneJoiner, JoinServed, JoinAllServed, OffList, WaitsFor, Sleepers
<1> QED
  BY <1>2, <1>3 DEF ThreadsInv

\* pthread_join up to its sleep: it is the one joiner of the slot.
LEMMA JoinInv ==
  ASSUME ThreadsInv, NEW t \in Thread, NEW u \in Thread, pthread_join(t, u)
  PROVE  ThreadsInv'
<1>1. /\ asleep[t] = Awake /\ resume[t] = Awake
      /\ "allocated" \in slot[u] /\ "joinable" \in slot[u] /\ "hasjoiner" \notin slot[u]
      /\ UNCHANGED <<live_threads, live, gen, created>>
  BY DEF pthread_join, InProgram, Runs
<1>2. \A v \in Thread : ~WaitsFor(v, u)
  BY <1>1 DEF ThreadsInv, OneJoiner
<1>3. CASE "terminated" \notin slot[u]
  <2>1. /\ slot' = [slot EXCEPT ![u] = @ \cup {"hasjoiner"}]
        /\ joining' = [joining EXCEPT ![t] = gen[u]]
        /\ asleep' = [asleep EXCEPT ![t] = Join(u)]
        /\ resume' = [resume EXCEPT ![t] = Awake]
    BY <1>3 DEF pthread_join, Sleep
  <2>2. /\ slot' \in [Thread -> Slots]
        /\ \A v \in Thread : /\ "allocated" \in slot'[v] <=> "allocated" \in slot[v]
                             /\ "terminated" \in slot'[v] <=> "terminated" \in slot[v]
                             /\ "joinable" \in slot'[v] <=> "joinable" \in slot[v]
                             /\ v # u => slot'[v] = slot[v]
        /\ "hasjoiner" \in slot'[u]
    BY <2>1 DEF ThreadsInv, ThreadsTyped, Slots
  <2>3. \A v, x \in Thread : WaitsFor(v, x)' <=> WaitsFor(v, x) \/ (v = t /\ x = u)
    BY <1>1, <2>1, ListsDiffer DEF WaitsFor, ThreadsInv, ThreadsTyped
  <2>4. ThreadsTyped'
    BY <1>1, <2>1, <2>2, ListsTyped DEF ThreadsInv, ThreadsTyped
  <2>5. LiveCounted' /\ SlotOwned' /\ SlotsLive'
    BY <1>1, <2>2 DEF ThreadsInv, ThreadsTyped, LiveCounted, SlotOwned, SlotsLive
  <2>6. OneJoiner'
    BY <1>1, <1>2, <2>2, <2>3 DEF ThreadsInv, OneJoiner
  <2>7. JoinServed'
    BY <1>1, <1>3, <2>1, <2>2, ListsDiffer DEF ThreadsInv, ThreadsTyped, JoinServed, SlotsLive
  <2>8. JoinAllServed' /\ OffList'
    BY <1>1, <2>1, ListsDiffer DEF ThreadsInv, ThreadsTyped, JoinAllServed, OffList, Sleepers
  <2> QED
    BY <2>4, <2>5, <2>6, <2>7, <2>8 DEF ThreadsInv
<1>4. CASE "terminated" \in slot[u]
  <2>1. slot' = [slot EXCEPT ![u] = Cleared] /\ UNCHANGED <<joining, asleep, resume>>
    BY <1>4 DEF pthread_join, waiting
  <2>2. UNCHANGED <<live_threads, live, gen, created, joining, asleep, resume>>
    BY <1>1, <2>1
  <2> QED
    BY <1>2, <1>4, <2>1, <2>2, FreeInv, Zenon
<1> QED
  BY <1>3, <1>4

\* The rest of pthread_join gives back a slot that nobody else waits for.
LEMMA JoinWokenInv ==
  ASSUME ThreadsInv, NEW t \in Thread, NEW u \in Thread, JoinWoken(t, u)
  PROVE  ThreadsInv'
<1>1. /\ resume[t] = Join(u) /\ asleep[t] = Awake
      /\ slot' = [slot EXCEPT ![u] = Cleared]
      /\ joining' = [joining EXCEPT ![t] = 0]
      /\ resume' = [resume EXCEPT ![t] = Awake]
      /\ UNCHANGED <<asleep, live_threads, live, gen, created>>
  BY ListsDiffer DEF JoinWoken, GoOn, ThreadsInv, OffList
<1>2. "terminated" \in slot[u] /\ u \notin live
  BY <1>1 DEF ThreadsInv, JoinServed, SlotOwned
<1>3. \A v, x \in Thread : WaitsFor(v, x)' <=> WaitsFor(v, x) /\ v # t
  BY <1>1, ListsDiffer DEF WaitsFor, ThreadsInv, ThreadsTyped
<1>4. \A v \in Thread \ {t} : ~WaitsFor(v, u)
  BY <1>1 DEF ThreadsInv, OneJoiner, WaitsFor
<1>5. \A v \in Thread \ {u} : slot'[v] = slot[v]
  BY <1>1 DEF ThreadsInv, ThreadsTyped
<1>6. ThreadsTyped'
  BY <1>1, ListsTyped DEF Cleared, Slots, ThreadsInv, ThreadsTyped
<1>7. LiveCounted' /\ SlotOwned' /\ SlotsLive'
  BY <1>1, <1>2 DEF Cleared, Slots, ThreadsInv, ThreadsTyped, LiveCounted, SlotOwned, SlotsLive
<1>8. OneJoiner'
  BY <1>3, <1>4, <1>5 DEF ThreadsInv, OneJoiner
<1>9. JoinServed'
  BY <1>1, <1>3, <1>4, <1>5, ListsDiffer DEF ThreadsInv, ThreadsTyped, JoinServed, WaitsFor
<1>10. JoinAllServed' /\ OffList'
  BY <1>1 DEF ThreadsInv, ThreadsTyped, JoinAllServed, OffList, Sleepers
<1> QED
  BY <1>6, <1>7, <1>8, <1>9, <1>10 DEF ThreadsInv

\* pthread_joinall and its loop.
LEMMA JoinAllInv ==
  ASSUME ThreadsInv, NEW t \in Thread, pthread_joinall(t) \/ JoinAllWoken(t)
  PROVE  ThreadsInv'
<1>1. /\ asleep[t] = Awake /\ UNCHANGED threadvars
      /\ resume' = [resume EXCEPT ![t] = Awake]
      /\ \A u \in Thread : resume[t] # Join(u)
      /\ \/ asleep' = [asleep EXCEPT ![t] = JoinAll] /\ live_threads > 1
         \/ asleep' = asleep
  BY ListsDiffer DEF pthread_joinall, JoinAllWoken, InProgram, Runs, Sleep, GoOn, ThreadsInv,
     OffList, ThreadsTyped
<1>2. \A v, x \in Thread : /\ asleep'[v] = Join(x) <=> asleep[v] = Join(x)
                           /\ resume'[v] = Join(x) <=> resume[v] = Join(x)
  BY <1>1, ListsDiffer DEF ThreadsInv, ThreadsTyped
<1>3. ThreadsTyped'
  BY <1>1, ListsTyped DEF ThreadsInv, ThreadsTyped, threadvars
<1>4. LiveCounted' /\ SlotOwned' /\ SlotsLive' /\ JoinServed' /\ OneJoiner'
  BY <1>1, <1>2 DEF ThreadsInv, LiveCounted, SlotOwned, SlotsLive, JoinServed, OneJoiner,
     WaitsFor, threadvars
<1>5. JoinAllServed' /\ OffList'
  BY <1>1, ListsDiffer
     DEF ThreadsInv, ThreadsTyped, JoinAllServed, OffList, Sleepers, threadvars
<1> QED
  BY <1>3, <1>4, <1>5 DEF ThreadsInv

\* pthread_detach of a thread that nobody joins.
LEMMA DetachInv ==
  ASSUME ThreadsInv, NEW t \in Thread, NEW u \in Thread, pthread_detach(t, u)
  PROVE  ThreadsInv'
<1>1. /\ "allocated" \in slot[u] /\ "joinable" \in slot[u] /\ "hasjoiner" \notin slot[u]
      /\ slot' = [slot EXCEPT ![u] = IF "terminated" \in @ THEN Cleared
                                                          ELSE @ \ {"joinable"}]
      /\ UNCHANGED <<live_threads, live, gen, created, joining, asleep, resume>>
  BY DEF pthread_detach, waiting
<1>2. \A v \in Thread : ~WaitsFor(v, u)
  BY <1>1 DEF ThreadsInv, OneJoiner
<1>3. CASE "terminated" \in slot[u]
  <2>1. slot' = [slot EXCEPT ![u] = Cleared]
    BY <1>1, <1>3
  <2> QED
    BY <1>1, <1>2, <1>3, <2>1, FreeInv, Zenon
<1>4. CASE "terminated" \notin slot[u]
  <2>2. slot' = [slot EXCEPT ![u] = @ \ {"joinable"}]
    BY <1>1, <1>4
  <2>3. \A v \in Thread : /\ "allocated" \in slot'[v] <=> "allocated" \in slot[v]
                          /\ "terminated" \in slot'[v] <=> "terminated" \in slot[v]
                          /\ v # u => slot'[v] = slot[v]
    BY <2>2 DEF ThreadsInv, ThreadsTyped, Slots
  <2>4. ThreadsTyped'
    BY <1>1, <2>2 DEF ThreadsInv, ThreadsTyped, Slots
  <2>6. LiveCounted' /\ SlotOwned' /\ SlotsLive'
    BY SMTT(30), <1>1, <2>3 DEF ThreadsInv, ThreadsTyped, LiveCounted, SlotOwned, SlotsLive
  <2>5. OneJoiner' /\ JoinServed' /\ JoinAllServed' /\ OffList'
    BY <1>1, <1>2, <2>3 DEF ThreadsInv, OneJoiner, JoinServed, JoinAllServed, OffList, WaitsFor,
       Sleepers
  <2> QED
    BY <2>4, <2>5, <2>6 DEF ThreadsInv
<1> QED
  BY <1>3, <1>4

-----------------------------------------------------------------------------

\* The invariant holds in every reachable state.
LEMMA ThreadsInvariant == ThreadsSpec => []ThreadsInv
<1>1. ThreadsInit /\ asleep = [t \in Thread |-> Awake] /\ resume = [t \in Thread |-> Awake]
      => ThreadsInv
  BY ThreadsInitInv
<1>2. ThreadsInv /\ [ThreadsNext]_<<threadvars, waiting>> => ThreadsInv'
  <2> SUFFICES ASSUME ThreadsInv, [ThreadsNext]_<<threadvars, waiting>> PROVE ThreadsInv'
    OBVIOUS
  <2>1. CASE ThreadsNext
    BY <2>1, ExitInv, JoinAllInv, CreateInv, JoinInv, JoinWokenInv, DetachInv, Zenon
       DEF ThreadsNext
  <2>2. CASE UNCHANGED <<threadvars, waiting>>
    BY <2>2 DEF threadvars, waiting, ThreadsInv, ThreadsTyped, LiveCounted, SlotOwned, SlotsLive,
       JoinServed, JoinAllServed, OneJoiner, OffList, WaitsFor, Sleepers
  <2> QED
    BY <2>1, <2>2
<1> QED
  BY <1>1, <1>2, PTL DEF ThreadsSpec

\* pthread_join returns the result of the thread it was called for: a joiner sleeps only
\* on a thread that runs and will notify it, and finds the slot as that thread left it;
\* and the slot of a running thread is never given back.
THEOREM JoinsServed == ThreadsSpec => [](JoinServed /\ SlotOwned)
<1>1. ThreadsInv => JoinServed /\ SlotOwned
  BY Zenon DEF ThreadsInv
<1> QED
  BY <1>1, ThreadsInvariant, PTL

\* pthread_joinall does not outsleep the last other thread, and live_threads, which it
\* reads, is the number of threads that run.
THEOREM JoinAllsServed == ThreadsSpec => [](JoinAllServed /\ LiveCounted)
<1>1. ThreadsInv => JoinAllServed /\ LiveCounted
  BY Zenon DEF ThreadsInv
<1> QED
  BY <1>1, ThreadsInvariant, PTL

=============================================================================
