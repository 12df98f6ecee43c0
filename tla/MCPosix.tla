------------------------------- MODULE MCPosix -------------------------------
(***************************************************************************)
(* The symbolic POSIX layer for TLC, and its recordings replayed.  A          *)
(* behaviour uses the objects of one family, so that the families' state      *)
(* spaces add up.                                                          *)
(***************************************************************************)
EXTENDS SyncReplay, PosixThreads, TLC

VARIABLE uses

allvars == <<syncvars, threadvars, waiting, recvars, rtvars, uses>>

\* For the synchronisation objects all threads have been created.
AllCreated ==
  /\ slot = [t \in Thread |-> {"allocated", "joinable"}]
  /\ live_threads = Cardinality(Thread) /\ live = Thread
  /\ gen = [t \in Thread |-> 0] /\ joining = [t \in Thread |-> 0] /\ created = 0
-----------------------------------------------------------------------------
(* The programs that are recorded and replayed, as the scripts of four        *)
(* threads: contended and nested locks, trylock, one and several waiters,     *)
(* signals with and without the mutex, failing calls, two rounds of a barrier, *)
(* a barrier with too many threads, semaphores and pthread_once.              *)

C(name) == [call |-> name, mutex |-> None]
M(name, m) == [call |-> name, mutex |-> m]
Locked(m, calls) == <<M("lock", m)>> \o calls \o <<M("unlock", m)>>

Programs(m, n) ==
  { << Locked(m, <<>>), Locked(m, <<>>), <<M("trylock", m), M("unlock", m)>>, <<>> >>,
    << Locked(m, Locked(n, <<>>)), Locked(n, <<>>) \o Locked(m, <<>>), <<>>, <<>> >>,
    << Locked(m, <<M("wait", m)>>), Locked(m, <<M("wait", m)>>),
       Locked(m, <<C("broadcast"), C("signal")>>), <<>> >>,
    << Locked(m, <<M("wait", m)>>), Locked(m, <<C("signal")>>),
       Locked(m, <<M("wait", m)>>), <<>> >>,
    << Locked(m, <<M("wait", m)>>), <<C("signal"), M("wait", m)>>, <<>>, <<>> >>,
    << <<C("barrier"), C("barrier")>>, <<C("barrier"), C("barrier")>>,
       <<C("barrier"), C("once"), C("barrier")>>, <<>> >>,
    << <<C("barrier")>>, <<C("barrier")>>, <<C("barrier")>>, <<C("barrier")>> >>,
    << <<C("down"), C("up")>>, <<C("up"), C("down")>>, <<C("trydown"), C("once")>>, <<>> >>,
    << <<C("once")>> \o Locked(m, <<>>), <<C("once")>>,
       <<C("once")>> \o Locked(m, <<>>), <<>> >> }

SomeProgram ==
  \E m \in Mutex : \E n \in Mutex \ {m} : \E p \in Programs(m, n) :
    \E i \in {i \in [Thread -> 1 .. 4] : \A t, u \in Thread : t # u => i[t] # i[u]} :
      script = [t \in Thread |-> p[i[t]]]
-----------------------------------------------------------------------------
MCInit ==
  /\ uses \in {"mutex", "barrier", "rwlock", "sem", "threads", "replay"}
  /\ IF uses = "threads" THEN ThreadsInit ELSE AllCreated
  /\ IF uses = "replay" THEN SomeProgram ELSE script = [t \in Thread |-> <<>>]
  /\ SyncInit
  /\ asleep = [t \in Thread |-> Awake]
  /\ resume = [t \in Thread |-> Awake]
  /\ RecordInit /\ ReplayInit

SyncOnly == UNCHANGED <<uses, threadvars, recvars, rtvars>>

MCNext ==
  \/ uses = "mutex" /\ MutexNext /\ SyncOnly
  \/ uses = "barrier" /\ BarrierNext /\ SyncOnly
  \/ uses = "rwlock" /\ RwNext /\ SyncOnly
  \/ uses = "sem" /\ SemNext /\ SyncOnly
  \/ uses = "threads" /\ ThreadsNext /\ UNCHANGED <<uses, syncvars, recvars, rtvars>>
  \/ uses = "replay" /\ ReplayNext /\ UNCHANGED <<uses, threadvars>>

MCSpec == MCInit /\ [][MCNext]_allvars

\* The recordings and their replay only.
ReplaySpec == MCInit /\ uses = "replay" /\ [][MCNext]_allvars

Symmetry == Permutations(Thread) \cup Permutations(Mutex)
=============================================================================
