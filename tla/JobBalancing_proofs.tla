------------------------ MODULE JobBalancing_proofs -------------------------
(***************************************************************************)
(* Proofs about the load balancer and its workers, for any number of       *)
(* workers, any program with a finite tree, any BalanceRate and any number *)
(* of faults: what the declaration that the exploration is done can        *)
(* overlook, what the threads of a worker rely on around jobsMutex, that   *)
(* the two ends of a transfer stay in agreement, that without a fault the  *)
(* balancer runs on, and that no job is explored twice or lost.            *)
(***************************************************************************)
EXTENDS JobBalancing, FiniteSetTheorems, SequenceTheorems, TLAPS

\* The ranges of the variables the argument reads.
Typed ==
  /\ workers \subseteq Worker /\ reports \subseteq workers
  /\ rounds \in 0..BalanceRate - 1
  /\ totalJobs \in [Worker -> Nat]
  /\ msg \in [Worker -> Nat \cup {None}]
  /\ exec \in [Worker -> {"loop", "checked", "wait", "step", "stepped", "ended"}]
  /\ jobs \in [Worker -> SUBSET Job]
  /\ currentJob \in [Worker -> Job \cup {None}]
  /\ arrived \in [Worker -> BOOLEAN]
  /\ \A m \in peer : m.jobs \subseteq Job

\* A worker that said it has no job, in the report on its way or in the last one that
\* was counted, has only jobs that came in since.
ReportedIdle ==
  \A w \in Worker :
    /\ msg[w] = 0 \/ (w \in reports /\ totalJobs[w] = 0 /\ ~ReportsWork(w))
    /\ jobs[w] # {}
    => arrived[w]

\* The inductive invariant.
DoneInv == Typed /\ SleepsOnlyIdle /\ CurrentJobStays /\ ReportedIdle

-----------------------------------------------------------------------------

\* A worker's jobs are finitely many, so that jobCount is a number and is 0 only for
\* an empty tree.
LEMMA JobCount ==
  ASSUME NEW S, S \subseteq Job
  PROVE  Cardinality(S) \in Nat /\ (Cardinality(S) = 0 => S = {})
<1>1. IsFiniteSet(S)
  BY FS_Subset, BalancingConstants
<1> QED
  BY <1>1, FS_CardinalityType, FS_EmptySet

\* A fork stays within the program's tree.
LEMMA Children ==
  ASSUME NEW j \in Branching
  PROVE  Append(j, 0) \in Job /\ Append(j, 1) \in Job
<1> DEFINE T == {Append(k, i) : k \in Branching, i \in {0, 1}}
<1>1. \A k \in Branching : \A i \in {0, 1} : Append(k, i) \in T
  OBVIOUS
<1>2. T \subseteq Job
  BY DEF Job
<1> HIDE DEF T
<1> QED
  BY <1>1, <1>2

\* The initial state.
LEMMA InitDone == Init => DoneInv
  BY BalancingConstants DEF Init, DoneInv, Typed, SleepsOnlyIdle, CurrentJobStays, ReportedIdle

\* What a thread of a worker keeps: the balancer's part of Typed is not touched.
LEMMA StutterDone ==
  ASSUME DoneInv, UNCHANGED vars
  PROVE  DoneInv'
  BY DEF DoneInv, Typed, SleepsOnlyIdle, CurrentJobStays, ReportedIdle, ReportsWork, vars,
         lbvars, netvars, treevars, threadvars

\* The end of a worker process, for whatever reason.
LEMMA EndDone ==
  ASSUME DoneInv, NEW w \in Worker, ProcessEnds(w)
  PROVE  DoneInv'
  BY ZenonT(60) DEF DoneInv, Typed, SleepsOnlyIdle, CurrentJobStays, ReportedIdle, ReportsWork,
         ProcessEnds, lbvars

\* The execution thread.
LEMMA ExecutionDone ==
  ASSUME DoneInv, NEW w \in Worker,
         \/ SelectJob(w) \/ CheckJobs(w) \/ WaitForJobs(w) \/ Branch(w)
         \/ Destroy(w) \/ EndStep(w) \/ EndLoop(w)
  PROVE  DoneInv'
<1> USE DEF DoneInv, Typed, SleepsOnlyIdle, CurrentJobStays, ReportedIdle, ReportsWork,
            lbvars, netvars
<1>1. CASE SelectJob(w)
  BY <1>1 DEF SelectJob
<1>2. CASE CheckJobs(w)
  BY <1>2 DEF CheckJobs, treevars
<1>3. CASE WaitForJobs(w)
  BY <1>3 DEF WaitForJobs, treevars
<1>4. CASE Branch(w)
  <2> DEFINE j == currentJob[w]
             kids == {Append(j, 0), Append(j, 1)}
  <2>1. j \in Branching
    BY <1>4 DEF Branch
  <2>2. kids \subseteq Job
    BY <2>1, Children, Zenon
  <2>5. PICK k \in kids : currentJob' = [currentJob EXCEPT ![w] = k]
    <3>1. PICK index \in {0, 1} : currentJob' = [currentJob EXCEPT ![w] = Append(j, 1 - index)]
      BY <1>4, Zenon DEF Branch
    <3>2. 1 - index \in {0, 1}
      BY <3>1
    <3>3. Append(j, 1 - index) \in kids
      BY <3>2, Zenon
    <3> QED
      BY <3>1, <3>3, Zenon
  <2>3. jobs' = [jobs EXCEPT ![w] = (@ \ {j}) \cup kids] /\ jobs[w] # {}
    BY <1>4 DEF Branch
  <2>4. /\ exec' = [exec EXCEPT ![w] = "stepped"]
        /\ UNCHANGED <<workers, reports, rounds, totalJobs, msg, arrived, peer>>
    BY <1>4 DEF Branch
  <2> HIDE DEF j, kids
  <2> QED
    BY <2>2, <2>3, <2>4, <2>5
<1>5. CASE Destroy(w)
  BY <1>5 DEF Destroy
<1>6. CASE EndStep(w)
  BY <1>6 DEF EndStep
<1>7. CASE EndLoop(w)
  BY <1>7 DEF EndLoop, treevars
<1> QED
  BY <1>1, <1>2, <1>3, <1>4, <1>5, <1>6, <1>7

\* The threads of a worker that talk to the balancer and to other workers.
LEMMA CommunicationDone ==
  ASSUME DoneInv, NEW w \in Worker,
         sendUpdates(w) \/ processResponse(w) \/ ReceiveJobs(w)
  PROVE  DoneInv'
<1> USE DEF DoneInv, Typed, SleepsOnlyIdle, CurrentJobStays, ReportedIdle, ReportsWork, lbvars
<1>1. CASE sendUpdates(w)
  <2>1. Cardinality(jobs[w]) \in Nat /\ (Cardinality(jobs[w]) = 0 => jobs[w] = {})
    BY ZenonT(60), JobCount
  <2> QED
    BY <1>1, <2>1, BalancingConstants DEF sendUpdates
<1>2. CASE processResponse(w)
  <2> DEFINE r == resp[w]
  <2>1. /\ (r.transfer # None \/ r.seed) => LockFree(w)
        /\ exec' = IF r.terminate \/ r.seed THEN Notified(w, exec) ELSE exec
        /\ UNCHANGED <<workers, reports, rounds, totalJobs, msg, currentJob>>
    BY <1>2 DEF processResponse
  <2>2. exec' \in {exec, [exec EXCEPT ![w] = "loop"]} /\ exec'[w] \in {exec[w], "loop"}
    BY <2>1 DEF Notified
  <2>3. CASE r.transfer # None /\ transferJobs(w, r.transfer)
    <3>1. PICK S \in Exports(w, r.transfer.count) :
            /\ jobs' = [jobs EXCEPT ![w] = @ \ S] /\ UNCHANGED arrived
            /\ peer' = IF Listening(r.transfer.to)
                         THEN peer \cup {[to |-> r.transfer.to, jobs |-> S]} ELSE peer
      BY <2>3, Zenon DEF transferJobs
    <3>4. S \subseteq jobs[w] \ {currentJob[w]}
      BY <3>1, Zenon DEF Exports
    <3>5. \A m \in peer' : m \in peer \/ m.jobs = S
      BY <3>1
    <3>2. S \subseteq Job /\ \A v \in Worker : jobs'[v] \subseteq jobs[v]
      BY <3>1, <3>4
    <3>3. \A m \in peer' : m.jobs \subseteq Job
      BY <3>2, <3>5
    <3> QED
      BY <2>1, <2>2, <3>1, <3>2, <3>3, <3>4
  <2>4. CASE r.seed /\ importJobs(w, {Root}) /\ UNCHANGED peer
    <3>1. exec'[w] \notin {"checked", "wait"}
      BY <2>1, <2>4 DEF LockFree, Notified
    <3>2. Root \in Job
      BY DEF Job
    <3> QED
      BY <2>1, <2>2, <2>4, <3>1, <3>2 DEF importJobs
  <2>5. CASE UNCHANGED <<jobs, arrived, peer>>
    BY <2>1, <2>2, <2>5
  <2> QED
    BY ZenonT(60), <1>2, <2>3, <2>4, <2>5 DEF processResponse
<1>3. CASE ReceiveJobs(w)
  <2>1. PICK m \in peer : peer' = peer \ {m} /\ importJobs(w, m.jobs)
    BY <1>3 DEF ReceiveJobs
  <2>2. /\ exec' = Notified(w, exec) /\ LockFree(w)
        /\ UNCHANGED <<workers, reports, rounds, totalJobs, msg, currentJob>>
    BY <1>3 DEF ReceiveJobs
  <2>3. exec' \in {exec, [exec EXCEPT ![w] = "loop"]} /\ exec'[w] \notin {"checked", "wait"}
    BY ZenonT(60), <2>2 DEF LockFree, Notified
  <2> QED
    BY ZenonT(60), <2>1, <2>2, <2>3 DEF importJobs
<1> QED
  BY <1>1, <1>2, <1>3

\* The handlers of the balancer.
LEMMA BalancerDone ==
  ASSUME DoneInv, NEW w \in Worker, BalancerStep(w)
  PROVE  DoneInv'
<1> USE DEF DoneInv, Typed, SleepsOnlyIdle, CurrentJobStays, ReportedIdle, ReportsWork,
            treevars, threadvars
<1>1. CASE registerWorker(w)
  BY <1>1 DEF registerWorker
<1>2. CASE HandleReport(w)
  <2>1. /\ w \in workers /\ msg[w] \in Nat
        /\ msg' = [msg EXCEPT ![w] = None]
        /\ totalJobs' = [totalJobs EXCEPT ![w] = msg[w]]
        /\ reports' \subseteq reports \cup {w}
        /\ UNCHANGED <<workers, peer, jobs, currentJob, arrived, exec>>
    BY <1>2 DEF HandleReport
  <2>2. rounds' \in 0..BalanceRate - 1
    BY <1>2, BalancingConstants DEF HandleReport, BalanceDue
  <2> QED
    BY SMTT(30), <2>1, <2>2, BalancingConstants
<1>3. CASE HandleLateReport(w)
  BY <1>3, BalancingConstants DEF HandleLateReport
<1>4. CASE ConnectionInterrupted(w)
  BY <1>4 DEF ConnectionInterrupted, Deregister, netvars
<1>5. CASE periodicCheck(w)
  BY <1>5 DEF periodicCheck, Deregister, netvars
<1> QED
  BY ZenonT(60), <1>1, <1>2, <1>3, <1>4, <1>5 DEF BalancerStep

\* Every step keeps the invariant.
LEMMA NextDone == DoneInv /\ [Next]_vars => DoneInv'
<1> SUFFICES ASSUME DoneInv, [Next]_vars PROVE DoneInv'
  OBVIOUS
<1>1. CASE UNCHANGED vars
  BY <1>1, StutterDone
<1>2. ASSUME NEW w \in Worker, WorkerStep(w) PROVE DoneInv'
  BY <1>2, ExecutionDone, CommunicationDone, EndDone, Zenon
     DEF WorkerStep, finalize, LoseBalancer, Crash
<1>3. ASSUME NEW w \in Worker, BalancerStep(w) PROVE DoneInv'
  BY <1>3, BalancerDone
<1> QED
  BY <1>1, <1>2, <1>3 DEF Next

\* The invariant holds in every reachable state.
LEMMA DoneInvariant == Spec => []DoneInv
  BY InitDone, NextDone, PTL DEF Spec, Safety

-----------------------------------------------------------------------------

\* The execution thread never sleeps on a queue that has jobs, and never loses the job
\* it executes without the lock.
THEOREM LockDiscipline == Spec => [](SleepsOnlyIdle /\ CurrentJobStays)
<1>1. DoneInv => SleepsOnlyIdle /\ CurrentJobStays
  BY Zenon DEF DoneInv
<1> QED
  BY <1>1, DoneInvariant, PTL

\* Only a report ends the exploration.
LEMMA OnlyReportsEnd ==
  ASSUME [Next]_vars, done', ~done
  PROVE  \E w \in Worker : HandleReport(w)
<1>1. ~UNCHANGED done
  BY Zenon
<1>2. ASSUME NEW w \in Worker, WorkerStep(w) PROVE UNCHANGED done
  BY <1>2, Zenon DEF WorkerStep, lbvars, SelectJob, CheckJobs, WaitForJobs, Branch, Destroy,
       EndStep, EndLoop, sendUpdates, processResponse, ReceiveJobs, finalize, LoseBalancer,
       Crash, ProcessEnds
<1>3. ASSUME NEW w \in Worker, BalancerStep(w) PROVE UNCHANGED done \/ HandleReport(w)
  BY <1>3, Zenon DEF BalancerStep, registerWorker, HandleLateReport, ConnectionInterrupted,
       periodicCheck
<1>4. UNCHANGED vars => UNCHANGED done
  BY Zenon DEF vars, lbvars
<1> QED
  BY <1>1, <1>2, <1>3, <1>4, Zenon DEF Next

\* analyzeBalance ends the exploration only over work that came in after the report
\* it counted: at the step that sets done the round is complete, every count is 0, and
\* ReportedIdle says what a worker that counted 0 can hold.
THEOREM DoneLate == Spec => DoneOverlooksOnlyArrivals
<1> DEFINE A == done' /\ ~done => \A w \in workers : jobs[w] # {} => arrived[w] \/ ReportsWork(w)
<1>1. ASSUME DoneInv, [Next]_vars PROVE A
  <2> SUFFICES ASSUME done', ~done, NEW v \in workers, jobs[v] # {}, ~ReportsWork(v)
               PROVE  arrived[v]
    BY Zenon
  <2>1. PICK u \in Worker : HandleReport(u)
    BY <1>1, OnlyReportsEnd, Zenon
  <2> DEFINE load == [totalJobs EXCEPT ![u] = msg[u]]
  <2>2. done' = (done \/ (BalanceDue(u) /\ AllIdle(load)))
    BY <2>1, Zenon DEF HandleReport
  <2>3. BalanceDue(u) /\ AllIdle(load)
    BY <2>2, Zenon
  <2>4. \A x \in workers : load[x] = 0
    BY <2>3, Zenon DEF AllIdle
  <2>5. reports \cup {u} = workers
    BY <1>1, <2>3, BalancingConstants DEF DoneInv, Typed, BalanceDue, RoundEnds
  <2>6. CASE v = u
    BY <1>1, <2>4, <2>6 DEF DoneInv, Typed, ReportedIdle
  <2>7. CASE v # u
    BY <1>1, <2>4, <2>5, <2>7 DEF DoneInv, Typed, ReportedIdle
  <2> QED
    BY <2>6, <2>7
<1>2. DoneInv /\ [Next]_vars => [A]_vars
  BY <1>1, Zenon
<1> HIDE DEF A
<1>3. Spec => [][A]_vars
  BY <1>2, DoneInvariant, PTL DEF Spec, Safety
<1> QED
  BY <1>3 DEF A, DoneOverlooksOnlyArrivals

-----------------------------------------------------------------------------
(* Pending transfers, and a balancer without faults. *)

\* A pending transfer.
Pending(w) == reqTransfer[w] # None

\* The two workers a request is about, both known to the balancer at some time.
Names(r) == /\ r.from \in Worker /\ r.to \in Worker /\ r.from # r.to
            /\ comm[r.from] # "new" /\ comm[r.to] # "new"

\* TransfersPaired, and what it rests on: a request is pending with its own workers
\* only, and with none that is not registered; a worker registers once.
PairInv ==
  /\ workers \subseteq Worker /\ DOMAIN reqTransfer = Worker
  /\ \A w \in workers : comm[w] # "new"
  /\ \A w \in Worker : Pending(w) =>
       w \in workers /\ Names(reqTransfer[w]) /\ w \in {reqTransfer[w].from, reqTransfer[w].to}
  /\ \A w, v \in workers : Pending(w) /\ v \in {reqTransfer[w].from, reqTransfer[w].to}
                           => reqTransfer[v] = reqTransfer[w]

\* Where a worker's reporting thread stands: a report and its answer are never both on
\* their way.
TalkInv ==
  /\ comm \in [Worker -> {"new", "ready", "await", "gone"}]
  /\ DOMAIN resp = Worker
  /\ \A w \in Worker : resp[w] # None =>
       /\ comm[w] \in {"await", "gone"} /\ msg[w] = None
       /\ resp[w].seed \in BOOLEAN /\ resp[w].terminate \in BOOLEAN
       /\ resp[w].transfer # None => ~resp[w].seed /\ resp[w].transfer.to \in Worker
  /\ \A w \in Worker : msg[w] # None => comm[w] \in {"await", "gone"}

\* Without a fault a connection is that of a registered worker, and before the end of
\* the exploration nobody has been told to stop, so nobody has left.
SoundInv ==
  /\ faults \in Nat /\ done \in BOOLEAN /\ conn \in [Worker -> {"none", "open", "closed"}]
  /\ terminationRequest \in [Worker -> BOOLEAN]
  /\ faults = 0 => lb # "assert" /\ \A w \in Worker : conn[w] = "open" => w \in workers
  /\ faults = 0 /\ ~done =>
       /\ lb = "up"
       /\ \A w \in Worker :
            /\ comm[w] # "gone" /\ exec[w] # "ended" /\ ~terminationRequest[w]
            /\ conn[w] # "closed" /\ (comm[w] # "new" => w \in workers)
            /\ resp[w] # None => ~resp[w].terminate

\* Where a job may lie, and the jobs there: with trees js, answers rs, transfers ms and
\* finished jobs fs, and in the current state.
Place ==
  ({"held", "seed"} \X Worker) \cup ({"sent"} \X Messages) \cup {<<"finished", None>>}

Seeded(rs, w) == rs[w] # None /\ rs[w].seed

Lying(js, rs, ms, fs) ==
  [p \in Place |->
     CASE p[1] = "held" -> js[p[2]]
       [] p[1] = "seed" -> IF Seeded(rs, p[2]) THEN {Root} ELSE {}
       [] p[1] = "sent" -> IF p[2] \in ms THEN p[2].jobs ELSE {}
       [] OTHER -> fs]

At == Lying(jobs, resp, peer, finished)

\* No two jobs overlap.
Apart(A) ==
  \A p, q \in Place : \A j \in A[p], k \in A[q] : Overlap(j, k) => p = q /\ j = k

\* Every path of the program has begun in some job.
Covered(A) == \A leaf \in Job \ Branching : \E p \in Place : \E j \in A[p] : IsPrefix(j, leaf)

JobsInv ==
  /\ seeds \in Nat /\ peer \subseteq Messages /\ finished \subseteq Job
  /\ seeds = 0 => \A p \in Place : At[p] = {}
  /\ seeds <= 1 => Apart(At)
  /\ faults = 0 /\ ~done /\ seeds > 0 => Covered(At)

-----------------------------------------------------------------------------
\* What the threads of a worker leave alone, and that no worker becomes new again.
LEMMA WorkerLeaves ==
  ASSUME comm \in [Worker -> {"new", "ready", "await", "gone"}], NEW w \in Worker, WorkerStep(w)
  PROVE  /\ UNCHANGED lbvars /\ UNCHANGED seeds
         /\ comm' \in [Worker -> {"new", "ready", "await", "gone"}]
         /\ \A v \in Worker : comm[v] # "new" => comm'[v] # "new"
<1>1. CASE \/ SelectJob(w) \/ CheckJobs(w) \/ WaitForJobs(w) \/ Branch(w) \/ Destroy(w)
           \/ EndStep(w) \/ EndLoop(w)
  <2>1. UNCHANGED <<lbvars, comm, seeds>>
    BY <1>1, Zenon DEF SelectJob, CheckJobs, WaitForJobs, Branch, Destroy, EndStep, EndLoop
  <2> QED
    BY <2>1, Zenon
<1>2. CASE sendUpdates(w) \/ processResponse(w) \/ ReceiveJobs(w)
  <2>1. UNCHANGED <<lbvars, seeds>> /\ comm' \in {comm, [comm EXCEPT ![w] = "await"],
                                                 [comm EXCEPT ![w] = "ready"]}
    BY <1>2, Zenon DEF sendUpdates, processResponse, ReceiveJobs
  <2> QED
    BY <2>1
<1>3. CASE finalize(w) \/ LoseBalancer(w) \/ Crash(w)
  <2>1. UNCHANGED <<lbvars, seeds>> /\ comm' = [comm EXCEPT ![w] = "gone"]
    BY <1>3, Zenon DEF finalize, LoseBalancer, Crash, ProcessEnds
  <2> QED
    BY <2>1
<1> QED
  BY <1>1, <1>2, <1>3, Zenon DEF WorkerStep

\* So they leave the pending transfers alone.
LEMMA WorkerPairs ==
  ASSUME PairInv, comm \in [Worker -> {"new", "ready", "await", "gone"}],
         NEW w \in Worker, WorkerStep(w)
  PROVE  PairInv'
<1>1. UNCHANGED <<workers, reqTransfer>> /\ \A v \in Worker : comm[v] # "new" => comm'[v] # "new"
  BY WorkerLeaves, Zenon DEF lbvars
<1> QED
  BY <1>1 DEF PairInv, Pending, Names

\* deregisterWorker: the partner's request no longer has two registered workers.
LEMMA DeregisterPairs ==
  ASSUME PairInv, NEW w \in Worker, Deregister(w), UNCHANGED comm
  PROVE  PairInv'
  BY DEF PairInv, Pending, Names, Deregister

\* analyzeBalance: an order of the workers without a pending transfer.
LEMMA FreeOrder ==
  ASSUME PairInv, NEW load, NEW s \in FreeByLoad(load)
  PROVE  /\ Len(s) \in Nat
         /\ \A i \in 1..Len(s) : s[i] \in workers /\ ~Pending(s[i])
         /\ \A i, k \in 1..Len(s) : s[i] = s[k] => i = k
<1> DEFINE free == {w \in workers : reqTransfer[w] = None}
<1>1. IsFiniteSet(free)
  <2>1. free \subseteq 1..MaxWorkers
    BY Zenon DEF PairInv, Worker
  <2>2. IsFiniteSet(1..MaxWorkers)
    BY FS_Interval, BalancingConstants
  <2> QED
    BY <2>1, <2>2, FS_Subset, Zenon
<1>2. Cardinality(free) \in Nat
  BY <1>1, FS_CardinalityType
<1>3. /\ s \in [1..Cardinality(free) -> free]
      /\ \A i, k \in 1..Cardinality(free) : i # k => s[i] # s[k]
  BY DEF FreeByLoad, Injection, IsInjective
<1> HIDE DEF free
<1>4. Len(s) = Cardinality(free)
  BY <1>2, <1>3
<1>5. \A v \in free : v \in workers /\ ~Pending(v)
  BY DEF free, Pending
<1> QED
  BY <1>2, <1>3, <1>4, <1>5

\* The requests it makes have two workers each, and no worker is in two of them.
LEMMA MatchingPairs ==
  ASSUME PairInv, NEW load, NEW s \in FreeByLoad(load)
  PROVE  /\ \A r \in Matching(s, load) :
              /\ r.from \in workers /\ r.to \in workers /\ r.from # r.to
              /\ ~Pending(r.from) /\ ~Pending(r.to)
         /\ \A r, q \in Matching(s, load) :
              {r.from, r.to} \cap {q.from, q.to} # {} => r = q
<1> DEFINE n == Len(s)
           R(i) == [from |-> s[n + 1 - i], to |-> s[i],
                    count |-> (load[s[n + 1 - i]] - load[s[i]]) \div 2]
<1>1. /\ n \in Nat /\ \A i \in 1..n : s[i] \in workers /\ ~Pending(s[i])
      /\ \A i, k \in 1..n : s[i] = s[k] => i = k
  BY FreeOrder, Zenon
<1>2. \A r \in Matching(s, load) : \E i \in 1..n \div 2 : r = R(i)
  BY DEF Matching
<1>3. \A i \in 1..n \div 2 : i \in 1..n /\ n + 1 - i \in 1..n /\ i < n + 1 - i
  BY <1>1
<1>4. \A i \in 1..n \div 2 : R(i).from = s[n + 1 - i] /\ R(i).to = s[i]
  OBVIOUS
<1> HIDE DEF R, n
<1>5. ASSUME NEW r \in Matching(s, load)
      PROVE  /\ r.from \in workers /\ r.to \in workers /\ r.from # r.to
             /\ ~Pending(r.from) /\ ~Pending(r.to)
  <2>1. PICK i \in 1..n \div 2 : r = R(i)
    BY <1>2, Zenon
  <2>2. r.from = s[n + 1 - i] /\ r.to = s[i] /\ i \in 1..n /\ n + 1 - i \in 1..n /\ i # n + 1 - i
    BY <1>1, <1>3, <1>4, <2>1
  <2> QED
    BY <1>1, <2>2, Zenon
<1>6. ASSUME NEW r \in Matching(s, load), NEW q \in Matching(s, load),
             {r.from, r.to} \cap {q.from, q.to} # {}
      PROVE  r = q
  <2>1. PICK i \in 1..n \div 2 : r = R(i)
    BY <1>2, Zenon
  <2>2. PICK k \in 1..n \div 2 : q = R(k)
    BY <1>2, Zenon
  <2>3. /\ r.from = s[n + 1 - i] /\ r.to = s[i] /\ i \in 1..n /\ n + 1 - i \in 1..n
        /\ q.from = s[n + 1 - k] /\ q.to = s[k] /\ k \in 1..n /\ n + 1 - k \in 1..n
    BY <1>3, <1>4, <2>1, <2>2, Zenon
  <2>4. \/ s[n + 1 - i] = s[n + 1 - k] \/ s[n + 1 - i] = s[k]
        \/ s[i] = s[n + 1 - k] \/ s[i] = s[k]
    BY <1>6, <2>3, Zenon
  <2>5. \/ n + 1 - i = n + 1 - k \/ n + 1 - i = k \/ i = n + 1 - k \/ i = k
    BY <1>1, <2>3, <2>4, Zenon
  <2>6. i = k
    BY <1>1, <1>3, <2>5
  <2> QED
    BY <2>1, <2>2, <2>6, Zenon
<1> QED
  BY <1>5, <1>6, Zenon

\* The pending transfers after analyzeBalance: PairInv holds of them as well.
PairsIn(req) ==
  /\ DOMAIN req = Worker
  /\ \A w \in Worker : req[w] # None =>
       w \in workers /\ Names(req[w]) /\ w \in {req[w].from, req[w].to}
  /\ \A w, v \in workers : req[w] # None /\ v \in {req[w].from, req[w].to} => req[v] = req[w]

\* New requests are made for workers without one.
LEMMA BalancedPairs ==
  ASSUME PairInv, NEW load, NEW req \in BalancedTransfers(load)
  PROVE  PairsIn(req) /\ \A w \in Worker : req[w] # None =>
           req[w] = reqTransfer[w] \/ {req[w].from, req[w].to} \subseteq workers
<1>1. CASE req = reqTransfer
  BY <1>1 DEF PairInv, PairsIn, Pending
<1>2. CASE \E s \in FreeByLoad(load) : req = WithRequests(Matching(s, load))
  <2>1. PICK s \in FreeByLoad(load) : req = WithRequests(Matching(s, load))
    BY <1>2
  <2> DEFINE M == Matching(s, load)
             In(w, r) == w \in {r.from, r.to}
  <2>2. /\ \A r \in M : /\ r.from \in workers /\ r.to \in workers /\ r.from # r.to
                        /\ ~Pending(r.from) /\ ~Pending(r.to)
        /\ \A r, q \in M : {r.from, r.to} \cap {q.from, q.to} # {} => r = q
    BY MatchingPairs, Zenon
  <2>3. /\ DOMAIN req = Worker
        /\ \A w \in Worker :
             req[w] = IF \E r \in M : In(w, r) THEN CHOOSE r \in M : In(w, r) ELSE reqTransfer[w]
    BY <2>1 DEF WithRequests
  <2> HIDE DEF M
  <2>4. \A w \in Worker : \A r \in M : In(w, r) => req[w] = r
    <3> SUFFICES ASSUME NEW w \in Worker, NEW r \in M, In(w, r) PROVE req[w] = r
      BY Zenon
    <3>1. req[w] \in M /\ In(w, req[w])
      <4>1. req[w] = CHOOSE q \in M : In(w, q)
        BY <2>3, Zenon
      <4> HIDE DEF In
      <4>2. (CHOOSE q \in M : In(w, q)) \in M /\ In(w, CHOOSE q \in M : In(w, q))
        OBVIOUS
      <4> QED
        BY <4>1, <4>2, Zenon
    <3> QED
      BY <2>2, <3>1, Zenon
  <2>5. \A w \in Worker : (\A r \in M : ~In(w, r)) => req[w] = reqTransfer[w]
    BY <2>3, Zenon
  <2>6. workers \subseteq Worker /\ \A w \in workers : comm[w] # "new"
    BY DEF PairInv
  <2>7. ASSUME NEW w \in Worker, req[w] # None
        PROVE  /\ w \in workers /\ Names(req[w]) /\ In(w, req[w])
               /\ req[w] = reqTransfer[w] \/ {req[w].from, req[w].to} \subseteq workers
    <3>1. CASE \E r \in M : In(w, r)
      <4>1. PICK r \in M : In(w, r)
        BY <3>1
      <4> QED
        BY <2>2, <2>4, <2>6, <4>1 DEF Names
    <3>2. CASE \A r \in M : ~In(w, r)
      BY <2>5, <2>7, <3>2 DEF PairInv, Pending
    <3> QED
      BY <3>1, <3>2
  <2>8. ASSUME NEW w \in workers, NEW v \in workers, req[w] # None, In(v, req[w])
        PROVE  req[v] = req[w]
    <3>1. CASE \E r \in M : In(w, r)
      <4>1. PICK r \in M : In(w, r)
        BY <3>1
      <4> QED
        BY <2>4, <2>6, <2>8, <4>1
    <3>2. CASE \A r \in M : ~In(w, r)
      <4>1. req[w] = reqTransfer[w] /\ Pending(w)
        BY <2>5, <2>6, <2>8, <3>2 DEF Pending
      <4>2. reqTransfer[v] = reqTransfer[w]
        BY <2>8, <4>1 DEF PairInv
      <4>3. \A r \in M : ~In(v, r)
        BY <2>2, <4>1, <4>2 DEF Pending
      <4> QED
        BY <2>5, <2>6, <4>1, <4>2, <4>3
    <3> QED
      BY <3>1, <3>2
  <2> QED
    BY <2>3, <2>7, <2>8 DEF PairsIn
<1> QED
  BY <1>1, <1>2 DEF BalancedTransfers

\* handleMessageReceived: the transfers after the report of w.
LEMMA ReportTransfers ==
  ASSUME PairInv, NEW w \in Worker, HandleReport(w)
  PROVE  \E req : /\ PairsIn(req) /\ reqTransfer' = Forget(w, req)
                  /\ \A v \in Worker : req[v] # None =>
                       req[v] = reqTransfer[v] \/ {req[v].from, req[v].to} \subseteq workers
                  /\ IF Due(w, req) # None /\ Due(w, req).to \notin workers
                       THEN lb' = "null" /\ UNCHANGED resp
                       ELSE /\ resp' = [resp EXCEPT ![w] =
                                  [transfer |-> Due(w, req), seed |-> FALSE, terminate |-> done']]
                            /\ UNCHANGED lb
<1> DEFINE load == [totalJobs EXCEPT ![w] = msg[w]]
<1>1. PICK req \in IF BalanceDue(w) THEN BalancedTransfers(load) ELSE {reqTransfer} :
            /\ reqTransfer' = Forget(w, req)
            /\ IF Due(w, req) # None /\ Due(w, req).to \notin workers
                 THEN lb' = "null" /\ UNCHANGED resp
                 ELSE /\ resp' = [resp EXCEPT ![w] = [transfer |-> Due(w, req), seed |-> FALSE,
                                                      terminate |-> done']]
                      /\ UNCHANGED lb
  BY Zenon DEF HandleReport
<1> HIDE DEF load
<1>2. CASE req \in BalancedTransfers(load)
  BY <1>1, <1>2, BalancedPairs, Zenon
<1>3. CASE req = reqTransfer
  <2>1. PairsIn(req)
    BY <1>3 DEF PairInv, PairsIn, Pending
  <2> QED
    BY <1>1, <1>3, <2>1, ZenonT(60)
<1> QED
  BY <1>1, <1>2, <1>3, Zenon

\* requestAndResetTransfer keeps the pairs.
LEMMA ReportPairs ==
  ASSUME PairInv, NEW w \in Worker, HandleReport(w)
  PROVE  PairInv'
<1>1. PICK req : PairsIn(req) /\ reqTransfer' = Forget(w, req)
  BY ReportTransfers, Zenon
<1>2. w \in workers /\ UNCHANGED <<workers, comm>>
  BY ZenonT(60) DEF HandleReport, threadvars
<1>3. CASE reqTransfer' = req
  BY SMTT(30), <1>1, <1>2, <1>3 DEF PairInv, PairsIn, Pending, Names
<1>4. CASE /\ req[w] # None /\ req[w].from = w
           /\ reqTransfer' = [req EXCEPT ![req[w].from] = None, ![req[w].to] = None]
  <2> DEFINE u == req[w].to
  <2>1. u \in Worker /\ u # w /\ Names(req[w])
    BY <1>1, <1>4 DEF PairsIn, Names
  <2>2. /\ DOMAIN reqTransfer' = Worker /\ reqTransfer'[w] = None /\ reqTransfer'[u] = None
        /\ \A v \in Worker \ {w, u} : reqTransfer'[v] = req[v]
    BY <1>1, <1>4, <2>1 DEF PairsIn
  <2>3. ASSUME NEW v \in workers, NEW x \in workers, reqTransfer'[v] # None,
               x \in {reqTransfer'[v].from, reqTransfer'[v].to}
        PROVE  reqTransfer'[x] = reqTransfer'[v]
    <3>1. v \in Worker /\ v \notin {w, u} /\ reqTransfer'[v] = req[v] /\ req[x] = req[v]
          /\ x \in Worker
      BY ZenonT(60), <1>1, <2>2, <2>3 DEF PairsIn, PairInv
    <3>2. x # w
      BY <1>1, <1>4, <2>3, <3>1 DEF PairsIn
    <3>3. x # u
      <4>1. SUFFICES ASSUME x = u PROVE FALSE
        OBVIOUS
      <4>2. req[u] = req[w]
        BY ZenonT(60), <1>1, <1>2, <1>4, <4>1 DEF PairsIn
      <4>3. v \in {req[v].from, req[v].to} /\ req[v] = req[w]
        BY ZenonT(60), <1>1, <2>3, <3>1, <4>1, <4>2 DEF PairsIn
      <4> QED
        BY <1>4, <3>1, <4>3
    <3> QED
      BY ZenonT(60), <2>2, <3>1, <3>2, <3>3
  <2>4. \A v \in Worker : reqTransfer'[v] # None =>
          v \in workers /\ Names(reqTransfer'[v]) /\ v \in {reqTransfer'[v].from, reqTransfer'[v].to}
    BY <1>1, <2>2 DEF PairsIn
  <2> QED
    BY ZenonT(60), <1>2, <2>2, <2>3, <2>4 DEF PairInv, Pending, Names
<1> QED
  BY <1>1, <1>3, <1>4 DEF Forget, Due

\* The other handlers of the balancer.
LEMMA BalancerPairs ==
  ASSUME PairInv, comm \in [Worker -> {"new", "ready", "await", "gone"}],
         NEW w \in Worker, BalancerStep(w)
  PROVE  PairInv'
<1>1. CASE registerWorker(w)
  <2>1. /\ workers' = workers \cup {w} /\ comm' = [comm EXCEPT ![w] = "await"]
        /\ comm[w] = "new" /\ UNCHANGED reqTransfer
    BY <1>1 DEF registerWorker
  <2>2. \A v \in Worker : comm[v] # "new" => comm'[v] # "new"
    BY <2>1
  <2>3. \A v \in Worker : Pending(v) => w \notin {reqTransfer[v].from, reqTransfer[v].to}
    BY <2>1 DEF PairInv, Names
  <2>4. ~Pending(w)
    BY <2>1 DEF PairInv
  <2> QED
    BY <2>1, <2>2, <2>3, <2>4 DEF PairInv, Pending, Names
<1>2. CASE HandleReport(w)
  BY <1>2, ReportPairs, ZenonT(60)
<1>3. CASE HandleLateReport(w)
  BY <1>3 DEF HandleLateReport, PairInv, Pending, Names, threadvars
<1>4. CASE ConnectionInterrupted(w) \/ periodicCheck(w)
  BY <1>4, DeregisterPairs, Zenon DEF ConnectionInterrupted, periodicCheck, threadvars
<1> QED
  BY <1>1, <1>2, <1>3, <1>4, ZenonT(60) DEF BalancerStep

-----------------------------------------------------------------------------
(* The reporting threads, and the balancer without faults. *)

\* The threads of a worker keep reports and answers apart (sendUpdates, processResponse).
LEMMA WorkerTalks ==
  ASSUME TalkInv, Typed, NEW w \in Worker, WorkerStep(w)
  PROVE  TalkInv'
<1> USE DEF TalkInv
<1>1. CASE \/ SelectJob(w) \/ CheckJobs(w) \/ WaitForJobs(w) \/ Branch(w) \/ Destroy(w)
           \/ EndStep(w) \/ EndLoop(w) \/ ReceiveJobs(w)
  <2>1. UNCHANGED <<comm, resp, msg>>
    BY <1>1, ZenonT(60) DEF SelectJob, CheckJobs, WaitForJobs, Branch, Destroy, EndStep, EndLoop,
                       ReceiveJobs, netvars
  <2> QED
    BY <2>1
<1>2. CASE sendUpdates(w)
  BY <1>2 DEF sendUpdates, Typed
<1>3. CASE processResponse(w)
  BY <1>3, ZenonT(30) DEF processResponse
<1>4. CASE finalize(w) \/ LoseBalancer(w) \/ Crash(w)
  <2>1. ProcessEnds(w) /\ comm[w] \in {"ready", "await"}
    BY <1>4 DEF finalize, LoseBalancer, Crash
  <2> QED
    BY <2>1 DEF ProcessEnds
<1> QED
  BY <1>1, <1>2, <1>3, <1>4, ZenonT(60) DEF WorkerStep

\* An answer.
LEMMA Answered ==
  ASSUME TalkInv, Typed, NEW w \in Worker, NEW tr, NEW s \in BOOLEAN, NEW e \in BOOLEAN,
         comm'[w] \in {"await", "gone"}, msg'[w] = None,
         resp' = [resp EXCEPT ![w] = [transfer |-> tr, seed |-> s, terminate |-> e]],
         tr # None => ~s /\ tr.to \in Worker,
         comm' \in [Worker -> {"new", "ready", "await", "gone"}],
         \A v \in Worker \ {w} : comm'[v] = comm[v] /\ msg'[v] = msg[v]
  PROVE  TalkInv'
<1>1. resp'[w] = [transfer |-> tr, seed |-> s, terminate |-> e] /\ DOMAIN resp' = Worker
      /\ \A v \in Worker \ {w} : resp'[v] = resp[v]
  BY DEF TalkInv
<1>2. resp'[w].transfer = tr /\ resp'[w].seed = s /\ resp'[w].terminate = e
  BY <1>1, Zenon
<1> QED
  BY SMTT(30), <1>1, <1>2 DEF TalkInv

\* So do the handlers of the balancer, which answer a report once.
LEMMA BalancerTalks ==
  ASSUME TalkInv, Typed, PairInv, done \in BOOLEAN, NEW w \in Worker, BalancerStep(w)
  PROVE  TalkInv'
<1>1. CASE registerWorker(w)
  <2>1. /\ resp' = [resp EXCEPT ![w] = [transfer |-> None, seed |-> (workers = {}), terminate |-> FALSE]]
        /\ comm' = [comm EXCEPT ![w] = "await"] /\ UNCHANGED msg /\ comm[w] = "new"
    BY ZenonT(60), <1>1 DEF registerWorker
  <2>2. (workers = {}) \in BOOLEAN /\ msg'[w] = None /\ comm'[w] = "await"
        /\ comm' \in [Worker -> {"new", "ready", "await", "gone"}]
        /\ \A v \in Worker \ {w} : comm'[v] = comm[v] /\ msg'[v] = msg[v]
    BY <2>1 DEF TalkInv
  <2> QED
    BY <2>1, <2>2, Answered, Zenon
<1>2. CASE HandleReport(w)
  <2>1. PICK req : /\ PairsIn(req)
                   /\ \/ UNCHANGED resp
                      \/ resp' = [resp EXCEPT ![w] =
                                    [transfer |-> Due(w, req), seed |-> FALSE, terminate |-> done']]
    BY <1>2, ReportTransfers, ZenonT(60)
  <2>2. /\ msg' = [msg EXCEPT ![w] = None] /\ UNCHANGED comm /\ comm[w] \in {"await", "gone"}
        /\ done' = (done \/ (BalanceDue(w) /\ AllIdle([totalJobs EXCEPT ![w] = msg[w]])))
    BY <1>2 DEF HandleReport, TalkInv, threadvars
  <2>3. done' \in BOOLEAN
    BY <2>2
  <2>4. /\ msg'[w] = None /\ \A v \in Worker \ {w} : msg'[v] = msg[v]
    BY ZenonT(60), <2>2 DEF Typed
  <2>5. CASE UNCHANGED resp
    BY <2>2, <2>4, <2>5 DEF TalkInv
  <2>6. CASE resp' = [resp EXCEPT ![w] =
                        [transfer |-> Due(w, req), seed |-> FALSE, terminate |-> done']]
    <3>1. Due(w, req) # None => Due(w, req).to \in Worker
      BY ZenonT(60), <2>1 DEF Due, PairsIn, Names
    <3>2. /\ comm'[w] \in {"await", "gone"} /\ comm' \in [Worker -> {"new", "ready", "await", "gone"}]
          /\ \A v \in Worker \ {w} : comm'[v] = comm[v] /\ msg'[v] = msg[v]
      BY ZenonT(60), <2>2, <2>4 DEF TalkInv
    <3> QED
      BY <2>3, <2>4, <2>6, <3>1, <3>2, Answered, ZenonT(60)
  <2> QED
    BY <2>1, <2>5, <2>6, ZenonT(60)
<1>3. CASE HandleLateReport(w)
  BY ZenonT(60), <1>3 DEF HandleLateReport, TalkInv, Typed, threadvars
<1>4. CASE ConnectionInterrupted(w) \/ periodicCheck(w)
  <2>1. UNCHANGED <<comm, resp, msg>>
    BY <1>4, Zenon DEF ConnectionInterrupted, periodicCheck, threadvars, netvars
  <2> QED
    BY <2>1 DEF TalkInv
<1> QED
  BY <1>1, <1>2, <1>3, <1>4, Zenon DEF BalancerStep

\* A worker: it leaves only after it has been told to.
LEMMA WorkerSound ==
  ASSUME SoundInv, TalkInv, Typed, NEW w \in Worker, WorkerStep(w)
  PROVE  SoundInv'
<1>0. UNCHANGED <<workers, done, lb, conn>>
      /\ \A v \in Worker : comm[v] # "new" => comm'[v] # "new"
  BY WorkerLeaves, ZenonT(60) DEF lbvars, TalkInv
<1>1. CASE SelectJob(w) \/ CheckJobs(w) \/ WaitForJobs(w) \/ Branch(w) \/ Destroy(w) \/ EndStep(w)
  <2>1. /\ UNCHANGED <<comm, resp, terminationRequest, faults>>
        /\ \E x \in {"step", "checked", "wait", "stepped", "loop"} : exec' = [exec EXCEPT ![w] = x]
    BY <1>1, Zenon DEF SelectJob, CheckJobs, WaitForJobs, Branch, Destroy, EndStep, netvars
  <2> QED
    BY <1>0, <2>1 DEF SoundInv, Typed
<1>2. CASE EndLoop(w)
  BY ZenonT(60), <1>0, <1>2 DEF EndLoop, netvars, SoundInv, Typed
<1>3. CASE sendUpdates(w)
  BY ZenonT(60), <1>0, <1>3 DEF sendUpdates, SoundInv, TalkInv
<1>4. CASE processResponse(w)
  <2>1. /\ comm[w] = "await" /\ resp[w] # None /\ UNCHANGED faults
        /\ resp' = [resp EXCEPT ![w] = None] /\ comm' = [comm EXCEPT ![w] = "ready"]
        /\ terminationRequest' = [terminationRequest EXCEPT ![w] = @ \/ resp[w].terminate]
        /\ exec' \in {exec, Notified(w, exec)}
    BY <1>4, Zenon DEF processResponse
  <2>2. exec' = exec \/ exec' = [exec EXCEPT ![w] = "loop"]
    BY <2>1 DEF Notified
  <2>3. terminationRequest' \in [Worker -> BOOLEAN]
    BY ZenonT(60), <2>1 DEF SoundInv
  <2>4. SUFFICES ASSUME faults = 0, ~done
                 PROVE  \A v \in Worker :
                          /\ comm'[v] # "gone" /\ exec'[v] # "ended" /\ ~terminationRequest'[v]
                          /\ comm'[v] # "new" => v \in workers
                          /\ resp'[v] # None => ~resp'[v].terminate
    BY <1>0, <2>1, <2>3 DEF SoundInv
  <2>5. ~terminationRequest[w] /\ ~resp[w].terminate /\ w \in workers
    BY ZenonT(60), <2>1, <2>4 DEF SoundInv
  <2>6. \A v \in Worker : ~terminationRequest'[v]
    BY ZenonT(60), <2>1, <2>4, <2>5 DEF SoundInv
  <2>7. \A v \in Worker : exec'[v] # "ended"
    BY ZenonT(60), <2>2, <2>4 DEF SoundInv, Typed
  <2> QED
    BY <2>1, <2>4, <2>5, <2>6, <2>7 DEF SoundInv, TalkInv
<1>5. CASE ReceiveJobs(w)
  <2>1. UNCHANGED <<comm, resp, terminationRequest, faults>> /\ exec' = Notified(w, exec)
    BY <1>5, Zenon DEF ReceiveJobs
  <2>2. exec' = exec \/ exec' = [exec EXCEPT ![w] = "loop"]
    BY ZenonT(60), <2>1 DEF Notified
  <2> QED
    BY <1>0, <2>1, <2>2 DEF SoundInv, Typed
<1>6. CASE finalize(w) \/ LoseBalancer(w)
  <2>1. /\ ~(faults = 0 /\ ~done) /\ UNCHANGED <<faults, terminationRequest>>
    BY ZenonT(60), <1>6 DEF finalize, LoseBalancer, ProcessEnds, SoundInv
  <2> QED
    BY ZenonT(60), <1>0, <2>1 DEF SoundInv
<1>7. CASE Crash(w)
  <2>1. faults' = faults + 1 /\ UNCHANGED terminationRequest
    BY <1>7 DEF Crash, ProcessEnds
  <2>2. faults' \in Nat /\ faults' # 0
    BY <2>1 DEF SoundInv
  <2> QED
    BY <1>0, <2>1, <2>2 DEF SoundInv
<1> QED
  BY <1>1, <1>2, <1>3, <1>4, <1>5, <1>6, <1>7, ZenonT(60) DEF WorkerStep

\* The balancer: without a fault it knows every worker it is asked about.
LEMMA BalancerSound ==
  ASSUME SoundInv, TalkInv, Typed, PairInv, NEW w \in Worker, BalancerStep(w)
  PROVE  SoundInv'
<1>1. CASE registerWorker(w)
  <2>1. /\ workers' = workers \cup {w} /\ conn' = [conn EXCEPT ![w] = "open"]
        /\ comm' = [comm EXCEPT ![w] = "await"]
        /\ resp' = [resp EXCEPT ![w] = [transfer |-> None, seed |-> (workers = {}), terminate |-> FALSE]]
        /\ UNCHANGED <<done, lb, exec, terminationRequest, faults>>
    BY ZenonT(60), <1>1 DEF registerWorker
  <2>2. resp'[w].terminate = FALSE /\ \A v \in Worker \ {w} : resp'[v] = resp[v]
    BY ZenonT(60), <2>1 DEF TalkInv
  <2>3. /\ \A v \in Worker \ {w} : comm'[v] = comm[v] /\ conn'[v] = conn[v]
        /\ comm'[w] = "await" /\ conn'[w] = "open"
        /\ conn' \in [Worker -> {"none", "open", "closed"}]
    BY ZenonT(60), <2>1 DEF TalkInv, SoundInv
  <2> QED
    BY SMTT(30), <2>1, <2>2, <2>3 DEF SoundInv
<1>2. CASE HandleReport(w)
  <2>1. PICK req : /\ PairsIn(req)
                   /\ \A v \in Worker : req[v] # None =>
                        req[v] = reqTransfer[v] \/ {req[v].from, req[v].to} \subseteq workers
                   /\ IF Due(w, req) # None /\ Due(w, req).to \notin workers
                        THEN lb' = "null" /\ UNCHANGED resp
                        ELSE /\ resp' = [resp EXCEPT ![w] =
                                  [transfer |-> Due(w, req), seed |-> FALSE, terminate |-> done']]
                             /\ UNCHANGED lb
    BY <1>2, ReportTransfers, Zenon
  <2>2. /\ UNCHANGED <<workers, conn, comm, exec, terminationRequest, faults>>
        /\ done' = (done \/ (BalanceDue(w) /\ AllIdle([totalJobs EXCEPT ![w] = msg[w]])))
        /\ lb = "up" /\ w \in workers
    BY <1>2, Zenon DEF HandleReport, threadvars
  <2>3. done' \in BOOLEAN /\ (~done' => ~done)
    BY <2>2, ZenonT(30)
  <2>4. lb' # "assert"
    BY ZenonT(60), <2>1, <2>2
  <2>5. SUFFICES ASSUME faults = 0, ~done'
                 PROVE  lb' = "up" /\ \A v \in Worker : resp'[v] # None => ~resp'[v].terminate
    BY ZenonT(60), <2>2, <2>3, <2>4 DEF SoundInv
  <2>6. Due(w, req) # None => Due(w, req).to \in workers
    <3>1. SUFFICES ASSUME Due(w, req) # None PROVE Due(w, req).to \in workers
      OBVIOUS
    <3>2. Due(w, req) = req[w] /\ req[w] # None
      BY ZenonT(60), <3>1 DEF Due
    <3>3. Names(req[w])
      BY ZenonT(60), <2>1, <3>2 DEF PairsIn
    <3> QED
      BY <2>3, <2>5, <3>2, <3>3 DEF SoundInv, Names
  <2>7. resp' = [resp EXCEPT ![w] = [transfer |-> Due(w, req), seed |-> FALSE, terminate |-> done']]
        /\ lb' = "up"
    BY ZenonT(60), <2>1, <2>2, <2>6
  <2>8. resp'[w].terminate = done' /\ \A v \in Worker \ {w} : resp'[v] = resp[v]
    BY ZenonT(60), <2>7 DEF TalkInv
  <2> QED
    BY <2>3, <2>5, <2>7, <2>8 DEF SoundInv
<1>3. CASE HandleLateReport(w)
  <2>1. /\ conn' = [conn EXCEPT ![w] = "closed"] /\ lb = "up" /\ lb' \in {"up", "stopped"}
        /\ UNCHANGED <<workers, done, faults, resp, comm, exec, terminationRequest>>
        /\ conn[w] = "open" /\ w \notin workers
    BY ZenonT(60), <1>3 DEF HandleLateReport, threadvars
  <2> QED
    BY <2>1 DEF SoundInv
<1>4. CASE ConnectionInterrupted(w)
  <2>1. /\ conn' = [conn EXCEPT ![w] = "closed"] /\ workers' = workers \ {w}
        /\ lb' = IF w \notin workers THEN "assert"
                 ELSE IF workers' = {} THEN "stopped" ELSE lb
        /\ lb = "up" /\ comm[w] = "gone" /\ conn[w] = "open"
        /\ UNCHANGED <<done, faults, resp, comm, exec, terminationRequest>>
    BY <1>4, Zenon DEF ConnectionInterrupted, Deregister, netvars, threadvars
  <2>2. faults = 0 => w \in workers /\ lb' \in {"up", "stopped"} /\ done
    BY ZenonT(60), <2>1 DEF SoundInv
  <2> QED
    BY <2>1, <2>2 DEF SoundInv
<1>5. CASE periodicCheck(w)
  <2>1. faults' = faults + 1 /\ UNCHANGED <<done, conn, terminationRequest>>
    BY ZenonT(60), <1>5 DEF periodicCheck, threadvars
  <2>2. faults' \in Nat /\ faults' # 0
    BY SMTT(30), <2>1 DEF SoundInv
  <2> QED
    BY <2>1, <2>2 DEF SoundInv
<1> QED
  BY <1>1, <1>2, <1>3, <1>4, <1>5, Zenon DEF BalancerStep

\* The inductive invariant of the balancer.
BalancerInv == DoneInv /\ PairInv /\ TalkInv /\ SoundInv

\* The invariant holds in every state.
LEMMA BalancerInvariant == Spec => []BalancerInv
<1>1. Init => BalancerInv
  <2> SUFFICES ASSUME Init PROVE BalancerInv
    OBVIOUS
  <2>1. PairInv /\ TalkInv /\ SoundInv
    BY BalancingConstants, Zenon DEF Init, PairInv, Pending, TalkInv, SoundInv
  <2> QED
    BY <2>1, InitDone DEF BalancerInv
<1>2. BalancerInv /\ [Next]_vars => BalancerInv'
  <2> SUFFICES ASSUME BalancerInv, [Next]_vars PROVE BalancerInv'
    OBVIOUS
  <2>0. /\ DoneInv' /\ Typed /\ PairInv /\ TalkInv /\ SoundInv /\ done \in BOOLEAN
        /\ comm \in [Worker -> {"new", "ready", "await", "gone"}]
    BY NextDone DEF BalancerInv, DoneInv, TalkInv, SoundInv
  <2>1. CASE UNCHANGED vars
    <3>1. UNCHANGED <<workers, reqTransfer, comm, resp, msg, faults, done, conn, lb, exec,
                      terminationRequest>>
      BY <2>1 DEF vars, lbvars, netvars, threadvars
    <3>2. PairInv'
      BY <2>0, <3>1, ZenonT(60) DEF PairInv, Pending, Names
    <3>3. TalkInv'
      BY <2>0, <3>1, Zenon DEF TalkInv
    <3>4. SoundInv'
      BY <2>0, <3>1, Zenon DEF SoundInv
    <3> QED
      BY <2>0, <3>2, <3>3, <3>4, ZenonT(60) DEF BalancerInv
  <2>2. ASSUME NEW w \in Worker, WorkerStep(w) PROVE BalancerInv'
    BY <2>0, <2>2, WorkerPairs, WorkerTalks, WorkerSound, ZenonT(60) DEF BalancerInv
  <2>3. ASSUME NEW w \in Worker, BalancerStep(w) PROVE BalancerInv'
    BY <2>0, <2>3, BalancerPairs, BalancerTalks, BalancerSound, ZenonT(60) DEF BalancerInv
  <2> QED
    BY <2>1, <2>2, <2>3, Zenon DEF Next
<1> QED
  BY <1>1, <1>2, PTL DEF Spec, Safety

\* Whatever dies, times out or reports late, a worker takes part in one pending
\* transfer at most: analyzeBalance passes over workers that have one, pairs the
\* others off without repetition, and requestAndResetTransfer forgets both ends.
THEOREM TransfersStayPaired == Spec => []TransfersPaired
<1>1. BalancerInv => TransfersPaired
  BY ZenonT(60) DEF BalancerInv, PairInv, Pending, Names, TransfersPaired
<1> QED
  BY <1>1, BalancerInvariant, PTL

\* Without a fault the assertion of deregisterWorker holds, and until the exploration is
\* declared done sendJobTransfers finds both workers and the balancer keeps running.
THEOREM BalancerKeepsRunning == Spec => []BalancerSurvives
<1>1. BalancerInv => BalancerSurvives
  BY DEF BalancerInv, SoundInv, BalancerSurvives
<1> QED
  BY <1>1, BalancerInvariant, PTL

-----------------------------------------------------------------------------
(* Jobs as paths. *)

Path == Seq({0, 1})

\* Every job is a path, and forks within the program.
LEMMA JobPaths == Job \subseteq Path /\ Root \in Job
<1>1. ASSUME NEW j \in Branching, NEW i \in {0, 1} PROVE Append(j, i) \in Path
  BY BalancingConstants DEF Path
<1>2. Root \in Path
  BY DEF Root, Path
<1>3. ASSUME NEW k \in Job PROVE k \in Path
  <2>1. k = Root \/ \E j \in Branching, i \in {0, 1} : k = Append(j, i)
    BY DEF Job
  <2> QED
    BY <1>1, <1>2, <2>1, Zenon
<1>4. Root \in Job
  BY DEF Job
<1> QED
  BY <1>3, <1>4

\* A prefix, place by place.
LEMMA PrefixAt ==
  ASSUME NEW s \in Path, NEW t \in Path
  PROVE  IsPrefix(s, t) <=> Len(s) <= Len(t) /\ \A i \in 1..Len(s) : s[i] = t[i]
BY DEF IsPrefix

\* The root is a prefix of every path, and every path of itself.
LEMMA PrefixRoot ==
  ASSUME NEW t \in Path
  PROVE  IsPrefix(Root, t) /\ IsPrefix(t, t)
<1>1. Root \in Path /\ Len(Root) = 0 /\ Len(t) \in Nat
  BY DEF Root, Path
<1> QED
  BY <1>1, PrefixAt

\* What overlaps a child overlaps its parent, and the two children do not overlap.
LEMMA ChildOverlaps ==
  ASSUME NEW j \in Path, NEW i \in {0, 1}, NEW k \in Path, Overlap(Append(j, i), k)
  PROVE  Overlap(j, k)
<1> DEFINE c == Append(j, i)
<1>1. c \in Path /\ Len(c) = Len(j) + 1 /\ (\A n \in 1..Len(j) : c[n] = j[n])
      /\ Len(j) \in Nat /\ Len(k) \in Nat
  BY AppendProperties DEF Path
<1> HIDE DEF c
<1>2. CASE IsPrefix(c, k)
  <2>1. Len(c) <= Len(k) /\ \A n \in 1..Len(c) : c[n] = k[n]
    BY <1>1, <1>2, PrefixAt
  <2>2. IsPrefix(j, k)
    BY <1>1, <2>1, PrefixAt
  <2> QED
    BY <2>2 DEF Overlap
<1>3. CASE IsPrefix(k, c)
  <2>1. Len(k) <= Len(c) /\ \A n \in 1..Len(k) : k[n] = c[n]
    BY <1>1, <1>3, PrefixAt
  <2>2. CASE Len(k) <= Len(j)
    <3>1. IsPrefix(k, j)
      BY SMTT(30), <1>1, <2>1, <2>2, PrefixAt
    <3> QED
      BY <3>1 DEF Overlap
  <2>3. CASE Len(k) > Len(j)
    <3>1. IsPrefix(j, k)
      BY <1>1, <2>1, <2>3, PrefixAt
    <3> QED
      BY <3>1 DEF Overlap
  <2> QED
    BY <1>1, <2>2, <2>3
<1> QED
  BY <1>2, <1>3 DEF Overlap, c

\* The two sides of a fork have no path in common.
LEMMA ChildrenApart ==
  ASSUME NEW j \in Path, NEW i \in {0, 1}, NEW k \in {0, 1}, Overlap(Append(j, i), Append(j, k))
  PROVE  i = k
<1> DEFINE c == Append(j, i)
           d == Append(j, k)
<1>1. /\ c \in Path /\ Len(c) = Len(j) + 1 /\ c[Len(j) + 1] = i /\ Len(j) \in Nat
      /\ d \in Path /\ Len(d) = Len(j) + 1 /\ d[Len(j) + 1] = k
  BY AppendProperties DEF Path
<1> HIDE DEF c, d
<1>2. IsPrefix(c, d) \/ IsPrefix(d, c)
  BY DEF Overlap, c, d
<1>3. c[Len(j) + 1] = d[Len(j) + 1]
  BY <1>1, <1>2, PrefixAt
<1> QED
  BY <1>1, <1>3

\* A path that goes on from a job at which the program forks goes on in a child.
LEMMA ChildBegins ==
  ASSUME NEW j \in Path, NEW t \in Path, IsPrefix(j, t), j # t
  PROVE  \E i \in {0, 1} : IsPrefix(Append(j, i), t)
<1>1. Len(j) \in Nat /\ Len(t) \in Nat /\ Len(j) <= Len(t) /\ \A n \in 1..Len(j) : j[n] = t[n]
  BY PrefixAt DEF Path
<1>2. Len(j) # Len(t)
  BY <1>1, SeqEqual DEF Path
<1> DEFINE i == t[Len(j) + 1]
<1>3. i \in {0, 1}
  BY <1>1, <1>2 DEF Path
<1> DEFINE c == Append(j, i)
<1>4. c \in Path /\ Len(c) = Len(j) + 1 /\ c[Len(j) + 1] = i
      /\ \A n \in 1..Len(j) : c[n] = j[n]
  BY <1>3, AppendProperties DEF Path
<1> HIDE DEF c
<1>5. Len(c) <= Len(t) /\ \A n \in 1..Len(c) : c[n] = t[n]
  BY <1>1, <1>2, <1>4
<1>6. IsPrefix(c, t)
  BY <1>4, <1>5, PrefixAt
<1> QED
  BY <1>3, <1>6 DEF c

-----------------------------------------------------------------------------
(* Jobs and where they lie. *)

\* Every place is one of the four kinds.
LEMMA Places ==
  ASSUME NEW p \in Place
  PROVE  \/ \E w \in Worker : p = <<"held", w>>
         \/ \E w \in Worker : p = <<"seed", w>>
         \/ \E m \in Messages : p = <<"sent", m>>
         \/ p = <<"finished", None>>
<1>1. CASE p \in {"held", "seed"} \X Worker
  <2>1. PICK k \in {"held", "seed"}, w \in Worker : p = <<k, w>>
    BY <1>1
  <2> QED
    BY <2>1
<1>2. CASE p \in {"sent"} \X Messages
  <2>1. PICK k \in {"sent"}, m \in Messages : p = <<k, m>>
    BY <1>2
  <2> QED
    BY <2>1
<1> QED
  BY <1>1, <1>2 DEF Place

\* The places, kind by kind.
LEMMA PlaceIs ==
  /\ \A w \in Worker : <<"held", w>> \in Place /\ <<"seed", w>> \in Place
  /\ \A m \in Messages : <<"sent", m>> \in Place
  /\ <<"finished", None>> \in Place
  BY DEF Place

\* What lies at each place.
LyingIn(A, js, rs, ms, fs) ==
  /\ \A w \in Worker : A[<<"held", w>>] = js[w]
  /\ \A w \in Worker : A[<<"seed", w>>] = IF Seeded(rs, w) THEN {Root} ELSE {}
  /\ \A m \in Messages : A[<<"sent", m>>] = IF m \in ms THEN m.jobs ELSE {}
  /\ A[<<"finished", None>>] = fs

\* Lying puts at each place what LyingIn says.
LEMMA LyingAt ==
  ASSUME NEW js, NEW rs, NEW ms, NEW fs
  PROVE  LyingIn(Lying(js, rs, ms, fs), js, rs, ms, fs)
<1> DEFINE A == Lying(js, rs, ms, fs)
<1>1. ASSUME NEW w \in Worker PROVE A[<<"held", w>>] = js[w]
  BY PlaceIs, Zenon DEF Lying
<1>2. ASSUME NEW w \in Worker PROVE A[<<"seed", w>>] = IF Seeded(rs, w) THEN {Root} ELSE {}
  BY PlaceIs, Zenon DEF Lying
<1>3. ASSUME NEW m \in Messages PROVE A[<<"sent", m>>] = IF m \in ms THEN m.jobs ELSE {}
  BY PlaceIs DEF Lying
<1>4. A[<<"finished", None>>] = fs
  BY PlaceIs DEF Lying
<1> HIDE DEF A
<1>5. LyingIn(A, js, rs, ms, fs)
  BY <1>1, <1>2, <1>3, <1>4, Zenon DEF LyingIn
<1> QED
  BY <1>5, Zenon DEF A

\* Outside the places of X the jobs of one state lie where they lie in another.
LEMMA LyingFewer ==
  ASSUME NEW js, NEW rs, NEW ms, NEW fs, NEW js2, NEW rs2, NEW ms2, NEW fs2, NEW X,
         \A w \in Worker : <<"held", w>> \notin X => js2[w] \subseteq js[w],
         \A w \in Worker : <<"seed", w>> \notin X => (Seeded(rs2, w) => Seeded(rs, w)),
         \A m \in Messages : <<"sent", m>> \notin X => (m \in ms2 => m \in ms),
         <<"finished", None>> \notin X => fs2 \subseteq fs
  PROVE  \A p \in Place \ X : Lying(js2, rs2, ms2, fs2)[p] \subseteq Lying(js, rs, ms, fs)[p]
<1> DEFINE A == Lying(js, rs, ms, fs)
           B == Lying(js2, rs2, ms2, fs2)
<1>a. LyingIn(A, js, rs, ms, fs)
  BY LyingAt, Zenon
<1>b. LyingIn(B, js2, rs2, ms2, fs2)
  BY LyingAt, Zenon
<1> HIDE DEF A, B
<1> SUFFICES ASSUME NEW p \in Place, p \notin X
             PROVE  B[p] \subseteq A[p]
  BY DEF A, B
<1>1. ASSUME NEW w \in Worker, p = <<"held", w>> PROVE B[p] \subseteq A[p]
  BY <1>1, <1>a, <1>b, Zenon DEF LyingIn
<1>2. ASSUME NEW w \in Worker, p = <<"seed", w>> PROVE B[p] \subseteq A[p]
  BY <1>2, <1>a, <1>b, ZenonT(30) DEF LyingIn
<1>3. ASSUME NEW m \in Messages, p = <<"sent", m>> PROVE B[p] \subseteq A[p]
  BY ZenonT(60), <1>3, <1>a, <1>b DEF LyingIn
<1>4. CASE p = <<"finished", None>>
  BY ZenonT(60), <1>4, <1>a, <1>b DEF LyingIn
<1> QED
  BY <1>1, <1>2, <1>3, <1>4, Places, Zenon

\* Jobs that are dropped, or move from place a to place b, stay apart.
LEMMA FewerApart ==
  ASSUME NEW A, NEW B, Apart(A), \A p \in Place : B[p] \subseteq A[p]
  PROVE  Apart(B)
  BY ZenonT(60) DEF Apart

\* Jobs that move from one place to another stay apart from all others.
LEMMA MovedApart ==
  ASSUME NEW A, NEW B, Apart(A), NEW a \in Place, NEW b \in Place, NEW S,
         a # b, S \subseteq A[a], B[a] \subseteq A[a] \ S, B[b] \subseteq A[b] \cup S,
         \A p \in Place \ {a, b} : B[p] \subseteq A[p]
  PROVE  Apart(B)
<1> SUFFICES ASSUME NEW p \in Place, NEW q \in Place, NEW j \in B[p], NEW k \in B[q],
                    Overlap(j, k)
             PROVE  p = q /\ j = k
  BY ZenonT(60) DEF Apart
<1>1. ASSUME NEW x \in Place, NEW i \in B[x]
      PROVE  (i \in A[x] /\ ~(x = a /\ i \in S)) \/ (x = b /\ i \in S /\ i \in A[a])
  OBVIOUS
<1>2. \A x, y \in Place : \A i \in A[x], l \in A[y] : Overlap(i, l) => x = y /\ i = l
  BY ZenonT(60) DEF Apart
<1>3. (j \in A[p] /\ ~(p = a /\ j \in S)) \/ (p = b /\ j \in S /\ j \in A[a])
  BY ZenonT(60), <1>1
<1>4. (k \in A[q] /\ ~(q = a /\ k \in S)) \/ (q = b /\ k \in S /\ k \in A[a])
  BY <1>1
<1> QED
  BY SMTT(30), <1>2, <1>3, <1>4

\* The two children of a job in its place stay apart from all the rest.
LEMMA BranchedApart ==
  ASSUME NEW A, NEW B, Apart(A), NEW a \in Place, NEW j \in Path, j \in A[a],
         \A p \in Place : A[p] \subseteq Path,
         B[a] \subseteq (A[a] \ {j}) \cup {Append(j, 0), Append(j, 1)},
         \A p \in Place \ {a} : B[p] \subseteq A[p]
  PROVE  Apart(B)
<1> DEFINE Kid(k) == \E i \in {0, 1} : k = Append(j, i)
<1> SUFFICES ASSUME NEW p \in Place, NEW q \in Place, NEW k \in B[p], NEW l \in B[q],
                    Overlap(k, l)
             PROVE  p = q /\ k = l
  BY DEF Apart
<1>1. ASSUME NEW x \in Place, NEW n \in B[x]
      PROVE  (n \in A[x] /\ ~(x = a /\ n = j)) \/ (x = a /\ Kid(n))
  OBVIOUS
<1>2. \A x, y \in Place : \A n \in A[x], o \in A[y] : Overlap(n, o) => x = y /\ n = o
  BY DEF Apart
<1>3. ASSUME NEW x \in Place, NEW n \in A[x], NEW o, Kid(o), Overlap(o, n) \/ Overlap(n, o)
      PROVE  x = a /\ n = j
  <2>1. PICK i \in {0, 1} : o = Append(j, i)
    BY <1>3
  <2>2. Overlap(Append(j, i), n) /\ n \in Path
    BY <1>3, <2>1 DEF Overlap
  <2>3. Overlap(j, n)
    BY <2>2, ChildOverlaps, Zenon
  <2> QED
    BY <1>2, <2>3
<1>4. ASSUME Kid(k), Kid(l) PROVE k = l
  <2>1. PICK i \in {0, 1} : k = Append(j, i)
    BY <1>4
  <2>2. PICK n \in {0, 1} : l = Append(j, n)
    BY <1>4
  <2>3. i = n
    BY <2>1, <2>2, ChildrenApart, Zenon
  <2> QED
    BY ZenonT(60), <2>1, <2>2, <2>3
<1>5. (k \in A[p] /\ ~(p = a /\ k = j)) \/ (p = a /\ Kid(k))
  BY ZenonT(60), <1>1
<1>6. (l \in A[q] /\ ~(q = a /\ l = j)) \/ (q = a /\ Kid(l))
  BY <1>1
<1> HIDE DEF Kid
<1> QED
  BY <1>2, <1>3, <1>4, <1>5, <1>6, Zenon

\* Jobs that stay, or move out of place a, cover what they covered.
LEMMA MoreCovered ==
  ASSUME NEW A, NEW B, Covered(A), \A p \in Place : A[p] \subseteq B[p]
  PROVE  Covered(B)
  BY DEF Covered

\* A place may be emptied as long as each of its jobs lies somewhere.
LEMMA MovedCovered ==
  ASSUME NEW A, NEW B, Covered(A), NEW a, \A p \in Place \ {a} : A[p] \subseteq B[p],
         \A j \in A[a] : \E q \in Place : j \in B[q]
  PROVE  Covered(B)
<1> SUFFICES ASSUME NEW leaf \in Job \ Branching
             PROVE  \E p \in Place : \E j \in B[p] : IsPrefix(j, leaf)
  BY DEF Covered
<1>1. PICK p \in Place : \E j \in A[p] : IsPrefix(j, leaf)
  BY DEF Covered
<1>2. PICK j \in A[p] : IsPrefix(j, leaf)
  BY <1>1
<1>3. \E q \in Place : j \in B[q]
  BY ZenonT(60), <1>2
<1> QED
  BY ZenonT(60), <1>2, <1>3

\* So do the children of a job at which the program forks.
LEMMA BranchedCovered ==
  ASSUME NEW A, NEW B, Covered(A), NEW a \in Place, NEW j \in Branching,
         \A p \in Place : A[p] \subseteq Path,
         (A[a] \ {j}) \cup {Append(j, 0), Append(j, 1)} \subseteq B[a],
         \A p \in Place \ {a} : A[p] \subseteq B[p]
  PROVE  Covered(B)
<1> SUFFICES ASSUME NEW leaf \in Job \ Branching
             PROVE  \E p \in Place : \E k \in B[p] : IsPrefix(k, leaf)
  BY DEF Covered
<1>1. PICK p \in Place : \E k \in A[p] : IsPrefix(k, leaf)
  BY DEF Covered
<1>2. PICK k \in A[p] : IsPrefix(k, leaf)
  BY <1>1
<1>3. CASE k \in B[p]
  BY ZenonT(60), <1>2, <1>3
<1>4. CASE k \notin B[p]
  <2>1. p = a /\ k = j
    BY ZenonT(60), <1>2, <1>4
  <2>2. j \in Path /\ leaf \in Path /\ j # leaf
    BY JobPaths, BalancingConstants
  <2>3. PICK i \in {0, 1} : IsPrefix(Append(j, i), leaf)
    BY <1>2, <2>1, <2>2, ChildBegins, Zenon
  <2>4. Append(j, i) \in B[a]
    BY <2>3, Zenon
  <2> QED
    BY ZenonT(60), <2>3, <2>4
<1> QED
  BY ZenonT(60), <1>3, <1>4

-----------------------------------------------------------------------------
(* The steps that leave jobs where they are, drop them or move them. *)

\* A step that drops jobs does so only after a fault or at the end.
LEMMA JobsFewer ==
  ASSUME JobsInv, seeds' = seeds, finished' = finished, peer' \subseteq peer,
         \A w \in Worker : jobs'[w] \subseteq jobs[w],
         \A w \in Worker : Seeded(resp', w) => Seeded(resp, w),
         faults' = 0 /\ ~done' =>
           /\ faults = 0 /\ ~done /\ peer' = peer
           /\ \A w \in Worker : jobs'[w] = jobs[w] /\ (Seeded(resp, w) => Seeded(resp', w))
  PROVE  JobsInv'
<1>1. At' = Lying(jobs', resp', peer', finished') /\ At = Lying(jobs, resp, peer, finished)
  BY DEF At
<1>2. \A p \in Place \ {} : At'[p] \subseteq At[p]
  BY <1>1, LyingFewer, Zenon
<1>3. ASSUME faults' = 0 /\ ~done' PROVE \A p \in Place \ {} : At[p] \subseteq At'[p]
  <2>1. \A w \in Worker : jobs[w] \subseteq jobs'[w]
    BY ZenonT(60), <1>3
  <2>2. \A w \in Worker : Seeded(resp, w) => Seeded(resp', w)
    BY ZenonT(60), <1>3
  <2>3. \A m \in Messages : m \in peer => m \in peer'
    BY <1>3
  <2>4. finished \subseteq finished'
    OBVIOUS
  <2> QED
    BY <1>1, <2>1, <2>2, <2>3, <2>4, LyingFewer, ZenonT(60)
<1>4. (seeds' <= 1 => Apart(At)') 
  <2>1. ASSUME seeds <= 1 PROVE Apart(At')
    <3>1. Apart(At)
      BY ZenonT(60), <2>1 DEF JobsInv
    <3> QED
      BY <1>2, <3>1, FewerApart, Zenon
  <2>2. Apart(At)' <=> Apart(At')
    BY DEF Apart, Place, Messages
  <2> QED
    BY <2>1, <2>2
<1>5. ASSUME faults' = 0, ~done', seeds' > 0 PROVE Covered(At')
  <2>1. Covered(At)
    BY ZenonT(60), <1>5 DEF JobsInv
  <2>2. \A p \in Place : At[p] \subseteq At'[p]
    BY ZenonT(60), <1>3, <1>5
  <2> QED
    BY <2>1, <2>2, MoreCovered, Zenon
<1>6. seeds' = 0 => \A p \in Place : At'[p] = {}
  BY <1>2 DEF JobsInv
<1> QED
  BY <1>4, <1>5, <1>6, ZenonT(30) DEF JobsInv, Apart, Covered, Place, Messages

\* A step that moves the jobs S from place a to place b.
LEMMA JobsMoved ==
  ASSUME JobsInv, seeds' = seeds, faults' = faults, done' = done,
         peer' \subseteq Messages, finished' \subseteq Job,
         NEW a \in Place, NEW b \in Place, a # b, NEW S, S \subseteq At[a],
         At'[a] = At[a] \ S, At'[b] = At[b] \cup S,
         \A p \in Place \ {a, b} : At'[p] = At[p]
  PROVE  JobsInv'
<1>1. ASSUME seeds <= 1 PROVE Apart(At')
  <2>1. Apart(At)
    BY <1>1 DEF JobsInv
  <2>2. At'[a] \subseteq At[a] \ S /\ At'[b] \subseteq At[b] \cup S
        /\ \A p \in Place \ {a, b} : At'[p] \subseteq At[p]
    OBVIOUS
  <2> QED
    BY <2>1, <2>2, MovedApart, ZenonT(60)
<1>2. ASSUME faults = 0, ~done, seeds > 0 PROVE Covered(At')
  <2>1. Covered(At)
    BY ZenonT(60), <1>2 DEF JobsInv
  <2>2. \A p \in Place \ {a} : At[p] \subseteq At'[p]
    OBVIOUS
  <2>3. \A j \in At[a] : \E q \in Place : j \in At'[q]
    OBVIOUS
  <2> QED
    BY <2>1, <2>2, <2>3, MovedCovered, ZenonT(60)
<1>3. seeds' = 0 => \A p \in Place : At'[p] = {}
  BY DEF JobsInv
<1> QED
  BY <1>1, <1>2, <1>3, Zenon DEF JobsInv, Apart, Covered, Place, Messages

\* Before and after a step.
LEMMA PlacesSame ==
  ASSUME NEW X,
         \A w \in Worker : <<"held", w>> \notin X => jobs'[w] = jobs[w],
         \A w \in Worker : <<"seed", w>> \notin X => (Seeded(resp', w) <=> Seeded(resp, w)),
         \A m \in Messages : <<"sent", m>> \notin X => (m \in peer' <=> m \in peer),
         <<"finished", None>> \notin X => finished' = finished
  PROVE  \A p \in Place \ X : At'[p] = At[p]
<1>1. At' = Lying(jobs', resp', peer', finished') /\ At = Lying(jobs, resp, peer, finished)
  BY DEF At
<1>2. \A p \in Place \ X : At'[p] \subseteq At[p]
  <2>1. \A w \in Worker : <<"held", w>> \notin X => jobs'[w] \subseteq jobs[w]
    BY ZenonT(60)
  <2>2. \A w \in Worker : <<"seed", w>> \notin X => (Seeded(resp', w) => Seeded(resp, w))
    OBVIOUS
  <2>3. \A m \in Messages : <<"sent", m>> \notin X => (m \in peer' => m \in peer)
    OBVIOUS
  <2>4. <<"finished", None>> \notin X => finished' \subseteq finished
    OBVIOUS
  <2> QED
    BY <1>1, <2>1, <2>2, <2>3, <2>4, LyingFewer, ZenonT(60)
<1>3. \A p \in Place \ X : At[p] \subseteq At'[p]
  <2>1. \A w \in Worker : <<"held", w>> \notin X => jobs[w] \subseteq jobs'[w]
    OBVIOUS
  <2>2. \A w \in Worker : <<"seed", w>> \notin X => (Seeded(resp, w) => Seeded(resp', w))
    OBVIOUS
  <2>3. \A m \in Messages : <<"sent", m>> \notin X => (m \in peer => m \in peer')
    OBVIOUS
  <2>4. <<"finished", None>> \notin X => finished \subseteq finished'
    OBVIOUS
  <2> QED
    BY <1>1, <2>1, <2>2, <2>3, <2>4, LyingFewer, ZenonT(60)
<1> QED
  BY <1>2, <1>3, ZenonT(60)

\* What lies where, before a step and after it.
LEMMA PlacesHold ==
  /\ LyingIn(At, jobs, resp, peer, finished)
  /\ LyingIn(At', jobs', resp', peer', finished')
  BY LyingAt, Zenon DEF At

\* updateTreeOnDestroy.
LEMMA DestroyMoves ==
  ASSUME JobsInv, DoneInv, SoundInv, NEW w \in Worker, Destroy(w)
  PROVE  JobsInv'
<1> DEFINE j == currentJob[w]
           a == <<"held", w>>
           b == <<"finished", None>>
<1>1. /\ finished' = finished \cup {j} /\ jobs' = [jobs EXCEPT ![w] = @ \ {j}]
      /\ j \in jobs[w] /\ jobs \in [Worker -> SUBSET Job] /\ finished \subseteq Job
      /\ peer \subseteq Messages
      /\ UNCHANGED <<resp, peer, seeds, faults, done>>
  BY DEF Destroy, DoneInv, Typed, CurrentJobStays, JobsInv, netvars, lbvars
<1> HIDE DEF j
<1>2. a \in Place /\ b \in Place /\ a # b
  BY PlaceIs, Zenon
<1>4. At[a] = jobs[w] /\ At'[a] = jobs[w] \ {j} /\ At[b] = finished /\ At'[b] = finished \cup {j}
  BY <1>1, PlacesHold, Zenon DEF LyingIn
<1>5. \A p \in Place \ {a, b} : At'[p] = At[p]
  <2>1. \A v \in Worker : <<"held", v>> \notin {a, b} => jobs'[v] = jobs[v]
    BY <1>1
  <2>2. \A v \in Worker : <<"seed", v>> \notin {a, b} => (Seeded(resp', v) <=> Seeded(resp, v))
    BY <1>1
  <2>3. \A m \in Messages : <<"sent", m>> \notin {a, b} => (m \in peer' <=> m \in peer)
    BY <1>1
  <2>4. <<"finished", None>> \notin {a, b} => finished' = finished
    BY ZenonT(60)
  <2> HIDE DEF a, b
  <2> QED
    BY <2>1, <2>2, <2>3, <2>4, PlacesSame, ZenonT(60)
<1>6. {j} \subseteq At[a] /\ At'[a] = At[a] \ {j} /\ At'[b] = At[b] \cup {j}
      /\ peer' \subseteq Messages /\ finished' \subseteq Job
  BY <1>1, <1>4
<1> HIDE DEF a, b
<1> QED
  BY <1>1, <1>2, <1>5, <1>6, JobsMoved, ZenonT(60)

\* What lies anywhere is a path.
LEMMA JobsLie ==
  ASSUME JobsInv, Typed
  PROVE  \A p \in Place : At[p] \subseteq Path
<1> SUFFICES ASSUME NEW p \in Place PROVE At[p] \subseteq Job
  BY ZenonT(60), JobPaths
<1>1. ASSUME NEW w \in Worker, p = <<"held", w>> PROVE At[p] \subseteq Job
  BY ZenonT(60), <1>1, PlacesHold DEF LyingIn, Typed
<1>2. ASSUME NEW w \in Worker, p = <<"seed", w>> PROVE At[p] \subseteq Job
  BY ZenonT(60), <1>2, PlacesHold, JobPaths DEF LyingIn
<1>3. ASSUME NEW m \in Messages, p = <<"sent", m>> PROVE At[p] \subseteq Job
  BY ZenonT(60), <1>3, PlacesHold DEF LyingIn, Messages
<1>4. CASE p = <<"finished", None>>
  BY <1>4, PlacesHold DEF LyingIn, JobsInv
<1> QED
  BY <1>1, <1>2, <1>3, <1>4, Places, Zenon

\* updateTreeOnBranch.
LEMMA BranchMoves ==
  ASSUME JobsInv, DoneInv, NEW w \in Worker, Branch(w)
  PROVE  JobsInv'
<1> DEFINE j == currentJob[w]
           a == <<"held", w>>
           kids == {Append(j, 0), Append(j, 1)}
<1>1. /\ jobs' = [jobs EXCEPT ![w] = (@ \ {j}) \cup kids]
      /\ j \in jobs[w] /\ jobs \in [Worker -> SUBSET Job] /\ j \in Branching
      /\ UNCHANGED <<resp, peer, seeds, faults, done, finished>>
  BY ZenonT(60) DEF Branch, DoneInv, Typed, CurrentJobStays, netvars, lbvars
<1>2. a \in Place /\ j \in Path
  BY <1>1, PlaceIs, BalancingConstants, ZenonT(60) DEF Path
<1> HIDE DEF j, kids
<1>3. At[a] = jobs[w] /\ At'[a] = (jobs[w] \ {j}) \cup kids
  BY <1>1, PlacesHold DEF LyingIn
<1>4. \A p \in Place \ {a} : At'[p] = At[p]
  <2>1. \A v \in Worker : <<"held", v>> \notin {a} => jobs'[v] = jobs[v]
    BY <1>1
  <2>2. \A v \in Worker : <<"seed", v>> \notin {a} => (Seeded(resp', v) <=> Seeded(resp, v))
    BY <1>1
  <2>3. \A m \in Messages : <<"sent", m>> \notin {a} => (m \in peer' <=> m \in peer)
    BY <1>1
  <2>4. <<"finished", None>> \notin {a} => finished' = finished
    BY <1>1
  <2> HIDE DEF a
  <2> QED
    BY <2>1, <2>2, <2>3, <2>4, PlacesSame, ZenonT(60)
<1>5. \A p \in Place : At[p] \subseteq Path
  BY JobsLie, Zenon DEF DoneInv
<1> HIDE DEF a
<1>6. ASSUME seeds <= 1 PROVE Apart(At')
  <2>1. Apart(At)
    BY ZenonT(60), <1>6 DEF JobsInv
  <2>2. /\ j \in At[a] /\ At'[a] \subseteq (At[a] \ {j}) \cup {Append(j, 0), Append(j, 1)}
        /\ \A p \in Place \ {a} : At'[p] \subseteq At[p]
    BY <1>1, <1>3, <1>4 DEF kids
  <2> QED
    BY <1>2, <1>5, <2>1, <2>2, BranchedApart, ZenonT(60)
<1>7. ASSUME faults = 0, ~done, seeds > 0 PROVE Covered(At')
  <2>1. Covered(At)
    BY ZenonT(60), <1>7 DEF JobsInv
  <2>2. /\ (At[a] \ {j}) \cup {Append(j, 0), Append(j, 1)} \subseteq At'[a]
        /\ \A p \in Place \ {a} : At[p] \subseteq At'[p]
    BY ZenonT(60), <1>1, <1>3, <1>4 DEF kids
  <2> QED
    BY <1>1, <1>2, <1>5, <2>1, <2>2, BranchedCovered, ZenonT(60)
<1>8. seeds # 0
  BY <1>1, <1>2, <1>3 DEF JobsInv
<1> QED
  BY <1>1, <1>6, <1>7, <1>8, ZenonT(30) DEF JobsInv, Apart, Covered, Place, Messages

\* PeerConnection::handleMessageReceived.
LEMMA ReceiveMoves ==
  ASSUME JobsInv, DoneInv, NEW w \in Worker, ReceiveJobs(w)
  PROVE  JobsInv'
<1>1. PICK m \in peer : m.to = w /\ peer' = peer \ {m} /\ importJobs(w, m.jobs)
  BY DEF ReceiveJobs
<1> DEFINE a == <<"sent", m>>
           b == <<"held", w>>
<1>2. /\ jobs' = [jobs EXCEPT ![w] = @ \cup m.jobs] /\ m \in Messages
      /\ jobs \in [Worker -> SUBSET Job] /\ peer \subseteq Messages /\ finished \subseteq Job
      /\ UNCHANGED <<resp, seeds, faults, done, finished>>
  BY <1>1, Zenon DEF ReceiveJobs, importJobs, DoneInv, Typed, JobsInv, lbvars
<1>3. a \in Place /\ b \in Place /\ a # b
  BY <1>2, PlaceIs, Zenon
<1>4. At[a] = m.jobs /\ At'[a] = {} /\ At[b] = jobs[w] /\ At'[b] = jobs[w] \cup m.jobs
  BY <1>1, <1>2, PlacesHold, ZenonT(30) DEF LyingIn
<1>5. \A p \in Place \ {a, b} : At'[p] = At[p]
  <2>1. \A v \in Worker : <<"held", v>> \notin {a, b} => jobs'[v] = jobs[v]
    BY ZenonT(60), <1>2
  <2>2. \A v \in Worker : <<"seed", v>> \notin {a, b} => (Seeded(resp', v) <=> Seeded(resp, v))
    BY <1>2
  <2>3. \A n \in Messages : <<"sent", n>> \notin {a, b} => (n \in peer' <=> n \in peer)
    BY ZenonT(60), <1>1
  <2>4. <<"finished", None>> \notin {a, b} => finished' = finished
    BY ZenonT(60), <1>2
  <2> HIDE DEF a, b
  <2> QED
    BY <2>1, <2>2, <2>3, <2>4, PlacesSame, ZenonT(60)
<1>6. m.jobs \subseteq At[a] /\ At'[a] = At[a] \ m.jobs /\ At'[b] = At[b] \cup m.jobs
      /\ peer' \subseteq Messages /\ finished' \subseteq Job
  BY ZenonT(60), <1>1, <1>2, <1>4
<1> HIDE DEF a, b
<1> QED
  BY <1>2, <1>3, <1>5, <1>6, JobsMoved, ZenonT(60)

\* processResponse with a transfer: the jobs leave the tree for the message, or are
\* dropped with a partner that is gone.
LEMMA TransferMoves ==
  ASSUME JobsInv, DoneInv, TalkInv, SoundInv, NEW w \in Worker, processResponse(w),
         resp[w].transfer # None, transferJobs(w, resp[w].transfer)
  PROVE  JobsInv'
<1> DEFINE to == resp[w].transfer.to
<1>1. PICK S \in Exports(w, resp[w].transfer.count) :
        /\ jobs' = [jobs EXCEPT ![w] = @ \ S]
        /\ peer' = IF Listening(to) THEN peer \cup {[to |-> to, jobs |-> S]} ELSE peer
  BY ZenonT(30) DEF transferJobs
<1> DEFINE m == [to |-> to, jobs |-> S]
           a == <<"held", w>>
           b == <<"sent", m>>
<1>2. /\ S \subseteq jobs[w] /\ jobs \in [Worker -> SUBSET Job]
      /\ peer \subseteq Messages /\ finished \subseteq Job
      /\ resp' = [resp EXCEPT ![w] = None] /\ DOMAIN resp = Worker
      /\ ~Seeded(resp, w) /\ to \in Worker
      /\ UNCHANGED <<seeds, faults, done, finished>>
  BY Zenon DEF processResponse, DoneInv, Typed, JobsInv, TalkInv, Exports, Seeded, lbvars
<1>3. \A v \in Worker : Seeded(resp', v) <=> Seeded(resp, v)
  BY <1>2, ZenonT(30) DEF Seeded
<1>4. CASE ~Listening(to)
  <2>1. ~(faults = 0 /\ ~done)
    BY ZenonT(60), <1>2, <1>4 DEF Listening, SoundInv
  <2>2. \A v \in Worker : jobs'[v] \subseteq jobs[v]
    BY <1>1, <1>2
  <2> QED
    BY <1>1, <1>2, <1>3, <1>4, <2>1, <2>2, JobsFewer, ZenonT(60)
<1>5. CASE Listening(to)
  <2>1. m \in Messages
    BY ZenonT(60), <1>2 DEF Messages
  <2>2. peer' = peer \cup {m}
    BY ZenonT(60), <1>1, <1>5
  <2>3. m.jobs = S
    OBVIOUS
  <2> HIDE DEF m
  <2>4. a \in Place /\ b \in Place /\ a # b
    BY <2>1, PlaceIs, Zenon
  <2>5. At[a] = jobs[w] /\ At'[a] = jobs[w] \ S /\ At'[b] = S /\ (At[b] = S \/ At[b] = {})
    BY ZenonT(60), <1>1, <1>2, <2>1, <2>2, <2>3, PlacesHold DEF LyingIn
  <2>6. \A p \in Place \ {a, b} : At'[p] = At[p]
    <3>1. \A v \in Worker : <<"held", v>> \notin {a, b} => jobs'[v] = jobs[v]
      BY <1>1, <1>2
    <3>2. \A v \in Worker : <<"seed", v>> \notin {a, b} => (Seeded(resp', v) <=> Seeded(resp, v))
      BY <1>3
    <3>3. \A n \in Messages : <<"sent", n>> \notin {a, b} => (n \in peer' <=> n \in peer)
      BY <2>2
    <3>4. <<"finished", None>> \notin {a, b} => finished' = finished
      BY ZenonT(60), <1>2
    <3> HIDE DEF a, b
    <3> QED
      BY <3>1, <3>2, <3>3, <3>4, PlacesSame, ZenonT(60)
  <2>7. S \subseteq At[a] /\ At'[a] = At[a] \ S /\ At'[b] = At[b] \cup S
        /\ peer' \subseteq Messages /\ finished' \subseteq Job
    BY <1>2, <2>1, <2>2, <2>5
  <2> HIDE DEF a, b
  <2> QED
    BY <1>2, <2>4, <2>6, <2>7, JobsMoved, ZenonT(60)
<1> QED
  BY <1>4, <1>5

\* processResponse with the seed.
LEMMA SeedMoves ==
  ASSUME JobsInv, DoneInv, TalkInv, NEW w \in Worker, processResponse(w),
         resp[w].seed, importJobs(w, {Root}), UNCHANGED peer
  PROVE  JobsInv'
<1> DEFINE a == <<"seed", w>>
           b == <<"held", w>>
<1>1. /\ jobs' = [jobs EXCEPT ![w] = @ \cup {Root}] /\ jobs \in [Worker -> SUBSET Job]
      /\ peer \subseteq Messages /\ finished \subseteq Job
      /\ resp' = [resp EXCEPT ![w] = None] /\ DOMAIN resp = Worker
      /\ Seeded(resp, w)
      /\ UNCHANGED <<seeds, faults, done, finished>>
  BY Zenon DEF processResponse, importJobs, DoneInv, Typed, JobsInv, TalkInv, Seeded, lbvars
<1>2. ~Seeded(resp', w) /\ \A v \in Worker \ {w} : Seeded(resp', v) <=> Seeded(resp, v)
  BY <1>1 DEF Seeded
<1>3. a \in Place /\ b \in Place /\ a # b
  BY PlaceIs
<1>4. At[a] = {Root} /\ At'[a] = {} /\ At[b] = jobs[w] /\ At'[b] = jobs[w] \cup {Root}
  BY <1>1, <1>2, PlacesHold, Zenon DEF LyingIn
<1>5. \A p \in Place \ {a, b} : At'[p] = At[p]
  <2>1. \A v \in Worker : <<"held", v>> \notin {a, b} => jobs'[v] = jobs[v]
    BY <1>1
  <2>2. \A v \in Worker : <<"seed", v>> \notin {a, b} => (Seeded(resp', v) <=> Seeded(resp, v))
    BY <1>2
  <2>3. \A n \in Messages : <<"sent", n>> \notin {a, b} => (n \in peer' <=> n \in peer)
    OBVIOUS
  <2>4. <<"finished", None>> \notin {a, b} => finished' = finished
    BY ZenonT(60), <1>1
  <2> HIDE DEF a, b
  <2> QED
    BY <2>1, <2>2, <2>3, <2>4, PlacesSame, ZenonT(60)
<1>6. {Root} \subseteq At[a] /\ At'[a] = At[a] \ {Root} /\ At'[b] = At[b] \cup {Root}
      /\ peer' \subseteq Messages /\ finished' \subseteq Job
  BY ZenonT(60), <1>1, <1>4
<1> HIDE DEF a, b
<1> QED
  BY <1>1, <1>3, <1>5, <1>6, JobsMoved, ZenonT(60)

\* registerWorker: the root lies with the first worker, and nowhere else if it was given
\* out for the first time.
LEMMA RegisterMoves ==
  ASSUME JobsInv, TalkInv, NEW w \in Worker, registerWorker(w)
  PROVE  JobsInv'
<1> DEFINE a == <<"seed", w>>
           r == [transfer |-> None, seed |-> (workers = {}), terminate |-> FALSE]
<1>1. /\ resp[w] = None /\ DOMAIN resp = Worker
      /\ resp' = [resp EXCEPT ![w] = r] /\ r # None
      /\ UNCHANGED <<jobs, peer, finished, faults, done>>
  <2>1. r \in Answer
    BY DEF Answer
  <2>2. resp' = [resp EXCEPT ![w] = r] /\ UNCHANGED <<jobs, peer, finished, faults, done>>
        /\ comm[w] = "new"
    BY Zenon DEF registerWorker, treevars
  <2> QED
    BY <2>1, <2>2, BalancingConstants, ZenonT(60) DEF TalkInv
<1>2. r.seed = (workers = {})
  OBVIOUS
<1> HIDE DEF r
<1>3. /\ ~Seeded(resp, w) /\ Seeded(resp', w) = (workers = {})
      /\ \A v \in Worker \ {w} : Seeded(resp', v) <=> Seeded(resp, v)
  BY <1>1, <1>2, Zenon DEF Seeded
<1>4. CASE workers # {}
  <2>1. \A v \in Worker : Seeded(resp', v) <=> Seeded(resp, v)
    BY <1>3, <1>4, ZenonT(30)
  <2>2. seeds' = seeds
    BY <1>4 DEF registerWorker
  <2> QED
    BY <1>1, <2>1, <2>2, JobsFewer, Zenon
<1>5. CASE workers = {}
  <2>1. seeds' = seeds + 1 /\ seeds \in Nat
    BY <1>5 DEF registerWorker, JobsInv
  <2>2. a \in Place /\ At'[a] = {Root}
    BY <1>3, <1>5, PlacesHold, PlaceIs, ZenonT(30) DEF LyingIn
  <2>3. \A p \in Place \ {a} : At'[p] = At[p]
    <3>1. \A v \in Worker : <<"held", v>> \notin {a} => jobs'[v] = jobs[v]
      BY ZenonT(60), <1>1
    <3>2. \A v \in Worker : <<"seed", v>> \notin {a} => (Seeded(resp', v) <=> Seeded(resp, v))
      BY ZenonT(60), <1>3
    <3>3. \A n \in Messages : <<"sent", n>> \notin {a} => (n \in peer' <=> n \in peer)
      BY ZenonT(60), <1>1
    <3>4. <<"finished", None>> \notin {a} => finished' = finished
      BY <1>1
    <3> HIDE DEF a
    <3> QED
      BY <3>1, <3>2, <3>3, <3>4, PlacesSame, Zenon
  <2> HIDE DEF a
  <2>4. ASSUME seeds' <= 1 PROVE Apart(At')
    <3>1. \A p \in Place : At[p] = {}
      BY SMTT(30), <2>1, <2>4 DEF JobsInv
    <3>2. \A p \in Place : \A j \in At'[p] : p = a /\ j = Root
      BY ZenonT(60), <2>2, <2>3, <3>1
    <3> QED
      BY <3>2, Zenon DEF Apart
  <2>5. Covered(At')
    <3>1. \A leaf \in Job \ Branching : IsPrefix(Root, leaf)
      BY ZenonT(60), PrefixRoot, JobPaths
    <3> QED
      BY ZenonT(60), <2>2, <3>1 DEF Covered
  <2> QED
    <3>1. seeds' \in Nat /\ seeds' # 0
      BY <2>1
    <3>2. peer' \subseteq Messages /\ finished' \subseteq Job
      BY <1>1, ZenonT(60) DEF JobsInv
    <3> QED
      BY <2>4, <2>5, <3>1, <3>2, ZenonT(60) DEF JobsInv, Apart, Covered, Place, Messages
<1> QED
  BY <1>4, <1>5, Zenon

\* The end of a worker process: without a fault, only after the end of the exploration.
LEMMA EndsMove ==
  ASSUME JobsInv, DoneInv, TalkInv, SoundInv, NEW w \in Worker,
         finalize(w) \/ LoseBalancer(w) \/ Crash(w)
  PROVE  JobsInv'
<1>1. ProcessEnds(w)
  BY Zenon DEF finalize, LoseBalancer, Crash
<1>2. ~(faults' = 0 /\ ~done')
  <2>1. done' = done
    BY <1>1 DEF ProcessEnds, lbvars
  <2>2. CASE finalize(w)
    <3>1. exec[w] = "ended" /\ faults' = faults
      BY <2>2, Zenon DEF finalize
    <3> QED
      BY <2>1, <3>1, Zenon DEF SoundInv
  <2>3. CASE LoseBalancer(w)
    <3>1. (conn[w] = "closed" \/ lb # "up") /\ faults' = faults
      BY <2>3, Zenon DEF LoseBalancer
    <3> QED
      BY <2>1, <3>1, Zenon DEF SoundInv
  <2>4. CASE Crash(w)
    <3>1. faults' = faults + 1
      BY <2>4, Zenon DEF Crash
    <3>2. faults \in Nat
      BY Zenon DEF SoundInv
    <3> QED
      BY ONLY SMTT(30), <3>1, <3>2
  <2> QED
    BY <2>2, <2>3, <2>4, ZenonT(60)
<1>3. /\ seeds' = seeds /\ finished' = finished /\ peer' \subseteq peer
      /\ \A v \in Worker : jobs'[v] \subseteq jobs[v]
  BY <1>1, ZenonT(30) DEF ProcessEnds, DoneInv, Typed
<1>4. \A v \in Worker : Seeded(resp', v) => Seeded(resp, v)
  BY <1>1, ZenonT(30) DEF ProcessEnds, TalkInv, Seeded
<1> QED
  BY ZenonT(60), <1>2, <1>3, <1>4, JobsFewer

\* The steps that leave every job where it is.
LEMMA JobsStay ==
  ASSUME JobsInv, seeds' = seeds, UNCHANGED <<jobs, peer, finished>>,
         \A w \in Worker : Seeded(resp', w) <=> Seeded(resp, w),
         faults' = 0 => faults = 0, ~done' => ~done
  PROVE  JobsInv'
  BY JobsFewer

\* The threads of a worker neither lose nor double a job.
LEMMA WorkerMoves ==
  ASSUME JobsInv, DoneInv, TalkInv, SoundInv, NEW w \in Worker, WorkerStep(w)
  PROVE  JobsInv'
<1>1. CASE SelectJob(w) \/ CheckJobs(w) \/ WaitForJobs(w) \/ EndStep(w) \/ EndLoop(w)
           \/ sendUpdates(w)
  <2>1. UNCHANGED <<jobs, peer, finished, resp, seeds, faults, done>>
    BY <1>1, Zenon DEF SelectJob, CheckJobs, WaitForJobs, EndStep, EndLoop, sendUpdates,
                lbvars, netvars, treevars
  <2> QED
    BY <2>1, JobsStay
<1>2. CASE Branch(w)
  BY ZenonT(60), <1>2, BranchMoves
<1>3. CASE Destroy(w)
  BY <1>3, DestroyMoves
<1>4. CASE processResponse(w)
  <2>1. CASE resp[w].transfer # None /\ transferJobs(w, resp[w].transfer)
    BY ZenonT(60), <1>4, <2>1, TransferMoves
  <2>2. CASE resp[w].seed /\ importJobs(w, {Root}) /\ UNCHANGED peer
    BY ZenonT(60), <1>4, <2>2, SeedMoves
  <2>3. CASE resp[w].transfer = None /\ ~resp[w].seed /\ UNCHANGED <<jobs, arrived, peer>>
    <3>1. UNCHANGED <<jobs, peer, finished, seeds, faults, done>>
          /\ resp' = [resp EXCEPT ![w] = None]
      BY <1>4, <2>3, Zenon DEF processResponse, lbvars
    <3>2. \A v \in Worker : Seeded(resp', v) <=> Seeded(resp, v)
      BY ZenonT(60), <2>3, <3>1 DEF Seeded, TalkInv
    <3> QED
      BY <3>1, <3>2, JobsStay, ZenonT(30)
  <2> QED
    BY <1>4, <2>1, <2>2, <2>3, ZenonT(60) DEF processResponse
<1>5. CASE ReceiveJobs(w)
  BY <1>5, ReceiveMoves
<1>6. CASE finalize(w) \/ LoseBalancer(w) \/ Crash(w)
  BY <1>6, EndsMove
<1> QED
  BY <1>1, <1>2, <1>3, <1>4, <1>5, <1>6, ZenonT(60) DEF WorkerStep

\* Nor do the handlers of the balancer, registrations included.
LEMMA BalancerMoves ==
  ASSUME JobsInv, DoneInv, TalkInv, SoundInv, PairInv, NEW w \in Worker, BalancerStep(w)
  PROVE  JobsInv'
<1>1. CASE registerWorker(w)
  BY <1>1, RegisterMoves
<1>2. CASE HandleReport(w)
  <2>1. PICK req : \/ UNCHANGED resp
                   \/ resp' = [resp EXCEPT ![w] =
                                 [transfer |-> Due(w, req), seed |-> FALSE, terminate |-> done']]
    BY <1>2, ReportTransfers, Zenon DEF DoneInv
  <2>2. resp[w] = None /\ DOMAIN resp = Worker
    BY <1>2, Zenon DEF HandleReport, TalkInv
  <2>3. \A v \in Worker : Seeded(resp', v) <=> Seeded(resp, v)
    <3>1. CASE UNCHANGED resp
      BY ZenonT(60), <3>1
    <3>2. CASE resp' = [resp EXCEPT ![w] =
                          [transfer |-> Due(w, req), seed |-> FALSE, terminate |-> done']]
      <4>1. resp'[w].seed = FALSE /\ \A v \in Worker \ {w} : resp'[v] = resp[v]
        BY <2>2, <3>2
      <4> QED
        BY ZenonT(60), <2>2, <4>1 DEF Seeded
    <3> QED
      BY <2>1, <3>1, <3>2, Zenon
  <2>4. UNCHANGED <<jobs, peer, finished, seeds, faults>> /\ (~done' => ~done)
    BY <1>2, Zenon DEF HandleReport, treevars
  <2> QED
    BY <2>3, <2>4, JobsStay
<1>3. CASE HandleLateReport(w) \/ ConnectionInterrupted(w) \/ periodicCheck(w)
  <2>1. UNCHANGED <<jobs, peer, finished, resp, seeds, done>> /\ (faults' = 0 => faults = 0)
    <3>1. CASE HandleLateReport(w)
      BY <3>1, Zenon DEF HandleLateReport, treevars
    <3>2. CASE ConnectionInterrupted(w)
      BY <3>2, Zenon DEF ConnectionInterrupted, netvars, treevars
    <3>3. CASE periodicCheck(w)
      <4>1. faults \in Nat /\ faults' = faults + 1
        BY <3>3 DEF periodicCheck, SoundInv
      <4>2. faults' # 0
        BY ONLY <4>1, SMT
      <4>3. UNCHANGED <<jobs, peer, finished, resp, seeds, done>>
        BY <3>3, Zenon DEF periodicCheck, netvars, treevars
      <4> QED
        BY <4>2, <4>3, ZenonT(60)
    <3> QED
      BY <1>3, <3>1, <3>2, <3>3, ZenonT(60)
  <2> QED
    BY <2>1, JobsStay
<1> QED
  BY <1>1, <1>2, <1>3, ZenonT(60) DEF BalancerStep

-----------------------------------------------------------------------------
(* The invariant holds, and what it says of Copies. *)

\* No job is anywhere before the first worker registers.
LEMMA JobsInit == Init => JobsInv
<1> SUFFICES ASSUME Init PROVE JobsInv
  OBVIOUS
<1>1. /\ jobs = [w \in Worker |-> {}] /\ resp = [w \in Worker |-> None]
      /\ peer = {} /\ finished = {} /\ seeds = 0
  BY DEF Init
<1>2. \A p \in Place : At[p] = {}
  <2> SUFFICES ASSUME NEW p \in Place PROVE At[p] = {}
    OBVIOUS
  <2>1. ASSUME NEW w \in Worker, p = <<"held", w>> PROVE At[p] = {}
    BY <1>1, <2>1, PlacesHold, ZenonT(30) DEF LyingIn
  <2>2. ASSUME NEW w \in Worker, p = <<"seed", w>> PROVE At[p] = {}
    BY <1>1, <2>2, PlacesHold, ZenonT(30) DEF LyingIn, Seeded
  <2>3. ASSUME NEW m \in Messages, p = <<"sent", m>> PROVE At[p] = {}
    BY ZenonT(60), <1>1, <2>3, PlacesHold DEF LyingIn
  <2>4. CASE p = <<"finished", None>>
    BY ZenonT(60), <1>1, <2>4, PlacesHold DEF LyingIn
  <2> QED
    BY <2>1, <2>2, <2>3, <2>4, Places, ZenonT(60)
<1>3. Apart(At)
  BY <1>2 DEF Apart
<1>4. seeds \in Nat /\ ~(seeds > 0)
  BY <1>1
<1> QED
  BY <1>1, <1>2, <1>3, <1>4, ZenonT(60) DEF JobsInv

\* In every state the jobs lie apart and cover the program.
LEMMA JobsInvariant == Spec => []JobsInv
<1>1. JobsInv /\ BalancerInv /\ [Next]_vars => JobsInv'
  <2> SUFFICES ASSUME JobsInv, BalancerInv, [Next]_vars PROVE JobsInv'
    OBVIOUS
  <2>1. ASSUME NEW w \in Worker, WorkerStep(w) PROVE JobsInv'
    BY <2>1, WorkerMoves DEF BalancerInv
  <2>2. ASSUME NEW w \in Worker, BalancerStep(w) PROVE JobsInv'
    BY ZenonT(60), <2>2, BalancerMoves DEF BalancerInv
  <2>3. CASE UNCHANGED vars
    <3>1. UNCHANGED <<jobs, peer, finished, resp, seeds, faults, done>>
      BY <2>3 DEF vars, lbvars, netvars, treevars
    <3> QED
      BY ZenonT(60), <3>1, JobsStay
  <2> QED
    BY <2>1, <2>2, <2>3 DEF Next
<1> QED
  BY <1>1, JobsInit, BalancerInvariant, PTL DEF Spec, Safety

\* The members of Copies.
LEMMA CopyIs ==
  ASSUME NEW c
  PROVE  c \in Copies <=> \/ \E w \in Worker : \E j \in jobs[w] : c = <<"held", w, j>>
                          \/ \E m \in peer : \E j \in m.jobs : c = <<"sent", m, j>>
                          \/ \E w \in Worker : Seeded(resp, w) /\ c = <<"seed", w, Root>>
                          \/ \E j \in finished : c = <<"finished", None, j>>
<1> DEFINE H == UNION {{<<"held", w, j>> : j \in jobs[w]} : w \in Worker}
           M == UNION {{<<"sent", m, j>> : j \in m.jobs} : m \in peer}
           D == {<<"seed", w, Root>> : w \in {v \in Worker : resp[v] # None /\ resp[v].seed}}
           F == {<<"finished", None, j>> : j \in finished}
<1>1. c \in H <=> \E w \in Worker : \E j \in jobs[w] : c = <<"held", w, j>>
  OBVIOUS
<1>2. c \in M <=> \E m \in peer : \E j \in m.jobs : c = <<"sent", m, j>>
  OBVIOUS
<1>3. c \in D <=> \E w \in Worker : Seeded(resp, w) /\ c = <<"seed", w, Root>>
  BY DEF Seeded
<1>4. c \in F <=> \E j \in finished : c = <<"finished", None, j>>
  BY ZenonT(60)
<1>5. c \in Copies <=> c \in H \/ c \in M \/ c \in D \/ c \in F
  BY DEF Copies
<1> HIDE DEF H, M, D, F
<1> QED
  BY <1>1, <1>2, <1>3, <1>4, <1>5, ZenonT(60)

\* A copy of NoJobTwice and JobsKept is a job at a place, and every job at a place is one.
LEMMA CopyPlace ==
  ASSUME JobsInv, NEW c \in Copies
  PROVE  \E p \in Place : \E k \in At[p] : c = <<p[1], p[2], k>>
<1>1. ASSUME NEW w \in Worker, NEW j \in jobs[w], c = <<"held", w, j>>
      PROVE  \E p \in Place : \E k \in At[p] : c = <<p[1], p[2], k>>
  <2>1. <<"held", w>> \in Place /\ j \in At[<<"held", w>>]
    BY PlaceIs, PlacesHold, Zenon DEF LyingIn
  <2> QED
    BY <1>1, <2>1
<1>2. ASSUME NEW m \in peer, NEW j \in m.jobs, c = <<"sent", m, j>>
      PROVE  \E p \in Place : \E k \in At[p] : c = <<p[1], p[2], k>>
  <2>1. <<"sent", m>> \in Place /\ j \in At[<<"sent", m>>]
    BY ZenonT(60), PlaceIs, PlacesHold DEF LyingIn, JobsInv
  <2> QED
    BY ZenonT(60), <1>2, <2>1
<1>3. ASSUME NEW w \in Worker, Seeded(resp, w), c = <<"seed", w, Root>>
      PROVE  \E p \in Place : \E k \in At[p] : c = <<p[1], p[2], k>>
  <2>1. <<"seed", w>> \in Place /\ Root \in At[<<"seed", w>>]
    BY <1>3, PlaceIs, PlacesHold, ZenonT(60) DEF LyingIn
  <2> QED
    BY <1>3, <2>1
<1>4. ASSUME NEW j \in finished, c = <<"finished", None, j>>
      PROVE  \E p \in Place : \E k \in At[p] : c = <<p[1], p[2], k>>
  <2>1. <<"finished", None>> \in Place /\ j \in At[<<"finished", None>>]
    BY PlaceIs, PlacesHold DEF LyingIn
  <2> QED
    BY ZenonT(60), <1>4, <2>1
<1>5. \/ \E w \in Worker : \E j \in jobs[w] : c = <<"held", w, j>>
      \/ \E m \in peer : \E j \in m.jobs : c = <<"sent", m, j>>
      \/ \E w \in Worker : Seeded(resp, w) /\ c = <<"seed", w, Root>>
      \/ \E j \in finished : c = <<"finished", None, j>>
  BY CopyIs, Zenon
<1> QED
  BY <1>1, <1>2, <1>3, <1>4, <1>5, ZenonT(60)

\* What lies at a place is one of the Copies.
LEMMA PlaceCopy ==
  ASSUME NEW p \in Place, NEW j \in At[p]
  PROVE  <<p[1], p[2], j>> \in Copies
<1>1. ASSUME NEW w \in Worker, p = <<"held", w>> PROVE <<p[1], p[2], j>> \in Copies
  <2>1. j \in jobs[w]
    BY ZenonT(60), <1>1, PlacesHold DEF LyingIn
  <2> QED
    BY ZenonT(60), <1>1, <2>1, CopyIs
<1>2. ASSUME NEW w \in Worker, p = <<"seed", w>> PROVE <<p[1], p[2], j>> \in Copies
  <2>1. Seeded(resp, w) /\ j = Root
    BY ZenonT(60), <1>2, PlacesHold DEF LyingIn
  <2> QED
    BY ZenonT(60), <1>2, <2>1, CopyIs
<1>3. ASSUME NEW m \in Messages, p = <<"sent", m>> PROVE <<p[1], p[2], j>> \in Copies
  <2>1. m \in peer /\ j \in m.jobs
    BY ZenonT(60), <1>3, PlacesHold DEF LyingIn
  <2> QED
    BY ZenonT(60), <1>3, <2>1, CopyIs
<1>4. CASE p = <<"finished", None>>
  <2>1. j \in finished
    BY ZenonT(60), <1>4, PlacesHold DEF LyingIn
  <2> QED
    BY ZenonT(60), <1>4, <2>1, CopyIs
<1> QED
  BY <1>1, <1>2, <1>3, <1>4, Places, ZenonT(60)

\* No part of the execution tree is explored twice (importJobs' "Job duplication
\* detected"), within a worker or across workers and transfers, whatever dies or is
\* timed out, as long as the root was given out once.
THEOREM JobsNeverTwice == Spec => []NoJobTwice
<1>1. ASSUME JobsInv, seeds <= 1, NEW c \in Copies, NEW d \in Copies, Overlap(c[3], d[3])
      PROVE  c = d
  <2>1. PICK p \in Place : \E j \in At[p] : c = <<p[1], p[2], j>>
    BY <1>1, CopyPlace, Zenon
  <2>2. PICK q \in Place : \E j \in At[q] : d = <<q[1], q[2], j>>
    BY <1>1, CopyPlace, Zenon
  <2>3. PICK j \in At[p] : c = <<p[1], p[2], j>>
    BY ZenonT(60), <2>1
  <2>4. PICK k \in At[q] : d = <<q[1], q[2], k>>
    BY ZenonT(60), <2>2
  <2>5. Apart(At) /\ Overlap(j, k)
    BY ZenonT(60), <1>1, <2>3, <2>4 DEF JobsInv
  <2>6. p = q /\ j = k
    BY <2>5, Zenon DEF Apart
  <2> QED
    BY ZenonT(60), <2>3, <2>4, <2>6
<1>2. JobsInv => NoJobTwice
  BY <1>1, ZenonT(60) DEF NoJobTwice
<1> QED
  BY <1>2, JobsInvariant, PTL

\* Without a fault, and until the balancer declares the exploration done, every path of
\* the program has been finished, or has begun in a job that a worker holds, that is on
\* its way to one, or that an answer seeds: exportJobs, importJobs and the end of a
\* worker lose nothing.
THEOREM JobsNeverLost == Spec => []JobsKept
<1>1. ASSUME JobsInv, faults = 0, ~done, seeds > 0, NEW leaf \in Job \ Branching
      PROVE  \E c \in Copies : IsPrefix(c[3], leaf)
  <2>1. PICK p \in Place : \E j \in At[p] : IsPrefix(j, leaf)
    BY ZenonT(60), <1>1 DEF JobsInv, Covered
  <2>2. PICK j \in At[p] : IsPrefix(j, leaf)
    BY <2>1
  <2>3. <<p[1], p[2], j>> \in Copies
    BY PlaceCopy, Zenon
  <2>4. <<p[1], p[2], j>>[3] = j
    OBVIOUS
  <2> QED
    BY <2>2, <2>3, <2>4, ZenonT(60)
<1>2. JobsInv => JobsKept
  BY <1>1, Zenon DEF JobsKept
<1> QED
  BY <1>2, JobsInvariant, PTL

=============================================================================
