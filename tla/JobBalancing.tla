---------------------------- MODULE JobBalancing ----------------------------
(***************************************************************************)
(* The parallel symbolic execution of Cloud9: one load balancer (lib/      *)
(* Cloud9/LB) and its workers (lib/Cloud9/Worker).                         *)
(*                                                                         *)
(* A job is a node of the execution tree: the sequence of branch outcomes  *)
(* on the path from the root.  The program forks at the paths in           *)
(* Branching, and ends at the others.  Each worker has three threads that  *)
(* share its jobs under jobsMutex: the execution loop (exec), the thread   *)
(* that reports to the load balancer and obeys its answers (comm), and the *)
(* server that imports what other workers send.  The load balancer is one  *)
(* event loop; each of its handlers is one action.                         *)
(*                                                                         *)
(* A fault is a worker that dies, or one whose report has not come within  *)
(* WorkerTimeOut; faults counts them.                                      *)
(***************************************************************************)
EXTENDS Integers, Sequences, FiniteSets, Functions

CONSTANTS MaxWorkers,    \* bound: worker processes, known by the id they register under
          None,          \* no job, no message
          BalanceRate,   \* rounds of reports between two balancings
          MaxFaults,     \* bound: workers that die or are timed out
          Branching      \* the program: the paths at whose end it forks

Worker == 1..MaxWorkers
Root == << >>
Job == {Root} \cup {Append(j, i) : j \in Branching, i \in {0, 1}}

Request == [from : Worker, to : Worker, count : Nat]
Answer == [transfer : Request \cup {None}, seed : BOOLEAN, terminate : BOOLEAN]

ASSUME BalancingConstants ==
  /\ MaxWorkers \in Nat /\ MaxFaults \in Nat
  /\ None \notin Nat /\ None \notin Job /\ None \notin Answer
  /\ BalanceRate \in Nat \ {0}
  /\ Branching \subseteq Job /\ IsFiniteSet(Job) /\ Branching \subseteq Seq({0, 1})

VARIABLES
  workers,     \* the registered workers
  totalJobs,   \* jobs each worker reported last
  reports,     \* workers that reported in this round
  rounds,      \* rounds since the last balancing
  done,        \* the exploration is over
  reqTransfer, \* pending transfer of each worker
  lb,          \* the load balancer process: "up", "stopped", or how it died
  conn,        \* the connection object of each worker: "none", "open", "closed"
  msg,         \* report on its way to the load balancer: a job count
  resp,        \* answer on its way to the worker
  comm,        \* reporting thread: "new", "ready", "await", "gone"
  exec,        \* execution thread: "loop", "checked", "wait", "step", "stepped", "ended"
  terminationRequest,
  jobs,        \* jobs in each worker's tree
  currentJob,  \* the job being executed, without the lock
  arrived,     \* the worker imported jobs after it counted them for its last report
  peer,        \* transfers on their way to a worker
  finished,    \* jobs whose path has ended
  seeds,       \* how often the root was given out
  faults       \* faults so far

lbvars == <<workers, totalJobs, reports, rounds, done, reqTransfer, lb, conn>>
netvars == <<msg, resp, peer>>
treevars == <<jobs, currentJob, arrived, finished>>
threadvars == <<comm, exec, terminationRequest>>
vars == <<lbvars, netvars, treevars, threadvars, seeds, faults>>

Init ==
  /\ workers = {} /\ reports = {} /\ rounds = 0 /\ done = FALSE /\ lb = "up"
  /\ totalJobs = [w \in Worker |-> 0]
  /\ reqTransfer = [w \in Worker |-> None]
  /\ conn = [w \in Worker |-> "none"]
  /\ msg = [w \in Worker |-> None]
  /\ resp = [w \in Worker |-> None]
  /\ comm = [w \in Worker |-> "new"]
  /\ exec = [w \in Worker |-> "loop"]
  /\ terminationRequest = [w \in Worker |-> FALSE]
  /\ jobs = [w \in Worker |-> {}]
  /\ currentJob = [w \in Worker |-> None]
  /\ arrived = [w \in Worker |-> FALSE]
  /\ peer = {} /\ finished = {} /\ seeds = 0 /\ faults = 0

-----------------------------------------------------------------------------
(* The load balancer. *)

\* deregisterWorker: erases the worker's own entries; its partner's entry in
\* reqTransfer stays.
Deregister(w) ==
  /\ workers' = workers \ {w}
  /\ reports' = reports \ {w}
  /\ reqTransfer' = [reqTransfer EXCEPT ![w] = None]

\* registerWorker and the answer to a registration: the only registered worker
\* is given the root.
registerWorker(w) ==
  /\ lb = "up" /\ comm[w] = "new" /\ \A v \in 1..w - 1 : comm[v] # "new"
  /\ workers' = workers \cup {w}
  /\ conn' = [conn EXCEPT ![w] = "open"]
  /\ comm' = [comm EXCEPT ![w] = "await"]
  /\ LET seed == workers = {} IN
       /\ resp' = [resp EXCEPT ![w] = [transfer |-> None, seed |-> seed, terminate |-> FALSE]]
       /\ seeds' = IF seed THEN seeds + 1 ELSE seeds
  /\ UNCHANGED <<totalJobs, reports, rounds, done, reqTransfer, lb, msg, peer,
                 treevars, exec, terminationRequest, faults>>

\* The workers without a pending transfer in an order of load that std::sort may leave
\* them in: the loop of analyzeBalance passes over the others.
FreeByLoad(load) ==
  LET free == {w \in workers : reqTransfer[w] = None} IN
  {s \in Injection(1..Cardinality(free), free) :
     \A i, k \in DOMAIN s : i < k => load[s[i]] <= load[s[k]]}

Average(load) == SumFunctionOnSet(load, workers) \div Cardinality(workers)

\* The requests the loop makes: it moves from both ends of the order inwards and stops
\* at the first pair that is balanced.
Matching(s, load) ==
  {[from |-> s[Len(s) + 1 - i], to |-> s[i],
    count |-> (load[s[Len(s) + 1 - i]] - load[s[i]]) \div 2] :
     i \in {k \in 1..Len(s) \div 2 : \A l \in 1..k : load[s[l]] * 10 < Average(load)}}

\* analyzeBalance leaves these requests pending with both their workers.
WithRequests(reqs) ==
  [w \in Worker |-> IF \E r \in reqs : w \in {r.from, r.to}
                      THEN CHOOSE r \in reqs : w \in {r.from, r.to}
                      ELSE reqTransfer[w]]

\* The pending transfers after analyzeBalance, one for each order the sort may give.
BalancedTransfers(load) ==
  IF Cardinality(workers) < 2 \/ \A w \in workers : load[w] = 0
    THEN {reqTransfer}
    ELSE {WithRequests(Matching(s, load)) : s \in FreeByLoad(load)}

\* Mutant: done with the first idle worker.
AllIdleFirst(load) == Cardinality(workers) >= 2 /\ \E w \in workers : load[w] = 0

\* analyze: the round ends with the report of the last registered worker; a
\* balancing is due after BalanceRate rounds.
RoundEnds(w) == reports \cup {w} = workers
BalanceDue(w) == (IF RoundEnds(w) THEN rounds + 1 ELSE rounds) = BalanceRate
AllIdle(load) == Cardinality(workers) >= 2 /\ \A w \in workers : load[w] = 0

\* requestAndResetTransfer: the request goes to its sender only, and is then
\* forgotten for both workers.
Due(w, req) == IF req[w] # None /\ req[w].from = w THEN req[w] ELSE None
\* Mutant: the partner keeps the request.
ForgetSender(w, req) == IF Due(w, req) = None THEN req ELSE [req EXCEPT ![w] = None]

Forget(w, req) ==
  IF Due(w, req) = None THEN req
  ELSE [req EXCEPT ![req[w].from] = None, ![req[w].to] = None]

\* handleMessageReceived for a report of a registered worker: the statistics, analyze,
\* and the answer.  sendJobTransfers takes the address of the destination, which
\* getWorker no longer finds if it has been deregistered.
HandleReport(w) ==
  /\ lb = "up" /\ conn[w] = "open" /\ msg[w] # None /\ w \in workers
  /\ msg' = [msg EXCEPT ![w] = None]
  /\ LET load == [totalJobs EXCEPT ![w] = msg[w]] IN
       /\ totalJobs' = load
       /\ reports' = IF RoundEnds(w) THEN {} ELSE reports \cup {w}
       /\ rounds' = IF BalanceDue(w) THEN 0 ELSE IF RoundEnds(w) THEN rounds + 1 ELSE rounds
       /\ done' = (done \/ (BalanceDue(w) /\ AllIdle(load)))
       /\ \E req \in IF BalanceDue(w) THEN BalancedTransfers(load) ELSE {reqTransfer} :
            /\ reqTransfer' = Forget(w, req)
            /\ IF Due(w, req) # None /\ Due(w, req).to \notin workers
                 THEN lb' = "null" /\ UNCHANGED resp
                 ELSE /\ resp' = [resp EXCEPT ![w] = [transfer |-> Due(w, req), seed |-> FALSE,
                                                      terminate |-> done']]
                      /\ UNCHANGED lb
  /\ UNCHANGED <<workers, conn, peer, treevars, threadvars, seeds, faults>>

\* handleMessageReceived for a worker that was timed out: no answer; the connection
\* goes away without deregistering anyone, and the balancer stops if it was the last.
HandleLateReport(w) ==
  /\ lb = "up" /\ conn[w] = "open" /\ msg[w] # None /\ w \notin workers
  /\ msg' = [msg EXCEPT ![w] = None]
  /\ conn' = [conn EXCEPT ![w] = "closed"]
  /\ lb' = IF workers = {} THEN "stopped" ELSE lb
  /\ UNCHANGED <<workers, totalJobs, reports, rounds, done, reqTransfer, resp, peer,
                 treevars, threadvars, seeds, faults>>

\* The worker's socket is closed: handleMessageReceived returns on the error and the
\* destructor of the connection deregisters the worker, whose absence fails the
\* assertion of deregisterWorker.
ConnectionInterrupted(w) ==
  /\ lb = "up" /\ conn[w] = "open" /\ msg[w] = None /\ comm[w] = "gone"
  /\ conn' = [conn EXCEPT ![w] = "closed"]
  /\ Deregister(w)
  /\ lb' = IF w \notin workers THEN "assert"
           ELSE IF workers' = {} THEN "stopped" ELSE lb
  /\ UNCHANGED <<totalJobs, rounds, done, netvars, treevars, threadvars, seeds, faults>>

\* periodicCheck: no report within WorkerTimeOut.
periodicCheck(w) ==
  /\ faults < MaxFaults /\ faults' = faults + 1
  /\ lb = "up" /\ w \in workers
  /\ Deregister(w)
  /\ UNCHANGED <<totalJobs, rounds, done, lb, conn, netvars, treevars, threadvars, seeds>>

-----------------------------------------------------------------------------
(* The worker: jobs and the execution thread. *)

\* Mutant: the look at the queue is not protected.
LockFreeAtCheck(w) == exec[w] # "loop"

\* The execution thread gives up jobsMutex only while it executes an instruction
\* and while it waits for jobs.
LockFree(w) == exec[w] \in {"step", "stepped", "wait", "ended"}

Notified(w, e) == IF e[w] = "wait" THEN [e EXCEPT ![w] = "loop"] ELSE e

\* processLoop and selectNextJob with a job to run, up to the unlock of stepInNode.
SelectJob(w) ==
  /\ exec[w] = "loop" /\ ~terminationRequest[w]
  /\ \E j \in jobs[w] : currentJob' = [currentJob EXCEPT ![w] = j]
  /\ exec' = [exec EXCEPT ![w] = "step"]
  /\ UNCHANGED <<lbvars, netvars, jobs, arrived, finished, comm, terminationRequest,
                 seeds, faults>>

\* selectNextJob without a job: it has looked at terminationRequest, and keeps
\* jobsMutex until the wait.
CheckJobs(w) ==
  /\ exec[w] = "loop" /\ ~terminationRequest[w] /\ jobs[w] = {}
  /\ exec' = [exec EXCEPT ![w] = "checked"]
  /\ UNCHANGED <<lbvars, netvars, treevars, comm, terminationRequest, seeds, faults>>

WaitForJobs(w) ==
  /\ exec[w] = "checked"
  /\ exec' = [exec EXCEPT ![w] = "wait"]
  /\ UNCHANGED <<lbvars, netvars, treevars, comm, terminationRequest, seeds, faults>>

\* updateTreeOnBranch: the job moves to one child, a new job is submitted for the other.
Branch(w) ==
  LET j == currentJob[w] IN
  /\ exec[w] = "step" /\ j \in Branching
  /\ \E index \in {0, 1} : currentJob' = [currentJob EXCEPT ![w] = Append(j, 1 - index)]
  /\ jobs' = [jobs EXCEPT ![w] = (@ \ {j}) \cup {Append(j, 0), Append(j, 1)}]
  /\ exec' = [exec EXCEPT ![w] = "stepped"]
  /\ UNCHANGED <<lbvars, netvars, arrived, finished, comm, terminationRequest, seeds, faults>>

\* updateTreeOnDestroy: the path has ended.
Destroy(w) ==
  /\ exec[w] = "step" /\ currentJob[w] \notin Branching
  /\ finished' = finished \cup {currentJob[w]}
  /\ jobs' = [jobs EXCEPT ![w] = @ \ {currentJob[w]}]
  /\ currentJob' = [currentJob EXCEPT ![w] = None]
  /\ exec' = [exec EXCEPT ![w] = "stepped"]
  /\ UNCHANGED <<lbvars, netvars, arrived, comm, terminationRequest, seeds, faults>>

\* stepInNode has the lock again; executeJob returns to processLoop.
EndStep(w) ==
  /\ exec[w] = "stepped"
  /\ currentJob' = [currentJob EXCEPT ![w] = None]
  /\ exec' = [exec EXCEPT ![w] = "loop"]
  /\ UNCHANGED <<lbvars, netvars, jobs, arrived, finished, comm, terminationRequest,
                 seeds, faults>>

\* processLoop leaves on terminationRequest.
EndLoop(w) ==
  /\ exec[w] = "loop" /\ terminationRequest[w]
  /\ exec' = [exec EXCEPT ![w] = "ended"]
  /\ UNCHANGED <<lbvars, netvars, treevars, comm, terminationRequest, seeds, faults>>

-----------------------------------------------------------------------------
(* The worker: communication. *)

\* Mutant: no more reports after the answer that asks for termination.
SendUpdatesUntilAsked(w) ==
  /\ comm[w] = "ready" /\ LockFree(w) /\ ~terminationRequest[w]
  /\ msg' = [msg EXCEPT ![w] = Cardinality(jobs[w])]
  /\ arrived' = [arrived EXCEPT ![w] = FALSE]
  /\ comm' = [comm EXCEPT ![w] = "await"]
  /\ UNCHANGED <<lbvars, resp, peer, jobs, currentJob, finished, exec,
                 terminationRequest, seeds, faults>>

\* sendUpdates: jobCount is read under jobsMutex before the message leaves; the thread
\* then blocks.
sendUpdates(w) ==
  /\ comm[w] = "ready" /\ LockFree(w)
  /\ msg' = [msg EXCEPT ![w] = Cardinality(jobs[w])]
  /\ arrived' = [arrived EXCEPT ![w] = FALSE]
  /\ comm' = [comm EXCEPT ![w] = "await"]
  /\ UNCHANGED <<lbvars, resp, peer, jobs, currentJob, finished, exec,
                 terminationRequest, seeds, faults>>

\* getLeaves over the jobs that isExportableJob admits: at most count of them, and
\* all of them when count is 0.
Exports(w, count) ==
  LET exportable == jobs[w] \ {currentJob[w]}
      n == IF count = 0 \/ count > Cardinality(exportable) THEN Cardinality(exportable) ELSE count
  IN  {S \in SUBSET exportable : Cardinality(S) = n}

\* Mutant: no connection while the worker talks to the balancer.
ListeningWhenReady(w) == comm[w] = "ready"

\* A connection to a worker whose server is gone fails.
Listening(w) == comm[w] # "gone"

\* Mutant: exported jobs stay.
TransferKeeps(w, r) ==
  \E S \in Exports(w, r.count) :
    /\ peer' = IF Listening(r.to) THEN peer \cup {[to |-> r.to, jobs |-> S]} ELSE peer
    /\ UNCHANGED <<jobs, arrived>>

\* transferJobs: the jobs are exported before the connection is tried.
transferJobs(w, r) ==
  \E S \in Exports(w, r.count) :
    /\ jobs' = [jobs EXCEPT ![w] = @ \ S]
    /\ peer' = IF Listening(r.to) THEN peer \cup {[to |-> r.to, jobs |-> S]} ELSE peer
    /\ UNCHANGED arrived

\* importJobs: submits the jobs and wakes the execution thread.
importJobs(w, S) ==
  /\ jobs' = [jobs EXCEPT ![w] = @ \cup S]
  /\ arrived' = [arrived EXCEPT ![w] = TRUE]

\* processResponse: the transfer or the seed, then the termination.  requestTermination
\* does not take jobsMutex: its notification is missed by a thread that has already
\* looked at the flag.
processResponse(w) ==
  LET r == resp[w] IN
  /\ comm[w] = "await" /\ r # None
  /\ (r.transfer # None \/ r.seed) => LockFree(w)
  /\ resp' = [resp EXCEPT ![w] = None]
  /\ comm' = [comm EXCEPT ![w] = "ready"]
  /\ \/ r.transfer # None /\ transferJobs(w, r.transfer)
     \/ r.seed /\ importJobs(w, {Root}) /\ UNCHANGED peer
     \/ r.transfer = None /\ ~r.seed /\ UNCHANGED <<jobs, arrived, peer>>
  /\ terminationRequest' = [terminationRequest EXCEPT ![w] = @ \/ r.terminate]
  /\ exec' = IF r.terminate \/ r.seed THEN Notified(w, exec) ELSE exec
  /\ UNCHANGED <<lbvars, msg, currentJob, finished, seeds, faults>>

\* PeerConnection::handleMessageReceived.
ReceiveJobs(w) ==
  /\ comm[w] # "gone" /\ LockFree(w)
  /\ \E m \in peer : m.to = w /\ peer' = peer \ {m} /\ importJobs(w, m.jobs)
  /\ exec' = Notified(w, exec)
  /\ UNCHANGED <<lbvars, msg, resp, currentJob, finished, comm, terminationRequest,
                 seeds, faults>>

\* The process ends: its jobs, and the transfers on their way to it, are gone.
ProcessEnds(w) ==
  /\ comm' = [comm EXCEPT ![w] = "gone"]
  /\ exec' = [exec EXCEPT ![w] = "ended"]
  /\ resp' = [resp EXCEPT ![w] = None]
  /\ peer' = {m \in peer : m.to # w}
  /\ jobs' = [jobs EXCEPT ![w] = {}]
  /\ currentJob' = [currentJob EXCEPT ![w] = None]
  /\ UNCHANGED <<lbvars, msg, arrived, finished, terminationRequest, seeds>>

\* Mutant: the process ends while processLoop runs.
FinalizeEarly(w) == comm[w] = "ready" /\ ProcessEnds(w) /\ UNCHANGED faults

\* CommManager::finalize after processLoop has returned.
finalize(w) == exec[w] = "ended" /\ comm[w] = "ready" /\ ProcessEnds(w) /\ UNCHANGED faults

\* The balancer closed the connection, or is gone: the error of sendMessage and
\* recvMessage is an exception that nobody catches.
LoseBalancer(w) ==
  /\ comm[w] \in {"ready", "await"} /\ resp[w] = None
  /\ conn[w] = "closed" \/ lb # "up"
  /\ ProcessEnds(w) /\ UNCHANGED faults

Crash(w) ==
  /\ faults < MaxFaults /\ faults' = faults + 1
  /\ comm[w] \in {"ready", "await"} /\ ProcessEnds(w)

WorkerStep(w) ==
  \/ SelectJob(w) \/ CheckJobs(w) \/ WaitForJobs(w) \/ Branch(w) \/ Destroy(w) \/ EndStep(w)
  \/ EndLoop(w) \/ sendUpdates(w) \/ processResponse(w) \/ ReceiveJobs(w) \/ finalize(w)
  \/ LoseBalancer(w) \/ Crash(w)

BalancerStep(w) ==
  \/ registerWorker(w) \/ HandleReport(w) \/ HandleLateReport(w)
  \/ ConnectionInterrupted(w) \/ periodicCheck(w)

Next == \E w \in Worker : WorkerStep(w) \/ BalancerStep(w)

\* Every thread and the event loop keep running; a job that is executed ends or forks;
\* a thread that keeps asking for jobsMutex gets it, and terminated is read again
\* after every update.
Fairness ==
  \A w \in Worker :
    /\ WF_vars(SelectJob(w) \/ CheckJobs(w) \/ WaitForJobs(w) \/ Branch(w) \/ Destroy(w)
               \/ EndStep(w) \/ EndLoop(w))
    /\ SF_vars(sendUpdates(w)) /\ SF_vars(processResponse(w)) /\ SF_vars(ReceiveJobs(w))
    /\ SF_vars(finalize(w)) /\ WF_vars(LoseBalancer(w))
    /\ WF_vars(registerWorker(w)) /\ WF_vars(HandleReport(w)) /\ WF_vars(HandleLateReport(w))
    /\ WF_vars(ConnectionInterrupted(w))

Safety == Init /\ [][Next]_vars
Spec == Safety /\ Fairness

-----------------------------------------------------------------------------
(* Properties. *)

Messages == [to : Worker, jobs : SUBSET Job]

\* Every variable stays in its range: in particular a report counts at most the jobs
\* of the tree, and rounds never passes BalanceRate, at which analyze resets it.
TypeOK ==
  /\ workers \subseteq Worker /\ reports \subseteq workers
  /\ totalJobs \in [Worker -> Nat] /\ rounds \in 0..BalanceRate - 1
  /\ done \in BOOLEAN /\ lb \in {"up", "stopped", "assert", "null"}
  /\ reqTransfer \in [Worker -> Request \cup {None}]
  /\ conn \in [Worker -> {"none", "open", "closed"}]
  /\ msg \in [Worker -> Nat \cup {None}] /\ resp \in [Worker -> Answer \cup {None}]
  /\ comm \in [Worker -> {"new", "ready", "await", "gone"}]
  /\ exec \in [Worker -> {"loop", "checked", "wait", "step", "stepped", "ended"}]
  /\ terminationRequest \in [Worker -> BOOLEAN]
  /\ jobs \in [Worker -> SUBSET Job] /\ currentJob \in [Worker -> Job \cup {None}]
  /\ arrived \in [Worker -> BOOLEAN]
  /\ peer \subseteq Messages /\ finished \subseteq Job
  /\ seeds \in Nat /\ faults \in 0..MaxFaults

\* Where the exploration of a job lies: in a worker's tree, in a transfer, in the seed
\* of an answer, or behind it.
Copies ==
  (UNION {{<<"held", w, j>> : j \in jobs[w]} : w \in Worker})
  \cup (UNION {{<<"sent", m, j>> : j \in m.jobs} : m \in peer})
  \cup {<<"seed", w, Root>> : w \in {v \in Worker : resp[v] # None /\ resp[v].seed}}
  \cup {<<"finished", None, j>> : j \in finished}

\* Is s the path t or above it in the tree?
IsPrefix(s, t) == Len(s) <= Len(t) /\ \A i \in 1..Len(s) : s[i] = t[i]

Overlap(j, k) == IsPrefix(j, k) \/ IsPrefix(k, j)

\* importJobs asserts "Job duplication detected" on one worker; across workers and
\* transfers no part of the tree is explored twice either, whatever dies, as long as
\* the root was given out once.
NoJobTwice ==
  seeds <= 1 => \A c, d \in Copies : c # d => ~Overlap(c[3], d[3])

\* Until the balancer declares the exploration done, and without a fault, every path of
\* the program is finished, held or on its way: exportJobs and importJobs drop nothing.
JobsKept ==
  (faults = 0 /\ ~done /\ seeds > 0) =>
    \A leaf \in Job \ Branching : \E c \in Copies : IsPrefix(c[3], leaf)

\* A report on its way that admits work.
ReportsWork(w) == msg[w] # None /\ msg[w] # 0

\* analyzeBalance declares the exploration done from counts that may be old.  What it can
\* overlook on a registered worker is only work that came in after that worker counted
\* its jobs for the report used, and then a newer report may be on its way; a worker that
\* kept its jobs since that report is never overlooked.
DoneOverlooksOnlyArrivals ==
  [][done' /\ ~done => \A w \in workers : jobs[w] # {} => arrived[w] \/ ReportsWork(w)]_vars

\* A pending transfer names two workers; while both are registered it is pending for
\* both, so neither takes part in a second one (analyzeBalance passes over both, and
\* requestAndResetTransfer forgets both).
TransfersPaired ==
  \A w \in workers : reqTransfer[w] # None =>
    LET r == reqTransfer[w] IN
    /\ w \in {r.from, r.to} /\ r.from # r.to
    /\ {r.from, r.to} \subseteq workers => reqTransfer[r.from] = r /\ reqTransfer[r.to] = r

\* Without a fault nobody is deregistered twice (the assertion of deregisterWorker), and
\* until the exploration is declared done sendJobTransfers never looks up a worker that
\* is gone.  Afterwards it may: jobs that arrive late make analyzeBalance ask for a
\* transfer among three workers of which one has been told to stop and leaves.
BalancerSurvives == faults = 0 => lb # "assert" /\ (~done => lb = "up")

\* The execution thread sleeps only while there is nothing to run: importJobs never
\* slips between the look at the queue and the wait.
SleepsOnlyIdle == \A w \in Worker : exec[w] \in {"checked", "wait"} => jobs[w] = {}

\* The job that is executed without jobsMutex stays in the worker's tree: exportJobs
\* leaves it alone ("assert(currentJob != job)").
CurrentJobStays == \A w \in Worker : exec[w] = "step" => currentJob[w] \in jobs[w]

\* Without a fault every worker that has registered stops in the end, although the
\* notification of requestTermination may be missed: the next answer repeats it.
Terminates ==
  [](faults = 0) => <>[](\A w \in Worker : comm[w] \in {"new", "gone"})

=============================================================================
