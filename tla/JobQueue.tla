------------------------------ MODULE JobQueue ------------------------------
(***************************************************************************)
(* The Postgres job queue and the workers that drain it                    *)
(* (services/agent-spine/.../pg/worker.py), with the planning and replay   *)
(* runs whose status is committed in the same transactions as their job's. *)
(*                                                                         *)
(* One action is one database transaction, or one step of a worker outside *)
(* any transaction.  run_once is three transactions, claim, handler and    *)
(* terminal update, and a worker may die between any two of them: what it  *)
(* then forgets is its entry in `worker`, what it leaves behind is the row *)
(* in `jobs`.  The handler itself is a choice of outcome here; TenantSeed  *)
(* opens up the one of the ingest and recompute jobs.                      *)
(***************************************************************************)
EXTENDS Naturals

CONSTANTS Worker,           \* worker processes (Railway replicas)
          JobId,            \* identity values of the jobs table
          PlanningRequest,  \* (fingerprint, source generation) of planning runs
          ReplayRequest,    \* fingerprints of replay runs
          MaxAttempts,      \* MAX_ATTEMPTS
          None              \* SQL null, Python None

ASSUME JobIdAssumption == JobId \subseteq Nat
ASSUME MaxAttemptsAssumption == MaxAttempts \in Nat \ {0}
ASSUME RequestAssumption == PlanningRequest \cap ReplayRequest = {}

VARIABLES jobs,    \* the jobs table
          runs,    \* planning_runs and replay_runs, by request
          worker   \* what each worker process holds in memory

vars == <<jobs, runs, worker>>

-----------------------------------------------------------------------------

PlainKind == {"ingest", "recompute", "bvr"}
Durable   == {"planning", "replay"}               \* the kinds with a lifecycle
Kind      == PlainKind \cup Durable
Handled   == Kind \ {"bvr"}                       \* the kinds with a handler
Request   == PlanningRequest \cup ReplayRequest

JobStatus == {"absent", "queued", "running", "done", "failed", "dead"}
RunStatus == {"absent", "queued", "running", "completed", "infeasible", "failed"}
JobTerminal == {"done", "failed", "dead"}
RunTerminal == {"completed", "infeasible", "failed"}
Phase == {"idle", "claimed", "finishing", "failing"}

ASSUME NoneAssumption ==
    None \notin JobId /\ None \notin Request /\ None \notin Kind /\ None \notin RunTerminal

\* What a handler can hand to the terminal transaction.
Outcome(kind) ==
    CASE kind = "planning" -> {"completed", "infeasible", "failed"}
      [] kind = "replay"   -> {"completed"}
      [] OTHER             -> {"completed", "failed"}

NoJob == [status |-> "absent", kind |-> None, run |-> None,
          attempts |-> 0, lease |-> "live"]
NoRun == [status |-> "absent", attempts |-> 0, result |-> 0]
Idle  == [phase |-> "idle", job |-> None, attempt |-> 0, outcome |-> None]

\* `lease` is expired once claimed_at < now() - STALE_SECONDS; `result` is the number
\* of the attempt that computed the stored selections or scorecard, 0 if none.
JobRow == [status : JobStatus, kind : Kind \cup {None}, run : Request \cup {None},
           attempts : 0..MaxAttempts, lease : {"live", "expired"}]
RunRow == [status : RunStatus, attempts : 0..MaxAttempts, result : 0..MaxAttempts]
Memory == [phase : Phase, job : JobId \cup {None}, attempt : 0..MaxAttempts,
           outcome : RunTerminal \cup {None}]

TypeOK ==
    /\ jobs \in [JobId -> JobRow]
    /\ runs \in [Request -> RunRow]
    /\ worker \in [Worker -> Memory]

Init ==
    /\ jobs = [j \in JobId |-> NoJob]
    /\ runs = [r \in Request |-> NoRun]
    /\ worker = [w \in Worker |-> Idle]

-----------------------------------------------------------------------------
(* Enqueueing.  Identity values are allocated before the inserting          *)
(* transaction commits, so rows may appear out of id order and with gaps.   *)

Insert(j, kind, r) ==
    /\ jobs[j].status = "absent"
    /\ jobs' = [jobs EXCEPT ![j] = [status |-> "queued", kind |-> kind, run |-> r,
                                    attempts |-> 0, lease |-> "live"]]

\* The upload endpoint, the nightly cron, or another writer of plain jobs.
Enqueue(j, kind) ==
    /\ Insert(j, kind, None)
    /\ UNCHANGED <<runs, worker>>

\* PgPlanningRunStore.submit and PgReplayRunStore.submit: the run and its job
\* appear together; a request that already has a run gets that run back and
\* nothing changes.
Submit(j, r) ==
    /\ runs[r].status = "absent"
    /\ Insert(j, IF r \in PlanningRequest THEN "planning" ELSE "replay", r)
    /\ runs' = [runs EXCEPT ![r].status = "queued"]
    /\ UNCHANGED worker

-----------------------------------------------------------------------------
(* Claiming                                                                  *)

\* Thirty minutes pass since the claim.
LeaseExpires(j) ==
    /\ jobs[j].status = "running"
    /\ jobs[j].lease = "live"
    /\ jobs' = [jobs EXCEPT ![j].lease = "expired"]
    /\ UNCHANGED <<runs, worker>>

Claimable(j) ==
    \/ jobs[j].status = "queued"
    \/ /\ jobs[j].status = "running"
       /\ jobs[j].attempts < MaxAttempts
       /\ jobs[j].lease = "expired"

\* Fault: the kind list of _EXHAUSTED_DURABLE predates replay.
ExhaustedPlanning(j) ==
    /\ jobs[j].kind = "planning"
    /\ jobs[j].status = "running"
    /\ jobs[j].attempts >= MaxAttempts
    /\ jobs[j].lease = "expired"

Exhausted(j) ==
    /\ jobs[j].kind \in Durable
    /\ jobs[j].status = "running"
    /\ jobs[j].attempts >= MaxAttempts
    /\ jobs[j].lease = "expired"

\* Another worker, about to claim or to settle the job, may hold its row lock, and
\* SKIP LOCKED then passes over the row.
RowLocked(w, j) ==
    \E v \in Worker \ {w} :
        \/ worker[v].phase = "idle"
        \/ /\ worker[v].job = j
           /\ \/ worker[v].phase \in {"finishing", "failing"}
              \/ jobs[j].kind \notin Handled

RunClaimable(j) ==
    /\ runs[jobs[j].run].status \in {"queued", "running"}
    /\ runs[jobs[j].run].attempts = jobs[j].attempts

\* The first transaction of run_once.  When the run refuses the claim the
\* lifecycle hook raises, the transaction rolls back and the process dies:
\* nothing changes, and the job stays at the head of the queue.
Claim(w, j) ==
    /\ worker[w].phase = "idle"
    /\ \A k \in JobId : Exhausted(k) => RowLocked(w, k)
    /\ Claimable(j)
    /\ \A k \in JobId : k < j /\ Claimable(k) => RowLocked(w, k)
    /\ jobs' = [jobs EXCEPT ![j].status = "running", ![j].lease = "live",
                            ![j].attempts = @ + 1]
    /\ worker' = [worker EXCEPT ![w] = [phase |-> "claimed", job |-> j,
                      attempt |-> jobs[j].attempts + 1, outcome |-> None]]
    /\ IF jobs[j].kind \in Durable
       THEN /\ RunClaimable(j)
            /\ runs' = [runs EXCEPT ![jobs[j].run].status = "running",
                                    ![jobs[j].run].attempts = @ + 1]
       ELSE UNCHANGED runs

\* The run tables carry an attempt number of their own, and their terminal
\* updates are fenced with it.
RunRunning(j, attempt) ==
    /\ runs[jobs[j].run].status = "running"
    /\ runs[jobs[j].run].attempts = attempt

\* The same transaction when it finds a durable job whose last lease expired.
ReapExhausted(w, j) ==
    /\ worker[w].phase = "idle"
    /\ Exhausted(j)
    /\ \A k \in JobId : k < j /\ Exhausted(k) => RowLocked(w, k)
    /\ RunRunning(j, jobs[j].attempts)
    /\ jobs' = [jobs EXCEPT ![j].status = "failed"]
    /\ runs' = [runs EXCEPT ![jobs[j].run].status = "failed"]
    /\ UNCHANGED worker

\* The same transaction when it finds nothing: the worker sleeps and polls.
PollEmpty(w) ==
    /\ worker[w].phase = "idle"
    /\ \A k \in JobId : Claimable(k) \/ Exhausted(k) => RowLocked(w, k)
    /\ UNCHANGED vars

-----------------------------------------------------------------------------
(* The handler                                                               *)

\* load_planning_run_work and load_replay_run_work raise unless the run is
\* running, and its stored inputs are immutable.
RunLoadable(j) == runs[jobs[j].run].status = "running"

\* What follows in the handlers of durable jobs is a pure computation.
HandlerReturns(w, out) ==
    /\ worker[w].phase = "claimed"
    /\ LET job == jobs[worker[w].job] IN
         /\ job.kind \in Handled
         /\ out \in Outcome(job.kind)
         /\ job.kind \in Durable => RunLoadable(worker[w].job)
    /\ worker' = [worker EXCEPT ![w].phase = "finishing", ![w].outcome = out]
    /\ UNCHANGED <<jobs, runs>>

HandlerRaises(w) ==
    /\ worker[w].phase = "claimed"
    /\ jobs[worker[w].job].kind \in Handled
    /\ worker' = [worker EXCEPT ![w].phase = "failing"]
    /\ UNCHANGED <<jobs, runs>>

-----------------------------------------------------------------------------
(* The terminal transactions                                                 *)

\* The fence of every terminal mutation: the row is running and still in the
\* attempt this worker claimed.
ClaimIsCurrent(w) ==
    /\ jobs[worker[w].job].status = "running"
    /\ jobs[worker[w].job].attempts = worker[w].attempt

Release(w) == worker' = [worker EXCEPT ![w] = Idle]

\* A claim some other attempt has taken over: the worker drops it silently.
Superseded(w) ==
    /\ worker[w].phase # "idle"
    /\ worker[w].phase = "claimed" => jobs[worker[w].job].kind \notin Handled
    /\ ~ClaimIsCurrent(w)
    /\ Release(w)
    /\ UNCHANGED <<jobs, runs>>

\* No handler is registered for the kind.
DeadLetter(w) ==
    /\ worker[w].phase = "claimed"
    /\ jobs[worker[w].job].kind \notin Handled
    /\ ClaimIsCurrent(w)
    /\ jobs' = [jobs EXCEPT ![worker[w].job].status = "dead"]
    /\ Release(w)
    /\ UNCHANGED runs

\* Fault: the terminal transaction is not fenced to the claimed attempt.
FinishUnfenced(w) ==
    LET j == worker[w].job
        out == worker[w].outcome
    IN  /\ worker[w].phase = "finishing"
        /\ jobs' = [jobs EXCEPT ![j].status =
                        IF out = "failed" THEN "failed" ELSE "done"]
        /\ runs' = [r \in Request |->
                       IF r = jobs[j].run
                       THEN [runs[r] EXCEPT !.status = out, !.result =
                                IF out = "completed" THEN worker[w].attempt ELSE @]
                       ELSE runs[r]]
        /\ Release(w)

\* persist_planning_result and persist_replay_scorecard store the output and
\* the run's terminal status, with the job's, in one transaction.
Finish(w) ==
    LET j == worker[w].job
        out == worker[w].outcome
        result == IF out = "completed" THEN worker[w].attempt
                                       ELSE runs[jobs[j].run].result
    IN  /\ worker[w].phase = "finishing"
        /\ ClaimIsCurrent(w)
        /\ jobs' = [jobs EXCEPT ![j].status =
                        IF out = "failed" THEN "failed" ELSE "done"]
        /\ IF jobs[j].kind \in Durable
           THEN /\ RunRunning(j, worker[w].attempt)
                /\ runs' = [runs EXCEPT ![jobs[j].run].status = out,
                                        ![jobs[j].run].result = result]
           ELSE UNCHANGED runs
        /\ Release(w)

\* The output does not reconcile or the database refuses: the transaction
\* rolls back, and a new one records a failed attempt.
FinishRaises(w) ==
    /\ worker[w].phase = "finishing"
    /\ worker' = [worker EXCEPT ![w].phase = "failing", ![w].outcome = None]
    /\ UNCHANGED <<jobs, runs>>

\* Fault: the lifecycle hook is not called, so the run keeps its status.
RecordFailureJobOnly(w) ==
    /\ worker[w].phase = "failing"
    /\ ClaimIsCurrent(w)
    /\ jobs' = [jobs EXCEPT ![worker[w].job].status =
                   IF worker[w].attempt >= MaxAttempts THEN "failed" ELSE "queued"]
    /\ UNCHANGED runs
    /\ Release(w)

\* _record_attempt_failure: back to the queue, or failed after the last attempt.
RecordFailure(w) ==
    LET j == worker[w].job
        status == IF worker[w].attempt >= MaxAttempts THEN "failed" ELSE "queued"
    IN  /\ worker[w].phase = "failing"
        /\ ClaimIsCurrent(w)
        /\ jobs' = [jobs EXCEPT ![j].status = status]
        /\ IF jobs[j].kind \in Durable
           THEN /\ RunRunning(j, worker[w].attempt)
                /\ runs' = [runs EXCEPT ![jobs[j].run].status = status]
           ELSE UNCHANGED runs
        /\ Release(w)

\* The process dies (or its failure transaction does) and is restarted.
Crash(w) ==
    /\ worker[w].phase # "idle"
    /\ Release(w)
    /\ UNCHANGED <<jobs, runs>>

-----------------------------------------------------------------------------

Settle(w) == Superseded(w) \/ DeadLetter(w) \/ Finish(w) \/ FinishRaises(w)
             \/ RecordFailure(w)
Handle(w) == HandlerRaises(w) \/ \E out \in RunTerminal : HandlerReturns(w, out)
Poll(w)   == \E j \in JobId : Claim(w, j) \/ ReapExhausted(w, j)

Next ==
    \/ \E j \in JobId, kind \in PlainKind : Enqueue(j, kind)
    \/ \E j \in JobId, r \in Request : Submit(j, r)
    \/ \E j \in JobId : LeaseExpires(j)
    \/ \E w \in Worker : \/ Poll(w) \/ PollEmpty(w)
                         \/ Handle(w) \/ Settle(w) \/ Crash(w)

Spec == Init /\ [][Next]_vars

\* run_forever polls without end, a handler returns or raises, and time passes.
Fairness ==
    /\ \A w \in Worker : WF_vars(Poll(w)) /\ WF_vars(Handle(w)) /\ WF_vars(Settle(w))
    /\ \A j \in JobId : WF_vars(LeaseExpires(j))

FairSpec == Spec /\ Fairness

-----------------------------------------------------------------------------
(* Properties                                                                *)

JobOutcomeStatus(j) ==
    CASE jobs[j].status \in {"queued", "running"} -> {jobs[j].status}
      [] jobs[j].status = "done"   -> {"completed", "infeasible"}
      [] jobs[j].status = "failed" -> {"failed"}
      [] OTHER                     -> {}

\* A planning or replay job and the run it points at tell the same story in
\* every committed state, attempt for attempt: "so job/run cannot disagree"
\* (worker.py, run_once).  Were it to fail, on_claim would raise for a job at
\* the head of the queue and take down every worker that polls it.
JobRunAgree ==
    \A j \in JobId : jobs[j].kind \in Durable =>
        /\ runs[jobs[j].run].status \in JobOutcomeStatus(j)
        /\ runs[jobs[j].run].attempts = jobs[j].attempts

\* The attempt number is a fencing token: two workers that hold the same job
\* (a slow one and the one that reclaimed it) never hold the same attempt, and
\* none holds an attempt the row has not reached, so _claim_is_current lets at
\* most one of them settle the job.
FencingTokens ==
    /\ \A w \in Worker : worker[w].phase # "idle" =>
            worker[w].attempt \in 1..jobs[worker[w].job].attempts
    /\ \A v, w \in Worker :
            v # w /\ worker[v].phase # "idle" /\ worker[v].job = worker[w].job
                => worker[v].attempt # worker[w].attempt

\* No request is worked on under two jobs (submit inserts the job only with
\* the run it creates).
OneJobPerRun ==
    \A j, k \in JobId :
        jobs[j].kind \in Durable /\ jobs[j].run = jobs[k].run => j = k

\* Selections and scorecards exist exactly for completed runs, and they are the
\* output of the attempt the row counts last: what a superseded attempt
\* computed is never stored.
ResultFromLastAttempt ==
    \A r \in Request :
        runs[r].result =
            IF runs[r].status = "completed" THEN runs[r].attempts ELSE 0

\* What the rows of the two tables and the workers' memories rely on: a row is
\* blank until it is inserted, a job in the queue has an attempt left, exactly
\* the durable jobs point at a run, and a worker that is not idle holds a row
\* that exists and an outcome its kind of job can have.
WellFormed ==
    /\ \A j \in JobId :
          /\ jobs[j].status = "absent" => jobs[j] = NoJob
          /\ jobs[j].status # "absent" => jobs[j].kind \in Kind
          /\ jobs[j].status = "queued" => jobs[j].attempts < MaxAttempts
          /\ jobs[j].kind = "planning" => jobs[j].run \in PlanningRequest
          /\ jobs[j].kind = "replay" => jobs[j].run \in ReplayRequest
          /\ jobs[j].kind \notin Durable => jobs[j].run = None
    /\ \A r \in Request : runs[r].status = "absent" =>
          /\ runs[r] = NoRun
          /\ \A j \in JobId : jobs[j].run # r
    /\ \A w \in Worker :
          /\ worker[w].phase = "idle" => worker[w] = Idle
          /\ worker[w].phase # "idle" => /\ worker[w].job \in JobId
                                        /\ jobs[worker[w].job].status # "absent"
          /\ worker[w].phase = "finishing" =>
                worker[w].outcome \in Outcome(jobs[worker[w].job].kind)

\* The inductive invariant.
Inv ==
    /\ TypeOK
    /\ WellFormed
    /\ JobRunAgree
    /\ FencingTokens
    /\ OneJobPerRun
    /\ ResultFromLastAttempt

NoReopening ==
    /\ \A j \in JobId : jobs[j].status \in JobTerminal => jobs'[j] = jobs[j]
    /\ \A r \in Request : runs[r].status \in RunTerminal => runs'[r] = runs[r]

\* No step of any worker, however late it is, reopens or relabels a settled job
\* or run (the fences of worker.py, the immutability triggers of the run
\* tables).
SettledIsFinal == [][NoReopening]_vars

\* What the submitter of a run sees of it.
Seen(status) ==
    CASE status = "absent" -> "unsubmitted"
      [] status \in {"queued", "running"} -> "pending"
      [] status \in RunTerminal -> status
Told == [r \in Request |-> Seen(runs[r].status)]
Stored == [r \in Request |-> IF runs[r].result = 0 THEN "none" ELSE "stored"]

Outcomes == INSTANCE RunOutcome WITH outcome <- Told, evidence <- Stored

\* The queue implements the promise made to the submitter: whatever the workers
\* do, one pending run, settled once, with evidence exactly when it completed.
ImplementsRunOutcome == Outcomes!OutcomeSpec

\* And every run that was accepted does settle.
ImplementsFairRunOutcome == Outcomes!OutcomeFairSpec
=============================================================================
