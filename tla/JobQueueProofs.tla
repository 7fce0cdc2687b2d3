--------------------------- MODULE JobQueueProofs ---------------------------
(***************************************************************************)
(* Proofs about JobQueue, for every set of workers, jobs and requests; and *)
(* about TenantSeed, whose steps are steps of the job queue: the tenant's  *)
(* tables hold one copy of one dataset, no recompute replaces the data of  *)
(* a newer upload that is alive, and no two recomputes are under way.      *)
(***************************************************************************)
EXTENDS TenantSeed, FiniteSetTheorems, TLAPS

\* The vocabulary every step needs.
USE DEF PlainKind, Durable, Kind, Request, JobStatus, RunStatus, Phase,
        RunTerminal, JobTerminal, JobRow, RunRow, Memory

\* The empty tables and idle workers satisfy the inductive invariant.
LEMMA InitInv == Init => Inv
BY NoneAssumption, MaxAttemptsAssumption
   DEF Init, Inv, TypeOK, WellFormed, JobRunAgree, FencingTokens, OneJobPerRun,
       ResultFromLastAttempt, NoJob, NoRun, Idle

-----------------------------------------------------------------------------
(* Helpers for the steps that settle a job                                   *)

\* Giving one job another status keeps the jobs table well typed.
LEMMA SetJobStatus ==
  ASSUME TypeOK, NEW j \in JobId, NEW s \in JobStatus
  PROVE  [jobs EXCEPT ![j].status = s] \in [JobId -> JobRow]
<1>1. [jobs[j] EXCEPT !.status = s] \in JobRow
  BY DEF TypeOK
<1>2. QED BY <1>1 DEF TypeOK

\* So does giving one run another status.
LEMMA SetRunStatus ==
  ASSUME TypeOK, NEW r \in Request, NEW s \in RunStatus
  PROVE  [runs EXCEPT ![r].status = s] \in [Request -> RunRow]
<1>1. [runs[r] EXCEPT !.status = s] \in RunRow
  BY DEF TypeOK
<1>2. QED BY <1>1 DEF TypeOK

\* Storing the result of an attempt keeps the run tables well typed.
LEMMA StoreRunResult ==
  ASSUME TypeOK, NEW r \in Request, NEW s \in RunStatus, NEW n \in 0..MaxAttempts
  PROVE  [runs EXCEPT ![r].status = s, ![r].result = n] \in [Request -> RunRow]
BY DEF TypeOK

\* A worker that goes idle keeps the workers' memories well typed.
LEMMA ReleaseType ==
  ASSUME TypeOK, NEW w \in Worker, Release(w)
  PROVE  worker' \in [Worker -> Memory]
<1>1. Idle \in Memory
  BY MaxAttemptsAssumption DEF Idle
<1>2. QED BY <1>1 DEF TypeOK, Release

\* A transaction that changes one job and the run it points at, and leaves those
\* two in agreement, leaves every job and run in agreement.
LEMMA AgreementKept ==
  ASSUME Inv, NEW j \in JobId,
         \A k \in JobId : /\ jobs'[k].kind = jobs[k].kind
                          /\ jobs'[k].run = jobs[k].run
                          /\ k # j => jobs'[k] = jobs[k],
         \A r \in Request : r # jobs[j].run => runs'[r] = runs[r],
         jobs[j].kind \in Durable =>
            /\ runs'[jobs[j].run].status \in JobOutcomeStatus(j)'
            /\ runs'[jobs[j].run].attempts = jobs'[j].attempts
  PROVE  JobRunAgree'
<1> SUFFICES ASSUME NEW k \in JobId, jobs'[k].kind \in Durable
             PROVE  /\ runs'[jobs'[k].run].status \in JobOutcomeStatus(k)'
                    /\ runs'[jobs'[k].run].attempts = jobs'[k].attempts
  BY DEF JobRunAgree
<1>1. CASE k = j
  BY <1>1
<1>2. CASE k # j
  <2>1. jobs[k].run \in Request /\ jobs[k].run # jobs[j].run
    BY <1>2 DEF Inv, WellFormed, OneJobPerRun
  <2>2. jobs'[k] = jobs[k] /\ runs'[jobs[k].run] = runs[jobs[k].run]
    BY <1>2, <2>1
  <2>3. QED BY <2>2 DEF Inv, JobRunAgree, JobOutcomeStatus
<1>3. QED BY <1>1, <1>2

\* What giving one job another status changes and what it leaves alone.
LEMMA JobAfter ==
  ASSUME TypeOK, NEW j \in JobId, NEW s, jobs' = [jobs EXCEPT ![j].status = s]
  PROVE  /\ jobs'[j].status = s
         /\ \A k \in JobId : /\ jobs'[k].kind = jobs[k].kind
                             /\ jobs'[k].run = jobs[k].run
                             /\ jobs'[k].attempts = jobs[k].attempts
                             /\ k # j => jobs'[k] = jobs[k]
BY DEF TypeOK

\* What releasing a claim changes and what it leaves alone.
LEMMA WorkerAfter ==
  ASSUME TypeOK, NEW w \in Worker, Release(w)
  PROVE  worker'[w] = Idle /\ \A v \in Worker \ {w} : worker'[v] = worker[v]
BY DEF TypeOK, Release

\* A worker that settles its job, and perhaps the run of the job, disturbs none of
\* the conditions on the other rows and the other workers.
LEMMA SettlingKeeps ==
  ASSUME Inv, NEW w \in Worker, NEW j \in JobId, NEW s \in JobStatus,
         s # "absent", jobs[j].status = "running",
         s = "queued" => jobs[j].attempts < MaxAttempts,
         jobs' = [jobs EXCEPT ![j].status = s],
         Release(w),
         \A r \in Request : \/ runs'[r] = runs[r]
                            \/ runs[r].status # "absent" /\ runs'[r].status # "absent"
  PROVE  WellFormed' /\ FencingTokens' /\ OneJobPerRun'
<1>1. /\ jobs'[j].status = s
      /\ \A k \in JobId : /\ jobs'[k].kind = jobs[k].kind
                          /\ jobs'[k].run = jobs[k].run
                          /\ jobs'[k].attempts = jobs[k].attempts
                          /\ k # j => jobs'[k] = jobs[k]
  BY JobAfter DEF Inv
<1>2. worker'[w] = Idle /\ \A v \in Worker \ {w} : worker'[v] = worker[v]
  BY WorkerAfter DEF Inv
<1>i. Idle.phase = "idle" /\ Idle.job = None
  BY DEF Idle
<1>3. WellFormed'
  <2>1. ASSUME NEW k \in JobId
        PROVE  /\ jobs'[k].status = "absent" => jobs'[k] = NoJob
               /\ jobs'[k].status # "absent" => jobs'[k].kind \in Kind
               /\ jobs'[k].status = "queued" => jobs'[k].attempts < MaxAttempts
               /\ jobs'[k].kind = "planning" => jobs'[k].run \in PlanningRequest
               /\ jobs'[k].kind = "replay" => jobs'[k].run \in ReplayRequest
               /\ jobs'[k].kind \notin Durable => jobs'[k].run = None
    <3>1. CASE k = j
      BY <1>1, <3>1 DEF Inv, WellFormed
    <3>2. CASE k # j
      BY <1>1, <3>2 DEF Inv, WellFormed
    <3>3. QED BY <3>1, <3>2
  <2>2. ASSUME NEW r \in Request, runs'[r].status = "absent"
        PROVE  runs'[r] = NoRun /\ \A k \in JobId : jobs'[k].run # r
    <3>1. runs'[r] = runs[r]
      BY <2>2
    <3>2. QED BY <1>1, <2>2, <3>1 DEF Inv, WellFormed
  <2>3. ASSUME NEW v \in Worker
        PROVE  /\ worker'[v].phase = "idle" => worker'[v] = Idle
               /\ worker'[v].phase # "idle" =>
                     worker'[v].job \in JobId /\ jobs'[worker'[v].job].status # "absent"
               /\ worker'[v].phase = "finishing" =>
                     worker'[v].outcome \in Outcome(jobs'[worker'[v].job].kind)
    <3>1. CASE v = w
      BY <1>2, <1>i, <3>1
    <3>2. CASE v # w /\ worker[v].phase = "idle"
      BY <1>2, <3>2 DEF Inv, WellFormed
    <3>3. CASE v # w /\ worker[v].phase # "idle"
      <4>1. PICK k \in JobId : k = worker[v].job
        BY <3>3 DEF Inv, WellFormed
      <4>2. /\ jobs[k].status # "absent"
            /\ worker[v].phase = "finishing" => worker[v].outcome \in Outcome(jobs[k].kind)
        BY <3>3, <4>1 DEF Inv, WellFormed
      <4>3. jobs'[k].status # "absent" /\ jobs'[k].kind = jobs[k].kind
        BY <1>1, <4>2
      <4>4. QED BY <1>2, <3>3, <4>1, <4>2, <4>3
    <3>4. QED BY <3>1, <3>2, <3>3
  <2>4. QED BY <2>1, <2>2, <2>3 DEF WellFormed
<1>4. FencingTokens'
  <2>1. ASSUME NEW v \in Worker, worker'[v].phase # "idle"
        PROVE  /\ worker'[v] = worker[v] /\ v # w
               /\ worker'[v].attempt \in 1..jobs'[worker'[v].job].attempts
    <3>1. v # w /\ worker'[v] = worker[v]
      BY <1>2, <1>i, <2>1
    <3>2. worker[v].job \in JobId
      BY <2>1, <3>1 DEF Inv, WellFormed
    <3>3. jobs'[worker[v].job].attempts = jobs[worker[v].job].attempts
      BY <1>1, <3>2
    <3>4. QED BY <2>1, <3>1, <3>3 DEF Inv, FencingTokens
  <2>2. ASSUME NEW u \in Worker, NEW v \in Worker, v # u,
               worker'[v].phase # "idle", worker'[v].job = worker'[u].job
        PROVE  worker'[v].attempt # worker'[u].attempt
    <3>1. worker'[v] = worker[v] /\ v # w
      BY <2>1, <2>2
    <3>2. worker'[v].job \in JobId
      BY <2>2, <3>1 DEF Inv, WellFormed
    <3>3. u # w /\ worker'[u] = worker[u]
      BY <1>2, <1>i, <2>2, <3>2, NoneAssumption
    <3>4. QED BY <2>2, <3>1, <3>3 DEF Inv, FencingTokens
  <2>3. QED BY <2>1, <2>2 DEF FencingTokens
<1>5. OneJobPerRun'
  BY <1>1 DEF Inv, OneJobPerRun
<1>6. QED BY <1>3, <1>4, <1>5

-----------------------------------------------------------------------------

\* Inserting a plain job preserves the invariant.
LEMMA EnqueueInv ==
  ASSUME Inv, NEW j \in JobId, NEW kind \in PlainKind, Enqueue(j, kind)
  PROVE  Inv'
<1>0. USE NoneAssumption, MaxAttemptsAssumption DEF Inv, Enqueue, Insert, NoJob
<1>1. TypeOK'
  BY DEF TypeOK
<1>2. WellFormed'
  BY DEF TypeOK, WellFormed, NoRun, Idle
<1>3. JobRunAgree'
  <2> SUFFICES ASSUME NEW k \in JobId, jobs'[k].kind \in Durable
               PROVE  /\ runs'[jobs'[k].run].status \in JobOutcomeStatus(k)'
                      /\ runs'[jobs'[k].run].attempts = jobs'[k].attempts
    BY DEF JobRunAgree
  <2>1. jobs'[j].kind = kind
    BY DEF TypeOK
  <2>2. k # j
    BY <2>1
  <2>3. jobs'[k] = jobs[k] /\ runs' = runs
    BY <2>2 DEF TypeOK
  <2> HIDE DEF Enqueue, Insert
  <2>4. QED BY <2>3 DEF JobRunAgree, JobOutcomeStatus
<1>4. FencingTokens'
  BY DEF TypeOK, WellFormed, FencingTokens
<1>5. OneJobPerRun'
  BY DEF TypeOK, WellFormed, OneJobPerRun
<1>6. ResultFromLastAttempt'
  BY DEF ResultFromLastAttempt
<1>7. QED BY <1>1, <1>2, <1>3, <1>4, <1>5, <1>6

\* Inserting a run together with its job preserves the invariant.
LEMMA SubmitInv ==
  ASSUME Inv, NEW j \in JobId, NEW r \in Request, Submit(j, r)
  PROVE  Inv'
<1>0. USE NoneAssumption, MaxAttemptsAssumption, RequestAssumption DEF Inv, Submit, Insert
<1>1. TypeOK'
  BY DEF TypeOK, Idle
<1>2. WellFormed'
  BY DEF TypeOK, WellFormed, NoJob, NoRun, Idle, Outcome
<1>3. JobRunAgree'
  <2> SUFFICES ASSUME NEW k \in JobId, jobs'[k].kind \in Durable
               PROVE  /\ runs'[jobs'[k].run].status \in JobOutcomeStatus(k)'
                      /\ runs'[jobs'[k].run].attempts = jobs'[k].attempts
    BY DEF JobRunAgree
  <2>1. CASE k = j
    BY <2>1 DEF TypeOK, WellFormed, JobOutcomeStatus, NoRun
  <2>2. CASE k # j
    <3>1. jobs'[k] = jobs[k] /\ jobs[k].run # r
      BY <2>2 DEF TypeOK, WellFormed
    <3>2. runs'[jobs[k].run] = runs[jobs[k].run]
      BY <3>1 DEF TypeOK
    <3>3. QED BY <3>1, <3>2 DEF JobRunAgree, JobOutcomeStatus
  <2>3. QED BY <2>1, <2>2
<1>4. FencingTokens'
  BY DEF TypeOK, WellFormed, FencingTokens, Idle
<1>5. OneJobPerRun'
  BY DEF TypeOK, WellFormed, OneJobPerRun
<1>6. ResultFromLastAttempt'
  BY DEF TypeOK, WellFormed, ResultFromLastAttempt
<1>7. QED BY <1>1, <1>2, <1>3, <1>4, <1>5, <1>6

\* The passing of time preserves the invariant.
LEMMA LeaseExpiresInv ==
  ASSUME Inv, NEW j \in JobId, LeaseExpires(j)
  PROVE  Inv'
<1> USE DEF Inv
<1>1. TypeOK'
  <2>1. [jobs[j] EXCEPT !.lease = "expired"] \in JobRow
    BY DEF TypeOK
  <2>2. QED BY <2>1 DEF TypeOK, LeaseExpires
<1>2. /\ UNCHANGED <<runs, worker>>
      /\ \A k \in JobId : /\ jobs'[k].status = jobs[k].status
                          /\ jobs'[k].kind = jobs[k].kind
                          /\ jobs'[k].run = jobs[k].run
                          /\ jobs'[k].attempts = jobs[k].attempts
                          /\ jobs[k].status = "absent" => jobs'[k] = jobs[k]
  BY DEF TypeOK, LeaseExpires
<1>3. WellFormed'
  <2>1. \A k \in JobId : jobs'[k].status = "absent" => jobs'[k] = NoJob
    BY <1>2 DEF WellFormed
  <2>2. QED BY <1>2, <2>1 DEF WellFormed, NoJob, NoRun
<1>4. JobRunAgree'
  BY <1>2 DEF JobRunAgree, JobOutcomeStatus
<1>5. FencingTokens'
  BY <1>2, NoneAssumption DEF TypeOK, WellFormed, FencingTokens
<1>6. OneJobPerRun'
  BY <1>2 DEF OneJobPerRun
<1>7. ResultFromLastAttempt'
  BY <1>2 DEF ResultFromLastAttempt
<1>8. QED BY <1>1, <1>3, <1>4, <1>5, <1>6, <1>7

\* Claiming or reclaiming a job preserves the invariant.
LEMMA ClaimInv ==
  ASSUME Inv, NEW w \in Worker, NEW j \in JobId, Claim(w, j)
  PROVE  Inv'
<1>0. USE NoneAssumption, MaxAttemptsAssumption, RequestAssumption DEF Inv, Claim, Claimable, RunClaimable
<1>a. jobs[j].attempts + 1 \in 1..MaxAttempts
  BY DEF TypeOK, WellFormed
<1>b. PICK n \in 1..MaxAttempts : n = jobs[j].attempts + 1
  BY <1>a
<1>1. TypeOK'
  <2>1. jobs' \in [JobId -> JobRow]
    <3>1. jobs' = [jobs EXCEPT ![j] = [status |-> "running", kind |-> jobs[j].kind,
                      run |-> jobs[j].run, attempts |-> n, lease |-> "live"]]
      BY <1>b DEF TypeOK
    <3>2. QED BY <3>1 DEF TypeOK
  <2>2. runs' \in [Request -> RunRow]
    <3>1. CASE jobs[j].kind \in Durable
      <4>1. jobs[j].run \in Request
        BY <3>1 DEF WellFormed
      <4>2. runs' = [runs EXCEPT ![jobs[j].run] = [status |-> "running",
                        attempts |-> n, result |-> runs[jobs[j].run].result]]
        BY <1>b, <3>1, <4>1 DEF TypeOK
      <4>3. runs[jobs[j].run].result \in 0..MaxAttempts
        BY <4>1 DEF TypeOK
      <4>4. QED BY <4>1, <4>2, <4>3 DEF TypeOK
    <3>2. CASE jobs[j].kind \notin Durable
      BY <3>2 DEF TypeOK
    <3>3. QED BY <3>1, <3>2
  <2>3. worker' \in [Worker -> Memory]
    BY <1>b DEF TypeOK
  <2>4. QED BY <2>1, <2>2, <2>3 DEF TypeOK
<1>2. WellFormed'
  <2>1. /\ jobs[j].status # "absent" /\ jobs'[j].status = "running"
        /\ jobs'[j].kind = jobs[j].kind /\ jobs'[j].run = jobs[j].run
        /\ \A k \in JobId : k # j => jobs'[k] = jobs[k]
    BY DEF TypeOK
  <2>2. worker'[w] = [phase |-> "claimed", job |-> j, attempt |-> n, outcome |-> None]
    BY <1>b DEF TypeOK
  <2>3. \A v \in Worker : v # w => worker'[v] = worker[v]
    BY DEF TypeOK
  <2>4. \A r \in Request : runs'[r].status = "absent" => runs'[r] = runs[r]
    BY DEF TypeOK, WellFormed
  <2> HIDE DEF Claim
  <2>5. ASSUME NEW k \in JobId
        PROVE  /\ jobs'[k].status = "absent" => jobs'[k] = NoJob
               /\ jobs'[k].status # "absent" => jobs'[k].kind \in Kind
               /\ jobs'[k].status = "queued" => jobs'[k].attempts < MaxAttempts
               /\ jobs'[k].kind = "planning" => jobs'[k].run \in PlanningRequest
               /\ jobs'[k].kind = "replay" => jobs'[k].run \in ReplayRequest
               /\ jobs'[k].kind \notin Durable => jobs'[k].run = None
    <3>1. CASE k = j
      BY <2>1, <3>1 DEF WellFormed
    <3>2. CASE k # j
      BY <2>1, <3>2 DEF WellFormed
    <3>3. QED BY <3>1, <3>2
  <2>6. ASSUME NEW r \in Request, runs'[r].status = "absent"
        PROVE  runs'[r] = NoRun /\ \A k \in JobId : jobs'[k].run # r
    <3>1. runs'[r] = runs[r]
      BY <2>4, <2>6
    <3>2. \A k \in JobId : jobs'[k].run = jobs[k].run
      BY <2>1
    <3>3. QED BY <2>6, <3>1, <3>2 DEF WellFormed
  <2>7. ASSUME NEW v \in Worker
        PROVE  /\ worker'[v].phase = "idle" => worker'[v] = Idle
               /\ worker'[v].phase # "idle" =>
                     worker'[v].job \in JobId /\ jobs'[worker'[v].job].status # "absent"
               /\ worker'[v].phase = "finishing" =>
                     worker'[v].outcome \in Outcome(jobs'[worker'[v].job].kind)
    <3>1. CASE v = w
      BY <2>1, <2>2, <3>1
    <3>2. CASE v # w /\ worker[v].phase = "idle"
      BY <2>3, <3>2 DEF WellFormed
    <3>3. CASE v # w /\ worker[v].phase # "idle"
      <4>1. PICK k \in JobId : k = worker[v].job
        BY <3>3 DEF WellFormed
      <4>2. /\ jobs[k].status # "absent"
            /\ worker[v].phase = "finishing" => worker[v].outcome \in Outcome(jobs[k].kind)
        BY <3>3, <4>1 DEF WellFormed
      <4>3. jobs'[k].status # "absent" /\ jobs'[k].kind = jobs[k].kind
        BY <2>1, <4>2
      <4>4. QED BY <2>3, <3>3, <4>1, <4>2, <4>3
    <3>4. QED BY <3>1, <3>2, <3>3
  <2>8. QED BY <2>5, <2>6, <2>7 DEF WellFormed
<1>3. JobRunAgree'
  BY DEF TypeOK, WellFormed, JobRunAgree, JobOutcomeStatus, OneJobPerRun
<1>4. FencingTokens'
  BY DEF TypeOK, WellFormed, FencingTokens, Idle
<1>5. OneJobPerRun'
  BY DEF TypeOK, WellFormed, OneJobPerRun
<1>6. ResultFromLastAttempt'
  BY DEF TypeOK, WellFormed, ResultFromLastAttempt
<1>7. QED BY <1>1, <1>2, <1>3, <1>4, <1>5, <1>6

\* Failing a durable job whose last lease expired preserves the invariant.
LEMMA ReapExhaustedInv ==
  ASSUME Inv, NEW w \in Worker, NEW j \in JobId, ReapExhausted(w, j)
  PROVE  Inv'
<1>0. USE NoneAssumption, MaxAttemptsAssumption, RequestAssumption DEF Inv, ReapExhausted, Exhausted, RunRunning
<1>1. TypeOK'
  <2>1. jobs[j].run \in Request
    BY DEF WellFormed
  <2>2. jobs' \in [JobId -> JobRow]
    BY SetJobStatus
  <2>3. runs' \in [Request -> RunRow]
    BY <2>1, SetRunStatus
  <2>4. QED BY <2>2, <2>3 DEF TypeOK
<1>2. WellFormed'
  BY DEF TypeOK, WellFormed, NoJob, NoRun, Idle, Outcome
<1>3. JobRunAgree'
  <2>1. jobs[j].run \in Request
    BY DEF WellFormed
  <2>2. /\ runs'[jobs[j].run].status = "failed" /\ jobs'[j].status = "failed"
        /\ runs'[jobs[j].run].attempts = runs[jobs[j].run].attempts
        /\ jobs'[j].attempts = jobs[j].attempts
    BY <2>1 DEF TypeOK
  <2>3. \A k \in JobId : /\ jobs'[k].kind = jobs[k].kind
                         /\ jobs'[k].run = jobs[k].run
                         /\ k # j => jobs'[k] = jobs[k]
    BY DEF TypeOK
  <2>4. \A r \in Request : r # jobs[j].run => runs'[r] = runs[r]
    BY <2>1 DEF TypeOK
  <2>5. runs[jobs[j].run].attempts = jobs[j].attempts
    BY DEF JobRunAgree
  <2>6. runs'[jobs[j].run].status \in JobOutcomeStatus(j)'
    BY <2>2 DEF JobOutcomeStatus
  <2> HIDE DEF ReapExhausted
  <2>7. QED BY <2>2, <2>3, <2>4, <2>5, <2>6, AgreementKept
<1>4. FencingTokens'
  BY DEF TypeOK, WellFormed, FencingTokens, Idle
<1>5. OneJobPerRun'
  BY DEF TypeOK, WellFormed, OneJobPerRun
<1>6. ResultFromLastAttempt'
  BY DEF TypeOK, WellFormed, ResultFromLastAttempt
<1>7. QED BY <1>1, <1>2, <1>3, <1>4, <1>5, <1>6

\* A handler's return preserves the invariant.
LEMMA HandlerReturnsInv ==
  ASSUME Inv, NEW w \in Worker, NEW out \in RunTerminal, HandlerReturns(w, out)
  PROVE  Inv'
<1>0. USE NoneAssumption, MaxAttemptsAssumption, RequestAssumption DEF Inv, HandlerReturns
<1>1. TypeOK'
  <2>1. [worker[w] EXCEPT !.phase = "finishing", !.outcome = out] \in Memory
    BY DEF TypeOK
  <2>2. QED BY <2>1 DEF TypeOK
<1>2. WellFormed'
  BY DEF TypeOK, WellFormed, NoJob, NoRun, Idle, Outcome
<1>3. JobRunAgree'
  BY DEF TypeOK, WellFormed, JobRunAgree, JobOutcomeStatus, OneJobPerRun
<1>4. FencingTokens'
  BY DEF TypeOK, WellFormed, FencingTokens, Idle
<1>5. OneJobPerRun'
  BY DEF TypeOK, WellFormed, OneJobPerRun
<1>6. ResultFromLastAttempt'
  BY DEF TypeOK, WellFormed, ResultFromLastAttempt
<1>7. QED BY <1>1, <1>2, <1>3, <1>4, <1>5, <1>6

\* A handler's exception preserves the invariant.
LEMMA HandlerRaisesInv ==
  ASSUME Inv, NEW w \in Worker, HandlerRaises(w)
  PROVE  Inv'
<1>0. USE NoneAssumption, MaxAttemptsAssumption, RequestAssumption DEF Inv, HandlerRaises
<1>1. TypeOK'
  BY DEF TypeOK, Idle
<1>2. WellFormed'
  BY DEF TypeOK, WellFormed, NoJob, NoRun, Idle, Outcome
<1>3. JobRunAgree'
  BY DEF TypeOK, WellFormed, JobRunAgree, JobOutcomeStatus, OneJobPerRun
<1>4. FencingTokens'
  BY DEF TypeOK, WellFormed, FencingTokens, Idle
<1>5. OneJobPerRun'
  BY DEF TypeOK, WellFormed, OneJobPerRun
<1>6. ResultFromLastAttempt'
  BY DEF TypeOK, WellFormed, ResultFromLastAttempt
<1>7. QED BY <1>1, <1>2, <1>3, <1>4, <1>5, <1>6

\* A worker that drops its claim, or dies, preserves the invariant.
LEMMA ReleaseInv ==
  ASSUME Inv, NEW w \in Worker, Release(w), UNCHANGED <<jobs, runs>>
  PROVE  Inv'
<1>0. USE NoneAssumption, MaxAttemptsAssumption, RequestAssumption DEF Inv, Release
<1>1. TypeOK'
  BY DEF TypeOK, Idle
<1>2. WellFormed'
  BY DEF TypeOK, WellFormed, NoJob, NoRun, Idle, Outcome
<1>3. JobRunAgree'
  BY DEF TypeOK, WellFormed, JobRunAgree, JobOutcomeStatus, OneJobPerRun
<1>4. FencingTokens'
  BY DEF TypeOK, WellFormed, FencingTokens, Idle
<1>5. OneJobPerRun'
  BY DEF TypeOK, WellFormed, OneJobPerRun
<1>6. ResultFromLastAttempt'
  BY DEF TypeOK, WellFormed, ResultFromLastAttempt
<1>7. QED BY <1>1, <1>2, <1>3, <1>4, <1>5, <1>6

\* Dead-lettering a job without a handler preserves the invariant.
LEMMA DeadLetterInv ==
  ASSUME Inv, NEW w \in Worker, DeadLetter(w)
  PROVE  Inv'
<1>p. PICK j \in JobId : j = worker[w].job
  BY DEF Inv, WellFormed, DeadLetter
<1>a. /\ jobs[j].kind \notin Durable
      /\ jobs[j].status = "running"
      /\ jobs' = [jobs EXCEPT ![j].status = "dead"]
      /\ Release(w)
      /\ UNCHANGED runs
  <2>1. jobs[j].status # "absent" /\ jobs[j].status = "running"
    BY <1>p DEF DeadLetter, ClaimIsCurrent
  <2>2. jobs[j].kind \in Kind
    BY <2>1 DEF Inv, WellFormed
  <2>3. QED BY <1>p, <2>1, <2>2 DEF DeadLetter, Handled
<1>1. TypeOK'
  <2>1. jobs' \in [JobId -> JobRow]
    BY <1>a, SetJobStatus DEF Inv
  <2>2. QED BY <1>a, <2>1, ReleaseType DEF Inv, TypeOK
<1>2. WellFormed' /\ FencingTokens' /\ OneJobPerRun'
  BY <1>a, SettlingKeeps
<1>3. JobRunAgree'
  <2>1. \A k \in JobId : /\ jobs'[k].kind = jobs[k].kind
                         /\ jobs'[k].run = jobs[k].run
                         /\ k # j => jobs'[k] = jobs[k]
    BY <1>a, JobAfter DEF Inv
  <2>2. QED BY <1>a, <2>1, AgreementKept
<1>4. ResultFromLastAttempt'
  BY <1>a DEF Inv, ResultFromLastAttempt
<1>5. QED BY <1>1, <1>2, <1>3, <1>4 DEF Inv

\* What the terminal transaction of a durable job changes in the run tables.
LEMMA FinishRun ==
  ASSUME TypeOK, NEW r \in Request, NEW s \in RunStatus, NEW n \in 0..MaxAttempts,
         runs' = [runs EXCEPT ![r].status = s, ![r].result = n]
  PROVE  /\ runs'[r].status = s
         /\ runs'[r].result = n
         /\ runs'[r].attempts = runs[r].attempts
         /\ \A q \in Request : q # r => runs'[q] = runs[q]
BY DEF TypeOK

\* What the terminal transaction of a failed attempt changes in them.
LEMMA FailRun ==
  ASSUME TypeOK, NEW r \in Request, NEW s \in RunStatus,
         runs' = [runs EXCEPT ![r].status = s]
  PROVE  /\ runs'[r].status = s
         /\ runs'[r].result = runs[r].result
         /\ runs'[r].attempts = runs[r].attempts
         /\ \A q \in Request : q # r => runs'[q] = runs[q]
BY DEF TypeOK

\* The terminal transaction of a handler that returned preserves the invariant.
LEMMA FinishInv ==
  ASSUME Inv, NEW w \in Worker, Finish(w)
  PROVE  Inv'
<1>p. PICK j \in JobId : j = worker[w].job
  BY DEF Inv, WellFormed, Finish
<1>o. PICK out \in RunTerminal : out = worker[w].outcome
  <2>1. worker[w].outcome \in Outcome(jobs[j].kind)
    BY <1>p DEF Inv, WellFormed, Finish
  <2>2. QED BY <2>1 DEF Outcome
<1>s. PICK s \in {"done", "failed"} : s = (IF out = "failed" THEN "failed" ELSE "done")
  OBVIOUS
<1>t. TypeOK
  BY DEF Inv
<1>a. /\ jobs[j].status = "running"
      /\ jobs[j].attempts = worker[w].attempt
      /\ jobs' = [jobs EXCEPT ![j].status = s]
      /\ Release(w)
  BY <1>p, <1>o, <1>s DEF Finish, ClaimIsCurrent
<1>j. /\ jobs'[j].status = s
      /\ jobs'[j].attempts = jobs[j].attempts
      /\ \A k \in JobId : /\ jobs'[k].kind = jobs[k].kind
                          /\ jobs'[k].run = jobs[k].run
                          /\ k # j => jobs'[k] = jobs[k]
  BY <1>a, <1>t, JobAfter
<1>1. jobs' \in [JobId -> JobRow] /\ worker' \in [Worker -> Memory]
  BY <1>a, <1>t, SetJobStatus, ReleaseType
<1>2. CASE jobs[j].kind \in Durable
  <2>r. PICK r \in Request : r = jobs[j].run
    BY <1>2 DEF Inv, WellFormed
  <2>n. PICK n \in 0..MaxAttempts :
           n = IF out = "completed" THEN worker[w].attempt ELSE runs[r].result
    BY <1>t DEF TypeOK
  <2>1. /\ runs' = [runs EXCEPT ![r].status = out, ![r].result = n]
        /\ runs[r].status = "running"
        /\ runs[r].attempts = worker[w].attempt
    BY <1>2, <1>p, <1>o, <2>r, <2>n DEF Finish, RunRunning
  <2>2. out \in RunStatus
    OBVIOUS
  <2>3. runs' \in [Request -> RunRow]
    BY <1>t, <2>1, <2>2, StoreRunResult
  <2>4. /\ runs'[r].status = out
        /\ runs'[r].result = n
        /\ runs'[r].attempts = runs[r].attempts
        /\ \A q \in Request : q # r => runs'[q] = runs[q]
    BY <1>t, <2>1, <2>2, FinishRun
  <2>5. WellFormed' /\ FencingTokens' /\ OneJobPerRun'
    <3>1. \A q \in Request : \/ runs'[q] = runs[q]
                             \/ runs[q].status # "absent" /\ runs'[q].status # "absent"
      BY <2>1, <2>4
    <3>2. QED BY <1>a, <3>1, SettlingKeeps
  <2>6. runs'[r].attempts = jobs'[j].attempts
    BY <1>a, <1>j, <2>1, <2>4
  <2>7. runs'[r].status \in JobOutcomeStatus(j)'
    <3>1. CASE out = "failed"
      BY <1>s, <1>j, <2>4, <3>1 DEF JobOutcomeStatus
    <3>2. CASE out # "failed"
      <4>1. out \in {"completed", "infeasible"} /\ s = "done"
        BY <1>s, <3>2
      <4>2. QED BY <1>j, <2>4, <4>1 DEF JobOutcomeStatus
    <3>3. QED BY <3>1, <3>2
  <2>8. JobRunAgree'
    BY <1>j, <2>r, <2>4, <2>6, <2>7, AgreementKept
  <2>9. ResultFromLastAttempt'
    <3>1. runs[r].result = 0
      BY <2>1 DEF Inv, ResultFromLastAttempt
    <3>2. n = IF out = "completed" THEN runs'[r].attempts ELSE 0
      BY <2>n, <2>1, <2>4, <3>1
    <3>3. QED BY <2>4, <3>2 DEF Inv, ResultFromLastAttempt
  <2>10. QED BY <1>1, <2>3, <2>5, <2>8, <2>9 DEF Inv, TypeOK
<1>3. CASE jobs[j].kind \notin Durable
  <2>1. UNCHANGED runs
    BY <1>3, <1>p DEF Finish
  <2>2. WellFormed' /\ FencingTokens' /\ OneJobPerRun'
    BY <1>a, <2>1, SettlingKeeps
  <2>3. JobRunAgree'
    BY <1>3, <1>j, <2>1, AgreementKept
  <2>4. ResultFromLastAttempt' /\ runs' \in [Request -> RunRow]
    BY <2>1 DEF Inv, TypeOK, ResultFromLastAttempt
  <2>5. QED BY <1>1, <2>2, <2>3, <2>4 DEF Inv, TypeOK
<1>4. QED BY <1>2, <1>3

\* A terminal transaction that rolls back preserves the invariant.
LEMMA FinishRaisesInv ==
  ASSUME Inv, NEW w \in Worker, FinishRaises(w)
  PROVE  Inv'
<1>1. /\ UNCHANGED <<jobs, runs>>
      /\ worker[w].phase = "finishing"
      /\ worker' = [worker EXCEPT ![w].phase = "failing", ![w].outcome = None]
  BY DEF FinishRaises
<1>2. /\ worker'[w].phase = "failing"
      /\ worker'[w].job = worker[w].job
      /\ worker'[w].attempt = worker[w].attempt
      /\ \A v \in Worker : v # w => worker'[v] = worker[v]
  BY <1>1 DEF Inv, TypeOK
<1>3. TypeOK'
  <2>0. worker[w] \in Memory
    BY DEF Inv, TypeOK
  <2>1. [worker[w] EXCEPT !.phase = "failing", !.outcome = None] \in Memory
    BY <2>0
  <2>2. worker' = [worker EXCEPT ![w] =
                      [worker[w] EXCEPT !.phase = "failing", !.outcome = None]]
    BY <1>1 DEF Inv, TypeOK
  <2>3. QED BY <1>1, <2>1, <2>2 DEF Inv, TypeOK
<1>4. WellFormed'
  <2>1. ASSUME NEW v \in Worker
        PROVE  /\ worker'[v].phase = "idle" => worker'[v] = Idle
               /\ worker'[v].phase # "idle" =>
                     worker'[v].job \in JobId /\ jobs[worker'[v].job].status # "absent"
               /\ worker'[v].phase = "finishing" =>
                     worker'[v].outcome \in Outcome(jobs[worker'[v].job].kind)
    <3>1. CASE v = w
      BY <1>1, <1>2, <3>1 DEF Inv, WellFormed
    <3>2. CASE v # w
      BY <1>2, <3>2 DEF Inv, WellFormed
    <3>3. QED BY <3>1, <3>2
  <2>2. QED BY <1>1, <2>1 DEF Inv, WellFormed, Outcome
<1>5. JobRunAgree' /\ OneJobPerRun' /\ ResultFromLastAttempt'
  BY <1>1 DEF Inv, JobRunAgree, JobOutcomeStatus, OneJobPerRun, ResultFromLastAttempt
<1>6. FencingTokens'
  <2>0. FencingTokens /\ jobs' = jobs
    BY <1>1 DEF Inv
  <2>1. \A v \in Worker : /\ worker'[v].job = worker[v].job
                          /\ worker'[v].attempt = worker[v].attempt
                          /\ worker'[v].phase # "idle" => worker[v].phase # "idle"
    BY <1>1, <1>2
  <2>2. \A v \in Worker : worker'[v].phase # "idle" =>
           worker'[v].attempt \in 1..jobs'[worker'[v].job].attempts
    <3> SUFFICES ASSUME NEW v \in Worker, worker'[v].phase # "idle"
                 PROVE  worker'[v].attempt \in 1..jobs'[worker'[v].job].attempts
      OBVIOUS
    <3>1. worker[v].attempt \in 1..jobs[worker[v].job].attempts
      BY <2>1, <2>0 DEF FencingTokens
    <3>2. QED BY <2>1, <2>0, <3>1
  <2>3. ASSUME NEW u \in Worker, NEW v \in Worker, v # u,
               worker'[v].phase # "idle", worker'[v].job = worker'[u].job
        PROVE  worker'[v].attempt # worker'[u].attempt
    <3>1. worker[v].phase # "idle" /\ worker[v].job = worker[u].job
      BY <2>1, <2>3
    <3>2. worker[v].attempt # worker[u].attempt
      BY <2>0, <2>3, <3>1 DEF FencingTokens
    <3>3. QED BY <2>1, <3>2
  <2>4. QED BY <2>2, <2>3 DEF FencingTokens
<1>7. QED BY <1>3, <1>4, <1>5, <1>6 DEF Inv

\* Recording a failed attempt preserves the invariant.
LEMMA RecordFailureInv ==
  ASSUME Inv, NEW w \in Worker, RecordFailure(w)
  PROVE  Inv'
<1>p. PICK j \in JobId : j = worker[w].job
  BY DEF Inv, WellFormed, RecordFailure
<1>s. PICK s \in {"failed", "queued"} :
         s = (IF worker[w].attempt >= MaxAttempts THEN "failed" ELSE "queued")
  OBVIOUS
<1>t. TypeOK
  BY DEF Inv
<1>a. /\ jobs[j].status = "running"
      /\ jobs[j].attempts = worker[w].attempt
      /\ jobs' = [jobs EXCEPT ![j].status = s]
      /\ Release(w)
  BY <1>p, <1>s DEF RecordFailure, ClaimIsCurrent
<1>q. s = "queued" => jobs[j].attempts < MaxAttempts
  BY <1>a, <1>s, <1>t, MaxAttemptsAssumption DEF TypeOK
<1>j. /\ jobs'[j].status = s
      /\ jobs'[j].attempts = jobs[j].attempts
      /\ \A k \in JobId : /\ jobs'[k].kind = jobs[k].kind
                          /\ jobs'[k].run = jobs[k].run
                          /\ k # j => jobs'[k] = jobs[k]
  BY <1>a, <1>t, JobAfter
<1>1. jobs' \in [JobId -> JobRow] /\ worker' \in [Worker -> Memory]
  BY <1>a, <1>t, SetJobStatus, ReleaseType
<1>2. CASE jobs[j].kind \in Durable
  <2>r. PICK r \in Request : r = jobs[j].run
    BY <1>2 DEF Inv, WellFormed
  <2>1. /\ runs' = [runs EXCEPT ![r].status = s]
        /\ runs[r].status = "running"
        /\ runs[r].attempts = worker[w].attempt
    BY <1>2, <1>p, <1>s, <2>r DEF RecordFailure, RunRunning
  <2>2. s \in RunStatus
    OBVIOUS
  <2>3. runs' \in [Request -> RunRow]
    BY <1>t, <2>1, <2>2, SetRunStatus
  <2>4. /\ runs'[r].status = s
        /\ runs'[r].result = runs[r].result
        /\ runs'[r].attempts = runs[r].attempts
        /\ \A q \in Request : q # r => runs'[q] = runs[q]
    BY <1>t, <2>1, <2>2, FailRun
  <2>5. WellFormed' /\ FencingTokens' /\ OneJobPerRun'
    <3>1. \A q \in Request : \/ runs'[q] = runs[q]
                             \/ runs[q].status # "absent" /\ runs'[q].status # "absent"
      BY <2>1, <2>4
    <3>2. QED BY <1>a, <1>q, <3>1, SettlingKeeps
  <2>6. runs'[r].attempts = jobs'[j].attempts
    BY <1>a, <1>j, <2>1, <2>4
  <2>7. runs'[r].status \in JobOutcomeStatus(j)'
    <3>1. CASE s = "failed"
      BY <1>j, <2>4, <3>1 DEF JobOutcomeStatus
    <3>2. CASE s = "queued"
      BY <1>j, <2>4, <3>2 DEF JobOutcomeStatus
    <3>3. QED BY <3>1, <3>2
  <2>8. JobRunAgree'
    BY <1>j, <2>r, <2>4, <2>6, <2>7, AgreementKept
  <2>9. ResultFromLastAttempt'
    <3>1. runs[r].result = 0 /\ s # "completed"
      BY <2>1 DEF Inv, ResultFromLastAttempt
    <3>2. QED BY <2>4, <3>1 DEF Inv, ResultFromLastAttempt
  <2>10. QED BY <1>1, <2>3, <2>5, <2>8, <2>9 DEF Inv, TypeOK
<1>3. CASE jobs[j].kind \notin Durable
  <2>1. UNCHANGED runs
    BY <1>3, <1>p DEF RecordFailure
  <2>2. WellFormed' /\ FencingTokens' /\ OneJobPerRun'
    BY <1>a, <1>q, <2>1, SettlingKeeps
  <2>3. JobRunAgree'
    BY <1>3, <1>j, <2>1, AgreementKept
  <2>4. ResultFromLastAttempt' /\ runs' \in [Request -> RunRow]
    BY <2>1 DEF Inv, TypeOK, ResultFromLastAttempt
  <2>5. QED BY <1>1, <2>2, <2>3, <2>4 DEF Inv, TypeOK
<1>4. QED BY <1>2, <1>3

-----------------------------------------------------------------------------
(* The invariant                                                             *)

\* A step that changes nothing preserves the invariant.
LEMMA StutterInv == Inv /\ UNCHANGED vars => Inv'
<1> SUFFICES ASSUME Inv, UNCHANGED vars PROVE Inv'
  OBVIOUS
<1> USE DEF Inv, vars
<1>1. TypeOK'
  BY DEF TypeOK
<1>2. WellFormed'
  BY DEF WellFormed
<1>3. JobRunAgree'
  BY DEF JobRunAgree, JobOutcomeStatus
<1>4. FencingTokens' /\ OneJobPerRun' /\ ResultFromLastAttempt'
  BY DEF FencingTokens, OneJobPerRun, ResultFromLastAttempt
<1>5. QED BY <1>1, <1>2, <1>3, <1>4

\* Every step of the queue preserves the invariant.
LEMMA NextInv == Inv /\ [Next]_vars => Inv'
<1> SUFFICES ASSUME Inv, [Next]_vars PROVE Inv'
  OBVIOUS
<1>1. CASE \E j \in JobId, kind \in PlainKind : Enqueue(j, kind)
  BY <1>1, EnqueueInv
<1>2. CASE \E j \in JobId, r \in Request : Submit(j, r)
  BY <1>2, SubmitInv
<1>3. CASE \E j \in JobId : LeaseExpires(j)
  BY <1>3, LeaseExpiresInv
<1>4. CASE \E w \in Worker : Poll(w)
  BY <1>4, ClaimInv, ReapExhaustedInv DEF Poll
<1>5. CASE \E w \in Worker : PollEmpty(w)
  BY <1>5, StutterInv DEF PollEmpty
<1>6. CASE \E w \in Worker : Handle(w)
  BY <1>6, HandlerReturnsInv, HandlerRaisesInv DEF Handle
<1>7. CASE \E w \in Worker : Settle(w)
  <2>1. PICK w \in Worker : Settle(w)
    BY <1>7
  <2>2. CASE Superseded(w)
    BY <2>2, ReleaseInv DEF Superseded
  <2>3. CASE DeadLetter(w)
    BY <2>3, DeadLetterInv
  <2>4. CASE Finish(w)
    BY <2>4, FinishInv
  <2>5. CASE FinishRaises(w)
    BY <2>5, FinishRaisesInv
  <2>6. CASE RecordFailure(w)
    BY <2>6, RecordFailureInv
  <2>7. QED BY <2>1, <2>2, <2>3, <2>4, <2>5, <2>6 DEF Settle
<1>8. CASE \E w \in Worker : Crash(w)
  BY <1>8, ReleaseInv DEF Crash
<1>9. CASE UNCHANGED vars
  BY <1>9, StutterInv
<1>10. QED BY <1>1, <1>2, <1>3, <1>4, <1>5, <1>6, <1>7, <1>8, <1>9 DEF Next

\* The inductive invariant holds in every reachable state.
THEOREM Invariance == Spec => []Inv
BY InitInv, NextInv, PTL DEF Spec

\* Every variable keeps its type: in particular no attempt number ever passes
\* MAX_ATTEMPTS.
THEOREM TypeCorrect == Spec => []TypeOK
<1>1. Inv => TypeOK
  BY DEF Inv
<1>2. QED BY <1>1, Invariance, PTL

\* A durable job and its run agree in every committed state, so the lifecycle
\* hook of a claim never raises.
THEOREM JobRunAgreement == Spec => []JobRunAgree
<1>1. Inv => JobRunAgree
  BY DEF Inv
<1>2. QED BY <1>1, Invariance, PTL

\* No two workers ever hold the same attempt of a job.
THEOREM Fencing == Spec => []FencingTokens
<1>1. Inv => FencingTokens
  BY DEF Inv
<1>2. QED BY <1>1, Invariance, PTL

\* No request is ever worked on under two jobs.
THEOREM UniqueJob == Spec => []OneJobPerRun
<1>1. Inv => OneJobPerRun
  BY DEF Inv
<1>2. QED BY <1>1, Invariance, PTL

\* Only the last attempt's output is ever stored, and only for completed runs.
THEOREM LastAttemptWins == Spec => []ResultFromLastAttempt
<1>1. Inv => ResultFromLastAttempt
  BY DEF Inv
<1>2. QED BY <1>1, Invariance, PTL

-----------------------------------------------------------------------------
(* Finality                                                                  *)

\* No step of the queue changes the row of a settled job or run.
LEMMA NextFinal == Inv /\ [Next]_vars => [NoReopening]_vars
<1> SUFFICES ASSUME Inv, Next PROVE NoReopening
  OBVIOUS
<1> USE DEF NoReopening
<1>1. ASSUME NEW j \in JobId, NEW kind \in PlainKind, Enqueue(j, kind)
      PROVE  NoReopening
  BY <1>1 DEF Inv, TypeOK, Enqueue, Insert
<1>2. ASSUME NEW j \in JobId, NEW r \in Request, Submit(j, r)
      PROVE  NoReopening
  BY <1>2 DEF Inv, TypeOK, Submit, Insert
<1>3. ASSUME NEW j \in JobId, LeaseExpires(j)
      PROVE  NoReopening
  BY <1>3 DEF Inv, TypeOK, LeaseExpires
<1>4. ASSUME NEW w \in Worker, NEW j \in JobId, Claim(w, j)
      PROVE  NoReopening
  BY <1>4 DEF Inv, TypeOK, Claim, Claimable, RunClaimable
<1>5. ASSUME NEW w \in Worker, NEW j \in JobId, ReapExhausted(w, j)
      PROVE  NoReopening
  BY <1>5 DEF Inv, TypeOK, ReapExhausted, Exhausted, RunRunning
<1>6. ASSUME UNCHANGED <<jobs, runs>>
      PROVE  NoReopening
  BY <1>6
<1>7. ASSUME NEW w \in Worker, DeadLetter(w)
      PROVE  NoReopening
  BY <1>7 DEF Inv, TypeOK, DeadLetter, ClaimIsCurrent
<1>8. ASSUME NEW w \in Worker, Finish(w)
      PROVE  NoReopening
  BY <1>8 DEF Inv, TypeOK, Finish, ClaimIsCurrent, RunRunning
<1>9. ASSUME NEW w \in Worker, RecordFailure(w)
      PROVE  NoReopening
  BY <1>9 DEF Inv, TypeOK, RecordFailure, ClaimIsCurrent, RunRunning
<1>10. QED
  BY <1>1, <1>2, <1>3, <1>4, <1>5, <1>6, <1>7, <1>8, <1>9
     DEF Next, Poll, PollEmpty, vars, Handle, HandlerReturns, HandlerRaises, Settle,
         Superseded, FinishRaises, Crash

\* No step of any worker reopens or relabels a settled job or run.
THEOREM Finality == Spec => SettledIsFinal
BY Invariance, NextFinal, PTL DEF Spec, SettledIsFinal

-----------------------------------------------------------------------------
(* Refinement                                                                *)

\* No run is submitted at first, as the abstract specification starts.
LEMMA InitRefines == Init => Outcomes!OutcomeInit
BY DEF Init, NoRun, Told, Seen, Stored, Outcomes!OutcomeInit, Outcomes!AnyRequest

\* A transaction that leaves the run tables alone is not seen by a submitter.
LEMMA RunsUnseen == UNCHANGED runs => UNCHANGED Outcomes!outcomeVars
BY DEF Told, Stored, Outcomes!outcomeVars

\* Nor is one that moves a run between queued and running.
LEMMA StillPending ==
  ASSUME NEW r \in Request,
         \A q \in Request : q # r => runs'[q] = runs[q],
         runs[r].status \in {"queued", "running"},
         runs'[r].status \in {"queued", "running"},
         runs'[r].result = runs[r].result
  PROVE  UNCHANGED Outcomes!outcomeVars
<1>1. Seen(runs'[r].status) = Seen(runs[r].status)
  BY DEF Seen
<1>2. \A q \in Request : /\ Seen(runs'[q].status) = Seen(runs[q].status)
                         /\ runs'[q].result = runs[q].result
  BY <1>1
<1>3. QED BY <1>2 DEF Told, Stored, Outcomes!outcomeVars

\* One that settles a run, and stores evidence exactly if it completed, is the
\* settling step of the abstract specification.
LEMMA Settling ==
  ASSUME NEW r \in Request, NEW o \in Outcomes!Possible(r),
         \A q \in Request : q # r => runs'[q] = runs[q],
         runs[r].status \in {"queued", "running"},
         runs'[r].status = o,
         runs'[r].result # 0 <=> o = "completed"
  PROVE  Outcomes!SettleRun(r, o)
<1>1. o \in RunTerminal
  BY DEF Outcomes!Possible, Outcomes!Settled
<1>2. Seen(runs[r].status) = "pending" /\ Seen(runs'[r].status) = o
  BY <1>1 DEF Seen
<1>3. Told[r] = "pending" /\ Told' = [Told EXCEPT ![r] = o]
  BY <1>2 DEF Told
<1>4. Stored' = [Stored EXCEPT ![r] = IF o = "completed" THEN "stored" ELSE "none"]
  BY DEF Stored
<1>5. QED BY <1>3, <1>4 DEF Outcomes!SettleRun

\* Every step of the queue is a step of the abstract specification or unseen by it.
LEMMA NextRefines == Inv /\ [Next]_vars => [Outcomes!OutcomeNext]_Outcomes!outcomeVars
<1> SUFFICES ASSUME Inv, Next PROVE [Outcomes!OutcomeNext]_Outcomes!outcomeVars
  BY RunsUnseen DEF vars
<1>1. ASSUME NEW j \in JobId, NEW r \in Request, Submit(j, r)
      PROVE  Outcomes!OutcomeNext
  <2>1. /\ runs[r].status = "absent" /\ runs'[r].status = "queued"
        /\ \A q \in Request : q # r => runs'[q] = runs[q]
        /\ \A q \in Request : runs'[q].result = runs[q].result
    BY <1>1 DEF Inv, TypeOK, Submit
  <2>2. Seen(runs[r].status) = "unsubmitted" /\ Seen(runs'[r].status) = "pending"
    BY <2>1 DEF Seen
  <2>3. Told[r] = "unsubmitted" /\ Told' = [Told EXCEPT ![r] = "pending"]
    BY <2>1, <2>2 DEF Told
  <2>4. Stored' = Stored
    BY <2>1 DEF Stored
  <2>5. QED BY <2>3, <2>4 DEF Outcomes!OutcomeNext, Outcomes!AcceptRun, Outcomes!AnyRequest
<1>2. ASSUME NEW w \in Worker, NEW j \in JobId, Claim(w, j)
      PROVE  UNCHANGED Outcomes!outcomeVars
  <2>1. CASE jobs[j].kind \in Durable
    <3>1. jobs[j].run \in Request
      BY <2>1 DEF Inv, WellFormed
    <3>2. /\ runs[jobs[j].run].status \in {"queued", "running"}
          /\ runs'[jobs[j].run].status = "running"
          /\ runs'[jobs[j].run].result = runs[jobs[j].run].result
          /\ \A q \in Request : q # jobs[j].run => runs'[q] = runs[q]
      BY <1>2, <2>1, <3>1 DEF Inv, TypeOK, Claim, RunClaimable
    <3>3. QED BY <3>1, <3>2, StillPending
  <2>2. CASE jobs[j].kind \notin Durable
    BY <1>2, <2>2, RunsUnseen DEF Claim
  <2>3. QED BY <2>1, <2>2
<1>3. ASSUME NEW w \in Worker, NEW j \in JobId, ReapExhausted(w, j)
      PROVE  Outcomes!OutcomeNext
  <2>1. jobs[j].run \in Request
    BY <1>3 DEF Inv, WellFormed, ReapExhausted, Exhausted
  <2>2. /\ runs[jobs[j].run].status = "running"
        /\ runs'[jobs[j].run].status = "failed"
        /\ runs'[jobs[j].run].result = runs[jobs[j].run].result
        /\ \A q \in Request : q # jobs[j].run => runs'[q] = runs[q]
    BY <1>3, <2>1 DEF Inv, TypeOK, ReapExhausted, RunRunning
  <2>3. runs[jobs[j].run].result = 0
    BY <2>1, <2>2 DEF Inv, ResultFromLastAttempt
  <2>4. "failed" \in Outcomes!Possible(jobs[j].run)
    BY DEF Outcomes!Possible, Outcomes!Settled
  <2>5. Outcomes!SettleRun(jobs[j].run, "failed")
    BY <2>1, <2>2, <2>3, <2>4, Settling
  <2>6. QED
    BY <2>1, <2>4, <2>5
       DEF Outcomes!OutcomeNext, Outcomes!SettleSome, Outcomes!AnyRequest
<1>4. ASSUME NEW w \in Worker, Finish(w)
      PROVE  [Outcomes!OutcomeNext]_Outcomes!outcomeVars
  <2>1. PICK j \in JobId : j = worker[w].job
    BY <1>4 DEF Inv, WellFormed, Finish
  <2> DEFINE r == jobs[j].run
             out == worker[w].outcome
  <2>2. CASE jobs[j].kind \in Durable
    <3>1. r \in Request /\ out \in Outcomes!Possible(r)
      BY <1>4, <2>1, <2>2 DEF Inv, WellFormed, Finish, Outcome,
                              Outcomes!Possible, Outcomes!Settled
    <3>2. /\ runs[r].status = "running"
          /\ runs'[r].status = out
          /\ runs'[r].result =
                IF out = "completed" THEN worker[w].attempt ELSE runs[r].result
          /\ \A q \in Request : q # r => runs'[q] = runs[q]
      <4>1. PICK q \in Request : q = r
        BY <3>1
      <4>2. PICK s \in RunStatus : s = out
        BY <3>1 DEF Outcomes!Possible, Outcomes!Settled
      <4>3. PICK n \in 0..MaxAttempts :
               n = IF out = "completed" THEN worker[w].attempt ELSE runs[r].result
        BY <3>1 DEF Inv, TypeOK
      <4>4. /\ runs[q].status = "running"
            /\ runs' = [runs EXCEPT ![q].status = s, ![q].result = n]
        BY <1>4, <2>1, <2>2, <4>1, <4>2, <4>3 DEF Finish, RunRunning
      <4>5. /\ runs'[q].status = s
            /\ runs'[q].result = n
            /\ \A p \in Request : p # q => runs'[p] = runs[p]
        BY <4>4, FinishRun DEF Inv
      <4>6. QED BY <4>1, <4>2, <4>3, <4>4, <4>5
    <3>3. runs[r].result = 0
      BY <3>1, <3>2 DEF Inv, ResultFromLastAttempt
    <3>4. worker[w].attempt # 0
      BY <1>4, <2>1 DEF Inv, TypeOK, FencingTokens, Finish
    <3> HIDE DEF r, out
    <3>5. Outcomes!SettleRun(r, out)
      BY <3>1, <3>2, <3>3, <3>4, Settling
    <3>6. QED
      BY <3>1, <3>5
         DEF Outcomes!OutcomeNext, Outcomes!SettleSome, Outcomes!AnyRequest
  <2>3. CASE jobs[j].kind \notin Durable
    BY <1>4, <2>1, <2>3, RunsUnseen DEF Finish
  <2>4. QED BY <2>2, <2>3
<1>5. ASSUME NEW w \in Worker, RecordFailure(w)
      PROVE  [Outcomes!OutcomeNext]_Outcomes!outcomeVars
  <2>1. PICK j \in JobId : j = worker[w].job
    BY <1>5 DEF Inv, WellFormed, RecordFailure
  <2> DEFINE r == jobs[j].run
  <2>2. CASE jobs[j].kind \in Durable
    <3>1. r \in Request
      BY <2>2 DEF Inv, WellFormed
    <3>2. /\ runs[r].status = "running"
          /\ runs'[r].status \in {"failed", "queued"}
          /\ runs'[r].result = runs[r].result
          /\ \A q \in Request : q # r => runs'[q] = runs[q]
      <4>1. PICK q \in Request : q = r
        BY <3>1
      <4>2. PICK s \in {"failed", "queued"} :
               s = IF worker[w].attempt >= MaxAttempts THEN "failed" ELSE "queued"
        OBVIOUS
      <4>3. /\ runs[q].status = "running"
            /\ runs' = [runs EXCEPT ![q].status = s]
        BY <1>5, <2>1, <2>2, <4>1, <4>2 DEF RecordFailure, RunRunning
      <4>4. QED BY <4>1, <4>2, <4>3, FailRun DEF Inv
    <3>3. runs[r].result = 0
      BY <3>1, <3>2 DEF Inv, ResultFromLastAttempt
    <3>4. "failed" \in Outcomes!Possible(r)
      BY DEF Outcomes!Possible, Outcomes!Settled
    <3> HIDE DEF r
    <3>5. CASE runs'[r].status = "queued"
      BY <3>1, <3>2, <3>5, StillPending
    <3>6. CASE runs'[r].status = "failed"
      <4>1. Outcomes!SettleRun(r, "failed")
        BY <3>1, <3>2, <3>3, <3>4, <3>6, Settling
      <4>2. QED
        BY <3>1, <3>4, <4>1
           DEF Outcomes!OutcomeNext, Outcomes!SettleSome, Outcomes!AnyRequest
    <3>7. QED BY <3>2, <3>5, <3>6
  <2>3. CASE jobs[j].kind \notin Durable
    BY <1>5, <2>1, <2>3, RunsUnseen DEF RecordFailure
  <2>4. QED BY <2>2, <2>3
<1>6. ASSUME UNCHANGED runs
      PROVE  UNCHANGED Outcomes!outcomeVars
  BY <1>6, RunsUnseen
<1>7. QED
  BY <1>1, <1>2, <1>3, <1>4, <1>5, <1>6
     DEF Next, Poll, PollEmpty, vars, Enqueue, LeaseExpires, Handle, HandlerReturns,
         HandlerRaises, Settle, Superseded, DeadLetter, FinishRaises, Crash

\* The queue keeps the promise made to the submitter, for any number of workers
\* that crash, stall and retry: every step is a step of RunOutcome or unseen.
THEOREM Refinement == Spec => ImplementsRunOutcome
BY Invariance, InitRefines, NextRefines, PTL
   DEF Spec, ImplementsRunOutcome, Outcomes!OutcomeSpec

-----------------------------------------------------------------------------
(* The seeds: what holds of the tenant's tables.                             *)

HIDE DEF PlainKind, Durable, Kind, Request, JobStatus, RunStatus, Phase,
         RunTerminal, JobTerminal, JobRow, RunRow, Memory

Copy == [source : JobId, job : JobId, attempt : Nat]

SeedTypeOK ==
    /\ rows \subseteq Copy
    /\ seedLock \in Worker \cup {None}
    /\ step \in [Worker -> [at : {"start", "resolved", "parsed", "locked", "guarded", "cleared"},
                            source : JobId \cup {None}, cleared : SUBSET Copy]]
    /\ cron \in {"idle", "due"}

UnderWay(j) == jobs[j].kind = "recompute" /\ jobs[j].status \in {"queued", "running"}

\* The tenant's jobs are uploads and recomputes; one recompute is under way, and
\* none while one is due.
OnlySeeds ==
    /\ \A j \in JobId : jobs[j].kind \in {None, "ingest", "recompute"}
    /\ \A i, j \in JobId : UnderWay(i) /\ UnderWay(j) => i = j
    /\ cron = "due" => \A j \in JobId : ~UnderWay(j)

\* There is one copy at most, of an upload.
RowsFit ==
    /\ \A c, d \in rows : c = d
    /\ \A c \in rows : jobs[c.source].kind = "ingest"

\* An upload that is done, or about to be, has left a copy.
UploadsLeaveRows ==
    /\ \A j \in JobId : jobs[j].kind = "ingest" /\ jobs[j].status = "done" => rows # {}
    /\ \A w \in Worker : /\ worker[w].phase = "finishing" /\ worker[w].outcome = "completed"
                         /\ jobs[worker[w].job].kind = "ingest"
                         => rows # {}

\* A worker in the seed transaction has the lock, has deleted what is there, and
\* replays an upload; past the guard of a recompute, what it will replace is not
\* of a newer upload that is alive.
StepFits(w) ==
    /\ worker[w].phase # "claimed" => step[w].at = "start"
    /\ step[w].at # "start" => step[w].source \in JobId
                               /\ jobs[step[w].source].kind = "ingest"
    /\ step[w].at \in {"locked", "guarded", "cleared"} => seedLock = w
    /\ step[w].at = "cleared" => step[w].cleared = rows
    /\ step[w].at \in {"guarded", "cleared"} /\ JobKind(w) = "recompute" =>
          \A c \in rows : c.source > step[w].source =>
              jobs[c.source].status \in {"failed", "dead"}

\* The inductive invariant, which rests on the one of the queue.
SeedInv ==
    /\ Inv
    /\ SeedTypeOK
    /\ OnlySeeds
    /\ RowsFit
    /\ UploadsLeaveRows
    /\ \A w \in Worker : StepFits(w)

\* Nothing is seeded, held or due.
LEMMA InitSeed == SeedInit => SeedInv
<1>. SUFFICES ASSUME SeedInit PROVE SeedInv
  OBVIOUS
<1>1. Inv
  BY InitInv DEF SeedInit
<1>2. /\ \A j \in JobId : jobs[j].kind = None /\ jobs[j].status = "absent"
      /\ \A w \in Worker : worker[w].phase = "idle" /\ step[w] = NoStep
      /\ rows = {} /\ seedLock = None /\ cron = "idle"
  BY DEF SeedInit, Init, NoJob, Idle
<1>3. "recompute" # None /\ "ingest" # None
  BY NoneAssumption DEF Kind, PlainKind
<1>4. SeedTypeOK
  BY DEF SeedInit, SeedTypeOK, NoStep
<1>5. OnlySeeds /\ RowsFit /\ UploadsLeaveRows
  BY <1>2, <1>3 DEF OnlySeeds, UnderWay, RowsFit, UploadsLeaveRows
<1>6. \A w \in Worker : StepFits(w)
  <2>0. NoStep.at = "start"
    BY DEF NoStep
  <2>1. \A w \in Worker : step[w].at = "start"
    BY <1>2, <2>0
  <2>. QED  BY <2>1 DEF StepFits
<1>. QED  BY <1>1, <1>4, <1>5, <1>6 DEF SeedInv

-----------------------------------------------------------------------------
(* What the queue does to the jobs                                           *)

\* No step takes the kind of a job away.
KindsKept == \A j \in JobId : jobs[j].kind # None => jobs'[j].kind = jobs[j].kind

\* A step that inserts no job gives none a kind, and puts none under way that was
\* not.
NothingNew ==
    \A j \in JobId : /\ jobs'[j].kind = jobs[j].kind
                     /\ jobs'[j].status \in {"queued", "running"}
                           => jobs[j].status \in {"queued", "running"}

\* What is over stays over.
OverStaysOver ==
    \A j \in JobId : jobs[j].status \in {"failed", "dead"} => jobs'[j].status = jobs[j].status

\* A worker that goes on, or is late, puts no job under way.
LEMMA WorkerMakesNothing ==
    ASSUME Inv, NEW w \in Worker,
           \/ \E j \in JobId : Claim(w, j)
           \/ \E out \in RunTerminal : HandlerReturns(w, out)
           \/ HandlerRaises(w) \/ Crash(w) \/ PollEmpty(w) \/ Settle(w)
    PROVE  NothingNew
<1>0. TypeOK /\ WellFormed
  BY DEF Inv
<1>1. CASE \E j \in JobId : Claim(w, j)
  <2>1. PICK j \in JobId : Claim(w, j)
    BY <1>1
  <2>2. /\ jobs[j].status \in {"queued", "running"}
        /\ \A k \in JobId \ {j} : jobs'[k] = jobs[k]
    BY <1>0, <2>1 DEF TypeOK, Claim, Claimable
  <2>3. jobs'[j].kind = jobs[j].kind
    <3>1. PICK n : n = jobs[j].attempts + 1
      OBVIOUS
    <3>2. jobs' = [jobs EXCEPT ![j] = [jobs[j] EXCEPT !.status = "running", !.lease = "live",
                                                      !.attempts = n]]
      BY <2>1, <3>1 DEF Claim
    <3>. QED  BY <1>0, <3>2 DEF TypeOK, JobRow
  <2>. QED  BY <2>2, <2>3 DEF NothingNew
<1>2. CASE UNCHANGED jobs
  BY <1>2 DEF NothingNew
<1>3. ASSUME NEW s, worker[w].phase # "idle", jobs[worker[w].job].status = "running",
             jobs' = [jobs EXCEPT ![worker[w].job].status = s]
      PROVE  NothingNew
  <2>1. PICK j \in JobId : j = worker[w].job
    BY <1>0, <1>3 DEF WellFormed
  <2>2. jobs' = [jobs EXCEPT ![j].status = s] /\ jobs[j].status = "running"
    BY <1>3, <2>1
  <2>3. \A k \in JobId : jobs'[k].kind = jobs[k].kind /\ (k # j => jobs'[k] = jobs[k])
    BY <1>0, <2>2, JobAfter
  <2>. QED  BY <2>2, <2>3 DEF NothingNew
<1>4. CASE DeadLetter(w)
  BY <1>3, <1>4 DEF DeadLetter, ClaimIsCurrent
<1>5. CASE Finish(w)
  BY <1>3, <1>5 DEF Finish, ClaimIsCurrent
<1>6. CASE RecordFailure(w)
  BY <1>3, <1>6 DEF RecordFailure, ClaimIsCurrent
<1>. QED  BY <1>1, <1>2, <1>4, <1>5, <1>6
          DEF HandlerReturns, HandlerRaises, Crash, PollEmpty, vars, Settle, Superseded,
              FinishRaises

\* A step of the queue keeps its invariant and what is over.
LEMMA QueueKeeps ==
    ASSUME Inv, [Next]_vars
    PROVE  Inv' /\ OverStaysOver
<1>1. NoReopening \/ UNCHANGED vars
  BY NextFinal
<1>2. OverStaysOver
  BY <1>1 DEF NoReopening, vars, OverStaysOver, JobTerminal
<1>. QED  BY <1>2, NextInv

-----------------------------------------------------------------------------
(* Frames                                                                    *)

\* What is known of a worker stays true as long as its memory and its place in
\* the handler are the same, and, if it holds the lock, the lock and the rows.
LEMMA StepKept ==
    ASSUME SeedInv, Inv', KindsKept, OverStaysOver, NEW v \in Worker,
           worker'[v] = worker[v], step'[v] = step[v],
           seedLock = v => seedLock' = v /\ rows' = rows
    PROVE  StepFits(v)'
<1>1. /\ StepFits(v) /\ WellFormed /\ RowsFit /\ rows \subseteq Copy
      /\ "ingest" # None /\ "recompute" # None
  BY NoneAssumption DEF SeedInv, Inv, SeedTypeOK, Kind, PlainKind
<1>2. step[v].at # "start" => /\ jobs'[step[v].source].kind = "ingest"
                              /\ step[v].source \in JobId
  BY <1>1 DEF StepFits, KindsKept
<1>3. worker[v].phase = "claimed" => jobs'[worker[v].job].kind = jobs[worker[v].job].kind
  BY <1>1, NoneAssumption DEF WellFormed, KindsKept
<1>4. \A c \in rows : jobs[c.source].status \in {"failed", "dead"} =>
          jobs'[c.source].status \in {"failed", "dead"}
  BY <1>1 DEF OverStaysOver, Copy
<1>5. step[v].at \in {"guarded", "cleared"} =>
          step[v].at # "start" /\ worker[v].phase = "claimed"
          /\ seedLock' = v /\ rows' = rows
  BY <1>1 DEF StepFits
<1>6. step'[v].at \in {"guarded", "cleared"} /\ JobKind(v)' = "recompute" =>
         \A c \in rows' : c.source > step'[v].source =>
            jobs'[c.source].status \in {"failed", "dead"}
  BY <1>1, <1>3, <1>4, <1>5 DEF StepFits, JobKind
<1>. QED  BY <1>1, <1>2, <1>6 DEF StepFits

\* The rows are still of an upload.
LEMMA RowsKept ==
    ASSUME SeedInv, KindsKept, rows' = rows
    PROVE  RowsFit'
<1>1. RowsFit /\ rows \subseteq Copy /\ "ingest" # None
  BY NoneAssumption DEF SeedInv, SeedTypeOK, Kind, PlainKind
<1>. QED  BY <1>1 DEF RowsFit, KindsKept, Copy

\* A step that inserts no job and sets no recompute due leaves one under way at
\* most.
LEMMA SeedsKept ==
    ASSUME SeedInv, NothingNew, cron' = cron
    PROVE  OnlySeeds' /\ KindsKept
<1>1. \A j \in JobId : UnderWay(j)' => UnderWay(j)
  BY DEF NothingNew, UnderWay
<1>. QED  BY <1>1 DEF SeedInv, OnlySeeds, NothingNew, KindsKept, UnderWay

\* Uploads still leave rows, if no row is taken away for good and what is newly
\* done, or about to be, has left one.
LEMMA UploadsKept ==
    ASSUME SeedInv, NothingNew, rows # {} => rows' # {},
           \A j \in JobId : jobs'[j].status = "done" =>
              jobs[j].status = "done" \/ jobs[j].kind # "ingest" \/ rows # {},
           \A v \in Worker : worker'[v].phase = "finishing" =>
              \/ worker'[v] = worker[v] /\ worker[v].job \in JobId
              \/ worker'[v].outcome # "completed"
              \/ jobs'[worker'[v].job].kind # "ingest"
              \/ rows' # {}
    PROVE  UploadsLeaveRows'
<1>1. UploadsLeaveRows
  BY DEF SeedInv
<1>2. ASSUME NEW j \in JobId, jobs'[j].kind = "ingest", jobs'[j].status = "done"
      PROVE  rows' # {}
  BY <1>1, <1>2 DEF NothingNew, UploadsLeaveRows
<1>3. ASSUME NEW v \in Worker, worker'[v].phase = "finishing",
             worker'[v].outcome = "completed", jobs'[worker'[v].job].kind = "ingest"
      PROVE  rows' # {}
  BY <1>1, <1>3 DEF NothingNew, UploadsLeaveRows
<1>. QED  BY <1>2, <1>3 DEF UploadsLeaveRows

\* The hooks of the proof of a worker's step: what it does to the queue, and what
\* is left to show.
LEMMA SeedFrame ==
    ASSUME SeedInv, [Next]_vars, NothingNew, cron' = cron, SeedTypeOK', NEW w \in Worker,
           \A v \in Worker \ {w} : /\ worker'[v] = worker[v] /\ step'[v] = step[v]
                                   /\ seedLock = v => seedLock' = v /\ rows' = rows,
           StepFits(w)', UploadsLeaveRows', rows' = rows \/ RowsFit'
    PROVE  SeedInv'
<1>1. Inv' /\ OverStaysOver
  BY QueueKeeps DEF SeedInv
<1>2. OnlySeeds' /\ KindsKept
  BY SeedsKept
<1>3. RowsFit'
  BY <1>2, RowsKept
<1>4. \A v \in Worker : StepFits(v)'
  BY <1>1, <1>2, StepKept
<1>. QED  BY <1>1, <1>2, <1>3, <1>4 DEF SeedInv

-----------------------------------------------------------------------------
(* Steps of the queue and of the cron                                        *)

\* An upload, or a recompute that is due, is put in the queue.
LEMMA InsertInv ==
    ASSUME SeedInv, NEW j \in JobId, Upload(j) \/ CronInsert(j)
    PROVE  SeedInv'
<1>1. PICK kind \in {"ingest", "recompute"} :
         /\ Enqueue(j, kind) /\ UNCHANGED <<rows, seedLock, step>>
         /\ kind = "ingest" => cron' = cron
         /\ kind = "recompute" => cron = "due" /\ cron' = "idle"
  BY DEF Upload, CronInsert, seedVars
<1>2. /\ jobs[j].status = "absent" /\ jobs[j].kind = None
      /\ jobs'[j].kind = kind /\ jobs'[j].status = "queued"
      /\ \A k \in JobId \ {j} : jobs'[k] = jobs[k]
      /\ UNCHANGED worker
  BY <1>1 DEF SeedInv, Inv, TypeOK, WellFormed, Enqueue, Insert, NoJob
<1>3. Inv' /\ OverStaysOver
  <2>1. Next
    BY <1>1 DEF Next, PlainKind
  <2>. QED  BY <2>1, QueueKeeps DEF SeedInv
<1>4. KindsKept
  BY <1>2 DEF KindsKept
<1>5. SeedTypeOK'
  BY <1>1 DEF SeedInv, SeedTypeOK
<1>6. OnlySeeds'
  <2>1. \A k \in JobId \ {j} : UnderWay(k)' <=> UnderWay(k)
    BY <1>2 DEF UnderWay
  <2>2. UnderWay(j)' => kind = "recompute"
    BY <1>2 DEF UnderWay
  <2>. QED  BY <1>1, <1>2, <2>1, <2>2 DEF SeedInv, OnlySeeds
<1>7. RowsFit'
  BY <1>1, <1>4, RowsKept
<1>8. UploadsLeaveRows'
  <2>1. \A w \in Worker : worker[w].phase = "finishing" =>
           worker[w].job \in JobId \ {j}
    BY <1>2 DEF SeedInv, Inv, WellFormed
  <2>. QED  BY <1>1, <1>2, <2>1 DEF SeedInv, UploadsLeaveRows
<1>9. \A w \in Worker : StepFits(w)'
  BY <1>1, <1>2, <1>3, <1>4, StepKept
<1>. QED  BY <1>3, <1>5, <1>6, <1>7, <1>8, <1>9 DEF SeedInv

\* A lease expires, or a recompute is found to be due.
LEMMA TimeInv ==
    ASSUME SeedInv,
           \/ \E j \in JobId : LeaseExpires(j) /\ UNCHANGED seedVars
           \/ CronCheck \/ UNCHANGED allVars
    PROVE  SeedInv'
<1>1. /\ UNCHANGED <<rows, seedLock, step, worker>>
      /\ [Next]_vars
      /\ cron' = cron \/ CronCheck
  BY DEF LeaseExpires, seedVars, CronCheck, vars, allVars, Next
<1>2. Inv' /\ OverStaysOver
  BY <1>1, QueueKeeps DEF SeedInv
<1>3. NothingNew /\ \A j \in JobId : jobs'[j].status = "done" => jobs[j].status = "done"
  <2>1. ASSUME NEW j \in JobId, LeaseExpires(j)
        PROVE  NothingNew /\ \A k \in JobId : jobs'[k].status = "done" => jobs[k].status = "done"
    BY <2>1 DEF SeedInv, Inv, TypeOK, LeaseExpires, NothingNew
  <2>2. CASE UNCHANGED jobs
    BY <2>2 DEF NothingNew
  <2>. QED  BY <2>1, <2>2 DEF CronCheck, allVars, vars
<1>4. SeedTypeOK'
  BY <1>1 DEF SeedInv, SeedTypeOK, CronCheck
<1>5. KindsKept
  BY <1>3 DEF NothingNew, KindsKept
<1>6. OnlySeeds'
  <2>1. CASE cron' = cron
    BY <1>3, <2>1, SeedsKept
  <2>2. CASE CronCheck
    <3>1. jobs' = jobs /\ \A j \in JobId : ~UnderWay(j)
      BY <2>2 DEF CronCheck, vars, Due, UnderWay
    <3>. QED  BY <3>1 DEF SeedInv, OnlySeeds, UnderWay
  <2>. QED  BY <1>1, <2>1, <2>2
<1>7. RowsFit' /\ \A w \in Worker : StepFits(w)'
  BY <1>1, <1>2, <1>5, RowsKept, StepKept
<1>8. UploadsLeaveRows'
  <2>1. \A w \in Worker : worker[w].phase = "finishing" => worker[w].job \in JobId
    BY DEF SeedInv, Inv, WellFormed
  <2>. QED  BY <1>1, <1>3, <2>1, UploadsKept
<1>. QED  BY <1>2, <1>4, <1>6, <1>7, <1>8 DEF SeedInv

-----------------------------------------------------------------------------
(* Steps of a worker                                                         *)

Place == [at : {"start", "resolved", "parsed", "locked", "guarded", "cleared"},
          source : JobId \cup {None}, cleared : SUBSET Copy]

\* A worker that goes on in the handler.
LEMMA AdvanceFields ==
    ASSUME SeedTypeOK, NEW w \in Worker,
           NEW stage \in {"start", "resolved", "parsed", "locked", "guarded", "cleared"},
           Advance(w, stage)
    PROVE  /\ step' \in [Worker -> Place] /\ \A v \in Worker \ {w} : step'[v] = step[v]
           /\ step'[w].at = stage /\ step'[w].source = step[w].source
           /\ step'[w].cleared = step[w].cleared
<1>1. step \in [Worker -> Place] /\ step' = [step EXCEPT ![w].at = stage]
  BY DEF SeedTypeOK, Place, Advance
<1>2. PICK x : x = [step[w] EXCEPT !.at = stage]
  OBVIOUS
<1>3. x \in Place /\ x.at = stage /\ x.source = step[w].source /\ x.cleared = step[w].cleared
  BY <1>1, <1>2 DEF Place
<1>4. step' = [step EXCEPT ![w] = x]
  BY <1>1, <1>2
<1>. QED  BY <1>1, <1>3, <1>4

\* A worker that is out of the handler.
LEMMA LeaveFields ==
    ASSUME SeedTypeOK, NEW w \in Worker, Leave(w)
    PROVE  /\ step' \in [Worker -> Place] /\ \A v \in Worker \ {w} : step'[v] = step[v]
           /\ step'[w].at = "start" /\ StepFits(w)'
<1>1. step \in [Worker -> Place] /\ step' = [step EXCEPT ![w] = NoStep]
  BY DEF SeedTypeOK, Place, Leave
<1>2. NoStep \in Place /\ NoStep.at = "start"
  BY DEF NoStep, Place
<1>3. step' \in [Worker -> Place] /\ step'[w] = NoStep
      /\ \A v \in Worker \ {w} : step'[v] = step[v]
  BY <1>1, <1>2
<1>. QED  BY <1>2, <1>3 DEF StepFits

\* A handler that returns.
LEMMA ReturnFields ==
    ASSUME Inv, NEW w \in Worker, NEW out \in RunTerminal, HandlerReturns(w, out)
    PROVE  /\ UNCHANGED jobs /\ \A v \in Worker \ {w} : worker'[v] = worker[v]
           /\ worker'[w].phase = "finishing" /\ worker'[w].outcome = out
           /\ worker'[w].job = worker[w].job /\ worker[w].job \in JobId
           /\ NothingNew /\ [Next]_vars
<1>1. /\ worker \in [Worker -> Memory] /\ UNCHANGED jobs /\ worker[w].phase = "claimed"
      /\ worker' = [worker EXCEPT ![w].phase = "finishing", ![w].outcome = out]
  BY DEF HandlerReturns, Inv, TypeOK
<1>2. PICK x : x = [worker[w] EXCEPT !.phase = "finishing", !.outcome = out]
  OBVIOUS
<1>3. x.phase = "finishing" /\ x.outcome = out /\ x.job = worker[w].job
  BY <1>1, <1>2 DEF Memory
<1>4. worker' = [worker EXCEPT ![w] = x]
  BY <1>1, <1>2
<1>5. worker[w].job \in JobId
  BY <1>1 DEF Inv, WellFormed
<1>6. NothingNew /\ [Next]_vars
  BY WorkerMakesNothing DEF Next, Handle
<1>. QED  BY <1>1, <1>3, <1>4, <1>5, <1>6

\* The jobs are those the workers of this tenant know.
LEMMA JobsAreSeeds ==
    ASSUME SeedInv, NEW w \in Worker, worker[w].phase # "idle"
    PROVE  /\ worker[w].job \in JobId
           /\ jobs[worker[w].job].kind \in {"ingest", "recompute"}
           /\ jobs[worker[w].job].kind \in Handled
BY NoneAssumption
   DEF SeedInv, Inv, WellFormed, OnlySeeds, Kind, PlainKind, Durable, Handled

\* A worker claims a job.
LEMMA StartInv ==
    ASSUME SeedInv, NEW w \in Worker, NEW j \in JobId, StartSeed(w, j)
    PROVE  SeedInv'
<1>1. /\ Claim(w, j) /\ [Next]_vars /\ NothingNew
      /\ UNCHANGED <<rows, seedLock, cron>> /\ step \in [Worker -> Place]
  BY WorkerMakesNothing DEF StartSeed, Next, Poll, SeedInv, SeedTypeOK, Place
<1>2. PICK x : /\ step' = [step EXCEPT ![w] = x]
               /\ \/ /\ jobs[j].kind = "ingest"
                     /\ x = [NoStep EXCEPT !.at = "resolved", !.source = j]
                  \/ x = NoStep
  BY DEF StartSeed
<1>3. /\ x \in Place /\ x.at \in {"start", "resolved"}
      /\ x.at # "start" => x.source = j /\ jobs[j].kind = "ingest"
  <2>1. NoStep \in Place /\ NoStep.at = "start"
    BY DEF NoStep, Place
  <2>2. CASE x = NoStep
    BY <2>1, <2>2
  <2>3. CASE jobs[j].kind = "ingest" /\ x = [NoStep EXCEPT !.at = "resolved", !.source = j]
    BY <2>3 DEF NoStep, Place
  <2>. QED  BY <1>2, <2>2, <2>3
<1>4. /\ step' \in [Worker -> Place] /\ step'[w] = x
      /\ \A v \in Worker \ {w} : step'[v] = step[v]
  BY <1>1, <1>2, <1>3
<1>5. SeedTypeOK'
  BY <1>1, <1>4 DEF SeedInv, SeedTypeOK, Place
<1>6. /\ worker'[w].phase = "claimed" /\ \A v \in Worker \ {w} : worker'[v] = worker[v]
      /\ \A k \in JobId : jobs'[k].status = "done" => jobs[k].status = "done"
  <2>1. worker \in [Worker -> Memory] /\ jobs \in [JobId -> JobRow]
    BY DEF SeedInv, Inv, TypeOK
  <2>2. PICK m : /\ worker' = [worker EXCEPT ![w] = m] /\ m.phase = "claimed"
    <3>. DEFINE m == [phase |-> "claimed", job |-> j, attempt |-> jobs[j].attempts + 1,
                      outcome |-> None]
    <3>1. worker' = [worker EXCEPT ![w] = m]
      BY <1>1 DEF Claim
    <3>2. m.phase = "claimed"
      OBVIOUS
    <3>. HIDE DEF m
    <3>. QED  BY <3>1, <3>2
  <2>3. \A k \in JobId \ {j} : jobs'[k] = jobs[k]
    BY <1>1, <2>1 DEF Claim
  <2>4. jobs'[j].status = "running"
    <3>1. PICK n : n = jobs[j].attempts + 1
      OBVIOUS
    <3>2. jobs' = [jobs EXCEPT ![j] = [jobs[j] EXCEPT !.status = "running", !.lease = "live",
                                                      !.attempts = n]]
      BY <1>1, <3>1 DEF Claim
    <3>. QED  BY <2>1, <3>2 DEF JobRow
  <2>. QED  BY <2>1, <2>2, <2>3, <2>4
<1>7. StepFits(w)'
  BY <1>1, <1>3, <1>4, <1>6 DEF StepFits, NothingNew
<1>8. UploadsLeaveRows'
  <2>1. \A v \in Worker : worker[v].phase = "finishing" => worker[v].job \in JobId
    BY DEF SeedInv, Inv, WellFormed
  <2>. QED  BY <1>1, <1>6, <2>1, UploadsKept
<1>. QED  BY <1>1, <1>4, <1>5, <1>6, <1>7, <1>8, SeedFrame

\* A worker settles its job, or drops it.
LEMMA SettleInv ==
    ASSUME SeedInv, NEW w \in Worker, Settle(w), UNCHANGED seedVars
    PROVE  SeedInv'
<1>1. /\ [Next]_vars /\ NothingNew /\ UNCHANGED <<rows, seedLock, step, cron>>
  BY WorkerMakesNothing DEF Next, seedVars, SeedInv
<1>2. worker[w].phase \notin {"idle", "claimed"}
  BY JobsAreSeeds DEF Settle, Superseded, DeadLetter, Finish, FinishRaises, RecordFailure
<1>3. step[w].at = "start"
  BY <1>2 DEF SeedInv, StepFits
<1>4. /\ worker'[w].phase # "finishing" /\ \A v \in Worker \ {w} : worker'[v] = worker[v]
  <2>1. worker \in [Worker -> Memory]
    BY DEF SeedInv, Inv, TypeOK
  <2>2. CASE Release(w)
    BY <2>1, <2>2 DEF Release, Idle
  <2>3. CASE FinishRaises(w)
    <3>1. PICK m : m = [worker[w] EXCEPT !.phase = "failing", !.outcome = None]
      OBVIOUS
    <3>2. worker' = [worker EXCEPT ![w] = m]
      BY <2>3, <3>1 DEF FinishRaises
    <3>3. m.phase = "failing"
      BY <2>1, <3>1 DEF Memory
    <3>. QED  BY <2>1, <3>2, <3>3
  <2>. QED  BY <2>2, <2>3 DEF Settle, Superseded, DeadLetter, Finish, RecordFailure
<1>5. SeedTypeOK'
  BY <1>1 DEF SeedInv, SeedTypeOK
<1>6. StepFits(w)'
  BY <1>1, <1>3 DEF StepFits
<1>7. \A j \in JobId : jobs'[j].status = "done" =>
         jobs[j].status = "done" \/ jobs[j].kind # "ingest" \/ rows # {}
  <2>0. TypeOK
    BY DEF SeedInv, Inv
  <2>1. CASE Finish(w)
    <3>1. PICK j \in JobId : j = worker[w].job
      BY <1>2, JobsAreSeeds
    <3>2. \A k \in JobId \ {j} : jobs'[k] = jobs[k]
      BY <2>0, <2>1, <3>1 DEF Finish, TypeOK
    <3>3. CASE worker[w].outcome = "failed"
      <4>1. jobs' = [jobs EXCEPT ![j].status = "failed"]
        BY <2>1, <3>1, <3>3 DEF Finish
      <4>2. jobs'[j].status = "failed"
        BY <2>0, <4>1, JobAfter
      <4>. QED  BY <3>2, <4>2
    <3>4. CASE worker[w].outcome # "failed" /\ jobs[j].kind = "ingest"
      <4>1. worker[w].phase = "finishing" /\ worker[w].outcome = "completed"
        BY <2>1, <3>1, <3>4 DEF Finish, SeedInv, Inv, WellFormed, Outcome
      <4>. QED  BY <3>1, <3>2, <3>4, <4>1 DEF SeedInv, UploadsLeaveRows
    <3>. QED  BY <3>2, <3>3, <3>4
  <2>2. ASSUME NEW s \in {"dead", "failed", "queued"}, NEW j \in JobId,
               jobs' = [jobs EXCEPT ![j].status = s]
        PROVE  \A k \in JobId : jobs'[k].status = "done" => jobs[k].status = "done"
    BY <2>0, <2>2, JobAfter
  <2>3. CASE DeadLetter(w) \/ RecordFailure(w)
    <3>1. worker[w].job \in JobId
      BY <1>2, JobsAreSeeds
    <3>2. \E s \in {"dead", "failed", "queued"} :
             jobs' = [jobs EXCEPT ![worker[w].job].status = s]
      BY <2>3 DEF DeadLetter, RecordFailure
    <3>. QED  BY <2>2, <3>1, <3>2
  <2>. QED  BY <2>1, <2>3 DEF Settle, Superseded, FinishRaises
<1>8. UploadsLeaveRows'
  <2>1. \A v \in Worker : worker[v].phase = "finishing" => worker[v].job \in JobId
    BY DEF SeedInv, Inv, WellFormed
  <2>. QED  BY <1>1, <1>4, <1>7, <2>1, UploadsKept
<1>. QED  BY <1>1, <1>4, <1>5, <1>6, <1>8, SeedFrame

\* The upload to replay is found and read, or is not.
LEMMA ReadInv ==
    ASSUME SeedInv, NEW w \in Worker, Resolve(w) \/ Parse(w)
    PROVE  SeedInv'
<1>1. /\ UNCHANGED <<rows, seedLock, cron>> /\ SeedTypeOK /\ Inv /\ WellFormed
      /\ step \in [Worker -> Place] /\ StepFits(w) /\ worker[w].phase = "claimed"
  BY DEF Resolve, Parse, Working, SeedInv, SeedTypeOK, Place, Inv
<1>2. "failed" \in RunTerminal
  BY DEF RunTerminal
<1>3. CASE HandlerReturns(w, "failed") /\ ((step' = step /\ step[w].at = "start") \/ Leave(w))
  <2>1. /\ UNCHANGED jobs /\ \A v \in Worker \ {w} : worker'[v] = worker[v]
        /\ worker'[w].outcome = "failed" /\ NothingNew /\ [Next]_vars
    BY <1>1, <1>2, <1>3, ReturnFields
  <2>2. /\ step' \in [Worker -> Place] /\ \A v \in Worker \ {w} : step'[v] = step[v]
        /\ step'[w].at = "start"
    BY <1>1, <1>3, LeaveFields
  <2>3. SeedTypeOK' /\ StepFits(w)'
    BY <1>1, <2>2 DEF SeedTypeOK, Place, StepFits
  <2>4. UploadsLeaveRows'
    <3>1. \A v \in Worker : worker[v].phase = "finishing" => worker[v].job \in JobId
      BY <1>1 DEF WellFormed
    <3>. QED  BY <1>1, <2>1, <3>1, UploadsKept
  <2>. QED  BY <1>1, <2>1, <2>2, <2>3, <2>4, SeedFrame
<1>4. ASSUME UNCHANGED vars, step' \in [Worker -> Place],
             \A v \in Worker \ {w} : step'[v] = step[v],
             step'[w].at \in {"resolved", "parsed"},
             step'[w].source \in JobId, jobs[step'[w].source].kind = "ingest"
      PROVE  SeedInv'
  <2>1. UNCHANGED <<jobs, worker>> /\ NothingNew
    BY <1>4 DEF vars, NothingNew
  <2>2. SeedTypeOK' /\ StepFits(w)'
    BY <1>1, <1>4, <2>1 DEF SeedTypeOK, Place, StepFits
  <2>3. UploadsLeaveRows'
    BY <1>1, <2>1 DEF SeedInv, UploadsLeaveRows
  <2>. QED  BY <1>1, <1>4, <2>1, <2>2, <2>3, SeedFrame
<1>5. CASE Resolve(w)
  <2>1. step[w].at = "start"
    BY <1>5 DEF Resolve, Working
  <2>2. CASE IngestIn({"done"}) = {}
    BY <1>3, <1>5, <2>1, <2>2 DEF Resolve
  <2>3. CASE IngestIn({"done"}) # {}
    <3>1. PICK latest \in IngestIn({"done"}) :
             step' = [step EXCEPT ![w].at = "resolved", ![w].source = latest]
      BY <1>5, <2>3 DEF Resolve
    <3>2. latest \in JobId /\ jobs[latest].kind = "ingest" /\ UNCHANGED vars
      BY <1>5, <2>3 DEF Resolve, IngestIn
    <3>3. PICK x : x = [step[w] EXCEPT !.at = "resolved", !.source = latest]
      OBVIOUS
    <3>4. x \in Place /\ x.at = "resolved" /\ x.source = latest
      BY <1>1, <3>2, <3>3 DEF Place
    <3>5. step' = [step EXCEPT ![w] = x]
      BY <1>1, <3>1, <3>3
    <3>6. step' \in [Worker -> Place] /\ step'[w] = x
          /\ \A v \in Worker \ {w} : step'[v] = step[v]
      BY <1>1, <3>4, <3>5
    <3>. QED  BY <1>4, <3>2, <3>4, <3>6
  <2>. QED  BY <2>2, <2>3
<1>6. CASE Parse(w)
  <2>1. CASE Advance(w, "parsed") /\ UNCHANGED vars
    <3>1. step[w].at = "resolved"
      BY <1>6 DEF Parse, Working
    <3>. QED  BY <1>1, <1>4, <2>1, <3>1, AdvanceFields DEF StepFits
  <2>2. CASE HandlerReturns(w, "failed") /\ Leave(w)
    BY <1>3, <2>2
  <2>. QED  BY <1>6, <2>1, <2>2 DEF Parse
<1>. QED  BY <1>5, <1>6

\* A worker goes on under the lock: it takes it, passes the guard or deletes.
LEMMA OnwardInv ==
    ASSUME SeedInv, NEW w \in Worker, UNCHANGED <<vars, rows, cron>>,
           worker[w].phase = "claimed", step[w].at # "start",
           step' \in [Worker -> Place], \A v \in Worker \ {w} : step'[v] = step[v],
           step'[w].at \in {"locked", "guarded", "cleared"},
           step'[w].source = step[w].source,
           step'[w].at = "cleared" => step'[w].cleared = rows,
           step'[w].at \in {"guarded", "cleared"} /\ JobKind(w) = "recompute" =>
              \A c \in rows : c.source > step[w].source =>
                 jobs[c.source].status \in {"failed", "dead"},
           seedLock' = w, seedLock \in {w, None}
    PROVE  SeedInv'
<1>1. UNCHANGED <<jobs, worker>> /\ [Next]_vars /\ NothingNew
  BY DEF vars, NothingNew
<1>2. StepFits(w) /\ SeedTypeOK
  BY DEF SeedInv
<1>3. SeedTypeOK'
  BY <1>2 DEF SeedTypeOK, Place
<1>4. StepFits(w)'
  BY <1>1, <1>2 DEF StepFits, JobKind
<1>5. UploadsLeaveRows'
  BY <1>1 DEF SeedInv, UploadsLeaveRows
<1>6. \A v \in Worker \ {w} : seedLock # v
  BY LockAssumption
<1>. QED  BY <1>1, <1>3, <1>4, <1>5, <1>6, SeedFrame

\* A worker is out of the seed transaction, and has not written.
LEMMA OutInv ==
    ASSUME SeedInv, NEW w \in Worker, Leave(w), Unlock(w), UNCHANGED <<rows, cron>>,
           [Next]_vars, NothingNew, UNCHANGED jobs,
           \A v \in Worker \ {w} : worker'[v] = worker[v],
           \/ worker'[w].phase # "finishing"
           \/ jobs[worker'[w].job].kind = "recompute"
    PROVE  SeedInv'
<1>1. SeedTypeOK /\ WellFormed
  BY DEF SeedInv, Inv
<1>2. /\ step' \in [Worker -> Place] /\ \A v \in Worker \ {w} : step'[v] = step[v]
      /\ StepFits(w)'
  BY <1>1, LeaveFields
<1>3. SeedTypeOK' /\ \A v \in Worker \ {w} : seedLock = v => seedLock' = v
  BY <1>1, <1>2 DEF SeedTypeOK, Place, Unlock
<1>4. UploadsLeaveRows'
  <2>1. \A v \in Worker : worker[v].phase = "finishing" => worker[v].job \in JobId
    BY <1>1 DEF WellFormed
  <2>2. \A v \in Worker : worker'[v].phase = "finishing" =>
           \/ worker'[v] = worker[v] /\ worker[v].job \in JobId
           \/ jobs'[worker'[v].job].kind # "ingest"
    BY <2>1
  <2>. QED  BY <2>2, UploadsKept
<1>. QED  BY <1>2, <1>3, <1>4, SeedFrame

\* The steps of the seed transaction that do not write.
LEMMA LockedInv ==
    ASSUME SeedInv, NEW w \in Worker, TakeLock(w) \/ Guard(w) \/ ClearRows(w)
    PROVE  SeedInv'
<1>1. /\ UNCHANGED <<rows, cron>> /\ SeedTypeOK /\ Inv /\ StepFits(w) /\ RowsFit
      /\ step \in [Worker -> Place] /\ worker[w].phase = "claimed"
      /\ step[w].at # "start" /\ seedLock \in {w, None}
  BY DEF TakeLock, Guard, ClearRows, Working, SeedInv, SeedTypeOK, Place, StepFits
<1>2. CASE TakeLock(w)
  <2>1. Advance(w, "locked") /\ seedLock' = w /\ UNCHANGED vars
    BY <1>2 DEF TakeLock
  <2>2. /\ step' \in [Worker -> Place] /\ \A v \in Worker \ {w} : step'[v] = step[v]
        /\ step'[w].at = "locked" /\ step'[w].source = step[w].source
    BY <1>1, <2>1, AdvanceFields
  <2>. QED  BY <1>1, <2>1, <2>2, OnwardInv
<1>3. CASE Guard(w)
  <2>1. CASE Newer(w) = {} /\ Advance(w, "guarded") /\ UNCHANGED <<vars, seedLock>>
    <3>1. /\ step' \in [Worker -> Place] /\ \A v \in Worker \ {w} : step'[v] = step[v]
          /\ step'[w].at = "guarded" /\ step'[w].source = step[w].source
      BY <1>1, <2>1, AdvanceFields
    <3>2. seedLock' = w
      BY <1>1, <1>3, <2>1 DEF Guard, Working, StepFits
    <3>3. ASSUME NEW c \in rows, c.source > step[w].source
          PROVE  jobs[c.source].status \in {"failed", "dead"}
      <4>1. c.source \in JobId /\ jobs[c.source].kind = "ingest"
        BY <1>1 DEF SeedTypeOK, RowsFit, Copy
      <4>2. jobs[c.source].status \in JobStatus \ {"absent"}
        BY <1>1, <4>1, NoneAssumption
           DEF Inv, TypeOK, JobRow, WellFormed, NoJob, Kind, PlainKind
      <4>3. jobs[c.source].status \notin {"queued", "running", "done"}
        BY <2>1, <3>3, <4>1 DEF Newer, IngestIn
      <4>. QED  BY <4>2, <4>3 DEF JobStatus
    <3>. QED  BY <1>1, <2>1, <3>1, <3>2, <3>3, OnwardInv
  <2>2. CASE HandlerReturns(w, "completed") /\ Leave(w) /\ Unlock(w)
    <3>1. "completed" \in RunTerminal
      BY DEF RunTerminal
    <3>2. /\ UNCHANGED jobs /\ \A v \in Worker \ {w} : worker'[v] = worker[v]
          /\ worker'[w].job = worker[w].job /\ NothingNew /\ [Next]_vars
      BY <1>1, <2>2, <3>1, ReturnFields
    <3>3. jobs[worker'[w].job].kind = "recompute"
      BY <1>3, <3>2 DEF Guard, JobKind
    <3>. QED  BY <1>1, <2>2, <3>2, <3>3, OutInv
  <2>. QED  BY <1>3, <2>1, <2>2 DEF Guard
<1>4. CASE ClearRows(w)
  <2>1. /\ step' = [step EXCEPT ![w].at = "cleared", ![w].cleared = rows]
        /\ UNCHANGED <<vars, seedLock>>
        /\ step[w].at \in {"locked", "guarded"}
        /\ step[w].at = "guarded" \/ JobKind(w) = "ingest"
    BY <1>4 DEF ClearRows, Working
  <2>2. PICK x : x = [step[w] EXCEPT !.at = "cleared", !.cleared = rows]
    OBVIOUS
  <2>3. x \in Place /\ x.at = "cleared" /\ x.source = step[w].source /\ x.cleared = rows
    BY <1>1, <2>2 DEF Place, SeedTypeOK
  <2>4. step' = [step EXCEPT ![w] = x]
    BY <1>1, <2>1, <2>2
  <2>5. /\ step' \in [Worker -> Place] /\ \A v \in Worker \ {w} : step'[v] = step[v]
        /\ step'[w] = x
    BY <1>1, <2>3, <2>4
  <2>6. seedLock' = w /\ (JobKind(w) = "recompute" =>
           \A c \in rows : c.source > step[w].source =>
              jobs[c.source].status \in {"failed", "dead"})
    BY <1>1, <2>1 DEF StepFits
  <2>. QED  BY <1>1, <2>1, <2>3, <2>5, <2>6, OnwardInv
<1>. QED  BY <1>2, <1>3, <1>4

\* The worker that commits holds the lock and has deleted all there is: one copy
\* is left, its own.
LEMMA CommitLeavesOne ==
    ASSUME SeedInv, NEW w \in Worker, CommitSeed(w)
    PROVE  /\ seedLock = w /\ worker[w].phase = "claimed"
           /\ rows' \subseteq Copy /\ rows' # {} /\ \A c, d \in rows' : c = d
           /\ \A c \in rows' : jobs[c.source].kind = "ingest"
<1>1. /\ worker[w].phase = "claimed" /\ step[w].at = "cleared" /\ StepFits(w)
      /\ worker[w] \in Memory /\ worker[w].job \in JobId
  BY JobsAreSeeds DEF CommitSeed, Working, SeedInv, Inv, TypeOK
<1>2. /\ seedLock = w /\ step[w].cleared = rows /\ step[w].source \in JobId
      /\ jobs[step[w].source].kind = "ingest" /\ worker[w].attempt \in Nat
  BY <1>1, MaxAttemptsAssumption DEF StepFits, Memory
<1>3. PICK c : /\ c = [source |-> step[w].source, job |-> worker[w].job,
                        attempt |-> worker[w].attempt]
               /\ rows' = (rows \ step[w].cleared) \cup {c}
  BY DEF CommitSeed
<1>4. c \in Copy /\ c.source = step[w].source
  BY <1>1, <1>2, <1>3 DEF Copy
<1>5. rows' = {c}
  BY <1>2, <1>3
<1>. QED  BY <1>1, <1>2, <1>4, <1>5

\* The seed commits.
LEMMA CommitInv ==
    ASSUME SeedInv, NEW w \in Worker, CommitSeed(w)
    PROVE  SeedInv'
<1>1. /\ HandlerReturns(w, "completed") /\ Leave(w) /\ Unlock(w) /\ cron' = cron
      /\ SeedTypeOK /\ Inv /\ WellFormed
  BY DEF CommitSeed, SeedInv, Inv
<1>2. "completed" \in RunTerminal
  BY DEF RunTerminal
<1>3. /\ UNCHANGED jobs /\ \A v \in Worker \ {w} : worker'[v] = worker[v]
      /\ NothingNew /\ [Next]_vars
  BY <1>1, <1>2, ReturnFields
<1>4. /\ step' \in [Worker -> Place] /\ \A v \in Worker \ {w} : step'[v] = step[v]
      /\ StepFits(w)'
  BY <1>1, LeaveFields
<1>5. /\ seedLock = w
      /\ rows' \subseteq Copy /\ rows' # {} /\ \A c, d \in rows' : c = d
      /\ \A c \in rows' : jobs[c.source].kind = "ingest"
  BY CommitLeavesOne
<1>6. SeedTypeOK' /\ RowsFit'
  BY <1>1, <1>3, <1>4, <1>5 DEF SeedTypeOK, Place, RowsFit, Unlock
<1>7. UploadsLeaveRows'
  BY <1>5 DEF UploadsLeaveRows
<1>. QED  BY <1>1, <1>3, <1>4, <1>5, <1>6, <1>7, SeedFrame

\* The transaction is rolled back.
LEMMA AbortInv ==
    ASSUME SeedInv, NEW w \in Worker, SeedRaises(w) \/ SeedCrash(w)
    PROVE  SeedInv'
<1>1. /\ Leave(w) /\ Unlock(w) /\ UNCHANGED <<rows, cron>> /\ UNCHANGED jobs
      /\ worker \in [Worker -> Memory]
      /\ (HandlerRaises(w) \/ Crash(w))
  BY DEF SeedRaises, SeedCrash, HandlerRaises, Crash, SeedInv, Inv, TypeOK
<1>2. NothingNew /\ [Next]_vars
  BY <1>1, WorkerMakesNothing DEF SeedInv, Next, Handle
<1>3. PICK x : worker' = [worker EXCEPT ![w] = x] /\ x.phase # "finishing"
  <2>1. CASE HandlerRaises(w)
    <3>1. PICK x : x = [worker[w] EXCEPT !.phase = "failing"]
      OBVIOUS
    <3>2. x.phase = "failing"
      BY <1>1, <3>1 DEF Memory
    <3>. QED  BY <2>1, <3>1, <3>2 DEF HandlerRaises
  <2>2. CASE Crash(w)
    <3>1. Idle.phase # "finishing"
      BY DEF Idle
    <3>. QED  BY <2>2, <3>1 DEF Crash, Release
  <2>. QED  BY <1>1, <2>1, <2>2
<1>4. worker'[w] = x /\ \A v \in Worker \ {w} : worker'[v] = worker[v]
  BY <1>1, <1>3
<1>5. worker'[w].phase # "finishing"
  BY <1>3, <1>4
<1>. QED  BY <1>1, <1>2, <1>4, <1>5, OutInv

-----------------------------------------------------------------------------
(* The theorems                                                              *)

\* Every step keeps the invariant.
LEMMA SeedStepInv ==
    ASSUME SeedInv, [SeedNext]_allVars
    PROVE  SeedInv'
<1>1. CASE UNCHANGED allVars
  BY <1>1, TimeInv
<1>2. ASSUME NEW j \in JobId, Upload(j) \/ CronInsert(j)
      PROVE  SeedInv'
  BY <1>2, InsertInv
<1>3. ASSUME NEW j \in JobId, LeaseExpires(j), UNCHANGED seedVars
      PROVE  SeedInv'
  BY <1>3, TimeInv
<1>4. CASE CronCheck
  BY <1>4, TimeInv
<1>5. ASSUME NEW w \in Worker, QueueStep(w)
      PROVE  SeedInv'
  <2>1. CASE PollEmpty(w)
    <3>1. UNCHANGED allVars
      BY <1>5, <2>1 DEF QueueStep, PollEmpty, allVars
    <3>. QED  BY <3>1, TimeInv
  <2>2. CASE Settle(w)
    BY <1>5, <2>2, SettleInv DEF QueueStep
  <2>. QED  BY <1>5, <2>1, <2>2 DEF QueueStep
<1>6. ASSUME NEW w \in Worker, SeedStep(w)
      PROVE  SeedInv'
  BY <1>6, ReadInv, LockedInv, CommitInv, AbortInv DEF SeedStep
<1>7. ASSUME NEW w \in Worker, NEW j \in JobId, StartSeed(w, j)
      PROVE  SeedInv'
  BY <1>7, StartInv
<1>. QED  BY <1>1, <1>2, <1>3, <1>4, <1>5, <1>6, <1>7 DEF SeedNext

\* The invariant of the tenant's data holds in every reachable state, whatever
\* overlaps.
THEOREM SeedInvariance == SeedSpec => []SeedInv
<1>1. SeedInit => SeedInv
  BY InitSeed
<1>2. SeedInv /\ [SeedNext]_allVars => SeedInv'
  BY SeedStepInv
<1>. QED  BY <1>1, <1>2, PTL DEF SeedSpec

\* A set whose members are all equal has one member at most.
LEMMA AtMostOne ==
    ASSUME NEW S, \A x, y \in S : x = y
    PROVE  Cardinality(S) <= 1
<1>1. CASE S = {}
  BY <1>1, FS_EmptySet
<1>2. ASSUME NEW x \in S
      PROVE  Cardinality(S) <= 1
  <2>1. S = {x}
    OBVIOUS
  <2>2. Cardinality({x}) = 1
    BY FS_Singleton
  <2>. QED  BY <2>1, <2>2
<1>. QED  BY <1>1, <1>2

\* The tables hold one copy of one dataset at most, and one once an upload is
\* done.
THEOREM OneCopyAlways == SeedSpec => []OneCopy
<1>1. SeedInv => OneCopy
  BY AtMostOne DEF SeedInv, RowsFit, UploadsLeaveRows, OneCopy, IngestIn
<1>. QED  BY <1>1, SeedInvariance, PTL

\* No two recomputes of the tenant are under way.
THEOREM RecomputesDoNotStack == SeedSpec => []OneRecomputeAtATime
<1>1. ASSUME SeedInv
      PROVE  OneRecomputeAtATime
  <2>. DEFINE U == {j \in JobId : /\ jobs[j].kind = "recompute"
                                  /\ jobs[j].status \in {"queued", "running"}}
  <2>1. \A i, j \in U : i = j
    BY <1>1 DEF SeedInv, OnlySeeds, UnderWay
  <2>2. Cardinality(U) <= 1
    <3>. HIDE DEF U
    <3>. QED  BY <2>1, AtMostOne
  <2>. QED  BY <2>2 DEF OneRecomputeAtATime
<1>. QED  BY <1>1, SeedInvariance, PTL

\* The rows change in the commit of the worker that has the lock.
LEMMA OnlyCommitsWrite ==
    ASSUME SeedInv, SeedNext, rows' # rows
    PROVE  \E w \in Worker : CommitSeed(w)
BY DEF SeedNext, Upload, CronInsert, CronCheck, seedVars, QueueStep, StartSeed, SeedStep,
       Resolve, Parse, TakeLock, Guard, ClearRows, SeedRaises, SeedCrash

\* A recompute that replaces the data of a newer upload finds that upload's job
\* failed or dead.
THEOREM RecomputesYield == SeedSpec => RecomputeYieldsToLiveUploads
<1>1. ASSUME SeedInv, SeedNext, rows' # rows, JobKind(seedLock) = "recompute",
             NEW c \in rows, c.source > step[seedLock].source
      PROVE  jobs[c.source].status \notin {"queued", "running", "done"}
  <2>1. PICK w \in Worker : CommitSeed(w)
    BY <1>1, OnlyCommitsWrite
  <2>2. seedLock = w
    BY <1>1, <2>1, CommitLeavesOne
  <2>3. step[w].at = "cleared" /\ StepFits(w)
    BY <1>1, <2>1 DEF CommitSeed, Working, SeedInv
  <2>. QED  BY <1>1, <2>2, <2>3 DEF StepFits
<1>2. SeedInv /\ [SeedNext]_allVars =>
         [rows' # rows /\ JobKind(seedLock) = "recompute" =>
            \A c \in rows : c.source > step[seedLock].source =>
               jobs[c.source].status \notin {"queued", "running", "done"}]_allVars
  BY <1>1
<1>. QED  BY <1>2, SeedInvariance, PTL DEF SeedSpec, RecomputeYieldsToLiveUploads

\* What the handlers do in between is no concern of the queue: every step of a
\* seed is a step of JobQueue, or none.
THEOREM SeedIsQueue == SeedSpec => Spec
<1>1. SeedInit => Init
  BY DEF SeedInit
<1>2. SeedInv /\ [SeedNext]_allVars => [Next]_vars
  <2>. SUFFICES ASSUME SeedInv, SeedNext PROVE [Next]_vars
    BY DEF allVars
  <2>1. "completed" \in RunTerminal /\ "failed" \in RunTerminal
    BY DEF RunTerminal
  <2>2. {"ingest", "recompute"} \subseteq PlainKind
    BY DEF PlainKind
  <2>3. ASSUME NEW j \in JobId,
               Upload(j) \/ CronInsert(j) \/ (LeaseExpires(j) /\ UNCHANGED seedVars)
        PROVE  [Next]_vars
    BY <2>2, <2>3 DEF Upload, CronInsert, Next
  <2>4. CASE CronCheck
    BY <2>4 DEF CronCheck
  <2>5. ASSUME NEW w \in Worker, QueueStep(w) \/ \E j \in JobId : StartSeed(w, j)
        PROVE  [Next]_vars
    BY <2>5 DEF QueueStep, StartSeed, Next, Poll
  <2>6. ASSUME NEW w \in Worker, SeedStep(w)
        PROVE  [Next]_vars
    BY <2>1, <2>6 DEF SeedStep, Resolve, Parse, TakeLock, Guard, ClearRows, CommitSeed,
                      SeedRaises, SeedCrash, Next, Handle
  <2>. QED  BY <2>3, <2>4, <2>5, <2>6 DEF SeedNext
<1>. QED  BY <1>1, <1>2, SeedInvariance, PTL DEF SeedSpec, Spec
=============================================================================
