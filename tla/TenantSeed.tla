----------------------------- MODULE TenantSeed -----------------------------
(***************************************************************************)
(* What the ingest and recompute handlers do to one tenant's data between  *)
(* the claim and the terminal update of JobQueue: resolve which upload to  *)
(* replay, validate it, take the tenant's advisory lock, check that no     *)
(* newer upload supersedes it, and replace the seeded rows                 *)
(* (pg/worker.py, pg/ingest.py, pg/seed.py), together with the nightly     *)
(* enqueue of recomputes (migration 20260724000014).                       *)
(*                                                                         *)
(* The seed transaction is open from the lock to the commit, so its steps  *)
(* are separate actions: what its DELETE sees is what was committed when   *)
(* it ran, not what is committed when it commits.                          *)
(***************************************************************************)
EXTENDS JobQueue, FiniteSets

ASSUME LockAssumption == None \notin Worker

VARIABLES rows,      \* the copies of a dataset in the tenant's seeded tables
          seedLock,  \* who holds pg_advisory_xact_lock(tenant), or None
          step,      \* how far each worker is inside the handler
          cron       \* enqueue_due_recomputes between its query and its insert

seedVars == <<rows, seedLock, step, cron>>
allVars  == <<vars, seedVars>>

\* A copy of the dataset is a record of the upload it comes from, and of the job and
\* the attempt that wrote it.  A handler is at "start", "resolved", "parsed",
\* "locked", "guarded" or "cleared".
NoStep == [at |-> "start", source |-> None, cleared |-> {}]

SeedInit ==
    /\ Init
    /\ rows = {}
    /\ seedLock = None
    /\ step = [w \in Worker |-> NoStep]
    /\ cron = "idle"

-----------------------------------------------------------------------------

IngestIn(statuses) ==
    {j \in JobId : jobs[j].kind = "ingest" /\ jobs[j].status \in statuses}

\* IngestJobStore.create: each upload is a batch of its own.
Upload(j) == Enqueue(j, "ingest") /\ UNCHANGED seedVars

\* Fault: the deduplication of the enqueue looks at waiting jobs only.
DueUnlessQueued ==
    /\ IngestIn({"done"}) # {}
    /\ \A j \in JobId : jobs[j].kind \in {"ingest", "recompute"}
                            => jobs[j].status # "queued"

\* enqueue_due_recomputes: the tenant has something to replay and no job under
\* way.  The query and the insert do not see concurrent inserts in between.
Due ==
    /\ IngestIn({"done"}) # {}
    /\ \A j \in JobId : jobs[j].kind \in {"ingest", "recompute"}
                            => jobs[j].status \notin {"queued", "running"}

CronCheck ==
    /\ cron = "idle"
    /\ Due
    /\ cron' = "due"
    /\ UNCHANGED <<vars, rows, seedLock, step>>

CronInsert(j) ==
    /\ cron = "due"
    /\ Enqueue(j, "recompute")
    /\ cron' = "idle"
    /\ UNCHANGED <<rows, seedLock, step>>

\* An ingest job replays its own batch; a recompute has yet to find out which.
StartSeed(w, j) ==
    /\ Claim(w, j)
    /\ step' = [step EXCEPT ![w] =
                   IF jobs[j].kind = "ingest"
                   THEN [NoStep EXCEPT !.at = "resolved", !.source = j]
                   ELSE NoStep]
    /\ UNCHANGED <<rows, seedLock, cron>>

Working(w, stage) ==
    /\ worker[w].phase = "claimed"
    /\ step[w].at = stage

JobKind(w) == jobs[worker[w].job].kind

Advance(w, stage) == step' = [step EXCEPT ![w].at = stage]
Leave(w)  == step' = [step EXCEPT ![w] = NoStep]

\* The transaction of worker w, if it has one open, ends.
Unlock(w) == seedLock' = IF seedLock = w THEN None ELSE seedLock

\* _last_done_ingest, or a controlled failure when there is none.
Resolve(w) ==
    /\ Working(w, "start")
    /\ LET done == IngestIn({"done"})
       IN  IF done = {}
           THEN HandlerReturns(w, "failed") /\ UNCHANGED step
           ELSE /\ \E latest \in done :
                      /\ \A j \in done : j <= latest
                      /\ step' = [step EXCEPT ![w].at = "resolved",
                                              ![w].source = latest]
                /\ UNCHANGED vars
    /\ UNCHANGED <<rows, seedLock, cron>>

\* Download, parse and validate: errors fail the job before anything is written.
Parse(w) ==
    /\ Working(w, "resolved")
    /\ \/ Advance(w, "parsed") /\ UNCHANGED vars
       \/ HandlerReturns(w, "failed") /\ Leave(w)
    /\ UNCHANGED <<rows, seedLock, cron>>

\* Fault: the seed does not take the advisory lock.
TakeNoLock(w) ==
    /\ Working(w, "parsed")
    /\ seedLock' = w
    /\ Advance(w, "locked")
    /\ UNCHANGED <<vars, rows, cron>>

\* pg_advisory_xact_lock blocks until the transaction that holds it ends.
TakeLock(w) ==
    /\ Working(w, "parsed")
    /\ seedLock = None
    /\ seedLock' = w
    /\ Advance(w, "locked")
    /\ UNCHANGED <<vars, rows, cron>>

\* Fault: the guard of the first review round, which looked for done uploads.
NewerDone(w) == {j \in IngestIn({"done"}) : j > step[w].source}

\* _newer_ingest_job_id
Newer(w) == {j \in IngestIn({"queued", "running", "done"}) : j > step[w].source}

\* A recompute asks again, under the lock, whether it is superseded; the job is
\* then done without a seed.  An upload never asks.
Guard(w) ==
    /\ Working(w, "locked")
    /\ JobKind(w) = "recompute"
    /\ \/ /\ Newer(w) = {}
          /\ Advance(w, "guarded")
          /\ UNCHANGED <<vars, seedLock>>
       \/ /\ Newer(w) # {}
          /\ HandlerReturns(w, "completed")
          /\ Leave(w)
          /\ Unlock(w)
    /\ UNCHANGED <<rows, cron>>

\* The engine runs; seed_store then deletes the rows its statement sees.
ClearRows(w) ==
    /\ \/ Working(w, "guarded")
       \/ Working(w, "locked") /\ JobKind(w) = "ingest"
    /\ step' = [step EXCEPT ![w].at = "cleared", ![w].cleared = rows]
    /\ UNCHANGED <<vars, rows, seedLock, cron>>

\* seed_store inserts and commits, which releases the lock.  Nothing here
\* checks that the claim is still current.
CommitSeed(w) ==
    /\ Working(w, "cleared")
    /\ rows' = (rows \ step[w].cleared) \cup
                  {[source |-> step[w].source, job |-> worker[w].job,
                    attempt |-> worker[w].attempt]}
    /\ Unlock(w)
    /\ HandlerReturns(w, "completed")
    /\ Leave(w)
    /\ UNCHANGED cron

\* An exception or a crash rolls the open transaction back.
SeedRaises(w) ==
    /\ HandlerRaises(w)
    /\ Leave(w)
    /\ Unlock(w)
    /\ UNCHANGED <<rows, cron>>

SeedCrash(w) ==
    /\ Crash(w)
    /\ Leave(w)
    /\ Unlock(w)
    /\ UNCHANGED <<rows, cron>>

-----------------------------------------------------------------------------

QueueStep(w) ==
    /\ PollEmpty(w) \/ Settle(w)
    /\ UNCHANGED seedVars

SeedStep(w) ==
    \/ Resolve(w) \/ Parse(w) \/ TakeLock(w) \/ Guard(w) \/ ClearRows(w)
    \/ CommitSeed(w) \/ SeedRaises(w) \/ SeedCrash(w)

SeedNext ==
    \/ \E j \in JobId : \/ Upload(j) \/ CronInsert(j)
                        \/ LeaseExpires(j) /\ UNCHANGED seedVars
    \/ CronCheck
    \/ \E w \in Worker : \/ QueueStep(w) \/ SeedStep(w)
                         \/ \E j \in JobId : StartSeed(w, j)

SeedSpec == SeedInit /\ [][SeedNext]_allVars

-----------------------------------------------------------------------------
(* Properties                                                                *)

\* Whatever overlaps (a reclaimed ingest still running, a recompute next to an
\* upload), the tenant's tables hold one copy of one dataset: never two, and
\* never none once an upload is done ("leaving exactly one copy", ingest.py).
OneCopy ==
    /\ Cardinality(rows) <= 1
    /\ IngestIn({"done"}) # {} => rows # {}

\* A recompute never replaces the data of a newer upload whose job is queued,
\* running or done when it does: the race of the two review rounds in
\* worker.py, with the window between seed commit and status = 'done'.
RecomputeYieldsToLiveUploads ==
    [][rows' # rows /\ JobKind(seedLock) = "recompute" =>
          \A c \in rows : c.source > step[seedLock].source =>
              jobs[c.source].status \notin {"queued", "running", "done"}]_allVars

\* The nightly enqueue does not stack a recompute on a tenant that has one
\* under way ("a double cron firing enqueues nothing extra").
OneRecomputeAtATime ==
    Cardinality({j \in JobId : /\ jobs[j].kind = "recompute"
                               /\ jobs[j].status \in {"queued", "running"}}) <= 1
=============================================================================
