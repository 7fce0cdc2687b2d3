# Verification of aeronta-inventory

TLA+ models of the inventory planner: the Postgres job queue and its workers, the seeding of a tenant's data, the
audited writeback ledger, the planner's decisions, the nightly extract and feature store, the event lane, the eMRO
writeback service, and the algorithms that turn an upload or an extract into recommendations and plans. TLC checks
small instances of every model; TLAPS proves the central invariants of the seven state machines for every value of the
constants, and the central properties of the pure algorithms for every input of the types their contracts give.

Paths below are relative to `src/`; `pg/` stands for `services/agent-spine/src/trax_io_spine/pg/`, `spine/` for the
package above it, `reco/` for `services/recommendation-engine/src/trax_io_reco/`, `fs/` for
`services/feature-store/src/trax_io_feature_store/`, `java/` for
`services/emro-writeback-java/src/main/java/trax/io/writeback/`.

## 1. Inventory

| part | code | state | operations | interacts with |
|---|---|---|---|---|
| job queue, worker | `pg/worker.py`, migration `…06_c2_auth_jobs` | `jobs` rows (status, attempts, `claimed_at`); a worker's claimed job | claim, reclaim, reap, run handler, finish, retry, dead-letter | runs, seeds |
| planning and replay runs | `pg/planning.py`, `pg/replay.py`, migrations `…16`, `…17` | `planning_runs`, `replay_runs`, selections, scorecards | submit, claim, retry, fail, persist | job queue (same transactions) |
| uploads, ingest, seeding | `pg/uploads.py`, `pg/ingest.py`, `pg/seed.py`, migration `…14` | the tenant's seeded tables, an advisory lock | upload, nightly enqueue, seed, recompute | job queue, decisions |
| upload intake | `reco/ingest/`, `reco/data/extract_loader.py` | none | validate, map, load | seeding, engine |
| writeback ledger | `pg/writeback.py`, `spine/writeback/target.py` | `writeback_ledger` rows; each call's reads | write, shadow write, rollback | decisions |
| planner decisions | `pg/store.py` | `recommendations.status`, `decisions`, `kill_switches` | approve, bulk approve, reject, defer, roll back, kill switch | ledger, seeds |
| nightly extract | `tools/nightly-extract` | landed files, manifest | extract, land, publish | feature store |
| feature store | `fs/glue/`, `fs/iceberg_store.py`, `fs/online_*.py` | append-only tables, markers, the run ledger, generations | Glue jobs, population, pinned reads | extract, event lane, engine |
| event publisher, event lane | `services/event-publisher`, `spine/event_lane/`, `spine/supervisor.py`, `spine/guardrail/` | ids accepted and seen, dead letters | publish with retries, ingest once, recommend, write | online store, writeback target |
| eMRO writeback (Java) | `services/emro-writeback-java` | Oracle level rows, ledger, orders, Kafka topics | write, roll back, consume, create orders | ERP |
| recommendation engine | `reco/service.py` and what it calls | none | one work list to one batch | feature store, frontiers |
| candidate frontiers, portfolio | `reco/candidate/`, `reco/portfolio/` | none | options of a key; a plan under a budget | planning runs |
| repair pipeline and returns | `reco/position/repair_pipeline.py`, `reco/repair_returns.py` | none | reconcile open repair lines with work in progress; what is expected back | no caller outside the tests yet |
| replay evaluation | `reco/replay/`, `reco/contracts/replay.py` | none | source package → request → scorecard | replay runs (`pg/worker.py:1032`, `pg/replay.py:955`) |
| planner API | `spine/bff/app.py`, `*_routes.py`, `tenant_registry.py` | caches of stores | HTTP routes on a thread pool | all stores |
| value report | `spine/bvr/`, `pg/store.py` (`bvr`) | `bvr_cache` | compute, cache, invalidate | decisions, seeds |
| members | `pg/members.py` | `memberships` | invite, change role, remove | Supabase auth |
| billing functions | `supabase/functions` | `stripe_events`, `subscriptions`, `tenants` | webhook, checkout | Stripe |
| forecasting | `services/forecasting` | none | pure computation | runs |
| web, site, infra, deploy | `apps`, `packages`, `infra`, `deploy` | none of the core's | | |

**What is hard.** Every worker and every web thread opens a transaction per step, at READ COMMITTED, and may die
between any two of them. A claim is a lease that can be lost while its handler runs. A seed replaces rows that
other requests have just read. Between two ledger calls stands only a primary key. Feature jobs append to tables
without transactions across them, and readers have to pick one run. Events and Kafka messages are lost, repeated and
reordered. The algorithms each decide by themselves which rows count, and validators far from the computation refuse
what does not reconcile. Each hazard, at its line, is in `PROJECT.json` under `hazards`.

**What makes each modelled part correct.**
- *Queue*: an attempt number is a fencing token; a job and its run never disagree; what is settled stays so;
  a result is that of the last attempt; what was accepted settles.
- *Seed*: exactly one copy of one dataset; a recompute never replaces the data of a newer live upload.
- *Ledger*: versions 1, 2, 3 …; parents link to the last change of the levels; one call at a time, it behaves as
  the in-memory target.
- *Decisions*: every write has an approval of its own; one approval per recommendation; none while the kill switch
  is engaged; no recompute takes an entry out of the ledger.
- *Extract and feature store*: what is served is of one complete run, and not of an older date than before; zeros
  are observed; a store that boots holds one population.
- *Event lane*: nothing is lost silently; a recommendation is written once; levels do not go back; what is written
  unattended is within the band.
- *eMRO writeback*: one unbroken chain of versions; one order per request; no write undoes another unseen; every
  message let go is accounted for.
- *Algorithms*: see the `algorithms` run.

## 2. Modules

| module | models | abstract specification | checked by | proofs |
|---|---|---|---|---|
| `JobQueue` | jobs, runs and workers | `RunOutcome` | `MCJobQueue` | `JobQueueProofs` |
| `TenantSeed` (extends `JobQueue`) | handlers of ingest and recompute, the nightly enqueue | | `MCTenantSeed` | `JobQueueProofs` |
| `WritebackLedger` | `PgWritebackTarget` | `AuditedTarget` | `MCWritebackLedger` | `WritebackLedgerProofs` |
| `PlannerDecisions` (extends `WritebackLedger`) | `PgPlannerStore`'s decisions, with seeds next to them | | `MCPlannerDecisions` | `PlannerDecisionsProofs` |
| `FeaturePipeline` | extract runs, Glue jobs, run ledger, population, readers | | `MCFeaturePipeline` | `FeaturePipelineProofs` |
| `EventLane` | publisher, endpoint, ingestor, supervisor, guardrail | | `MCEventLane` | `EventLaneProofs` |
| `EmroWriteback` | the Java service | | `MCEmroWriteback` | `EmroWritebackProofs` |
| `Cases` | one call of a pure function as one step | | `MCAlgorithms` | `AlgorithmProofs` |
| `FeatureTransforms` (extends `Cases`) | what each Glue job makes of its rows | | `MCAlgorithms` | `AlgorithmProofs` |
| `Uploads` (extends `FeatureTransforms`) | validate, mapper and loader of an upload | | `MCAlgorithms` | `AlgorithmProofs` |
| `Recommendations` (extends `Cases`) | `RecommendationService._run` | | `MCAlgorithms` | `AlgorithmProofs` |
| `Candidates` (extends `Recommendations`) | the frontier of a key | | `MCAlgorithms` | `AlgorithmProofs` |
| `Portfolio` (extends `Candidates`) | `PortfolioOptimizer.solve` and its explanations | | `MCAlgorithms` | `AlgorithmProofs` |
| `RepairWork` (extends `Cases`) | `build_repair_pipeline`, `project_repair_returns` and the validators of their contracts | | `MCAlgorithms` | `AlgorithmProofs` |
| `Replay` (extends `Cases`) | `build_trusted_replay_request`, `build_shadow_scorecard` and the validators of their contracts | | `MCAlgorithms` | `AlgorithmProofs` |
| `Algorithms` (extends the six above) | all of them as one specification, over any sets of cases | | `MCAlgorithms` | `AlgorithmProofs` |
| `FiniteSums` | no code: facts about finite sets, sums and counting that `AlgorithmProofs` rests on | | | itself |

A definition whose comment begins with `Fault:` is a plausible bug of the definition below it. No specification uses
it; each property is known to fail when one of them takes the place of the real definition (`mutants` in
`PROJECT.json`).

### JobQueue
`jobs` and `runs` are the tables, `worker` what each process remembers. `run_once` is three transactions, and each
is one action: `Claim` / `ReapExhausted` / `PollEmpty` (lines 511-563), `HandlerReturns` / `HandlerRaises`, and one
of `Finish`, `RecordFailure`, `DeadLetter`, `Superseded`. `FinishRaises` is the terminal transaction rolling back,
which the worker answers with a failure transaction. `Crash` forgets what the worker holds; `LeaseExpires` is the
passing of `STALE_SECONDS`. `FOR UPDATE SKIP LOCKED` is `RowLocked`: a row may be passed over when another worker is
in a position to hold it. The lifecycle hooks of planning and replay run in the same transactions and are conjuncts
of the actions. Where a hook refuses, it raises, the transaction rolls back and nothing happens: a blocking guard
(`RunClaimable`, `RunRunning`), and `JobRunAgree` is what shows that it never blocks. A job of kind `bvr` has no
handler and stands for the kinds that end as dead letters.

`RunOutcome` is what a submitter is promised: one run per request, pending until it settles, settled once, evidence
to read exactly when it completed. The refinement maps `queued` and `running` to pending.

### TenantSeed
Opens up the handler between claim and terminal update: `Resolve` (which upload does a recompute replay), `Parse`,
`TakeLock` (`pg_advisory_xact_lock`), `Guard` (`_superseded_reason`, recomputes only), `ClearRows` (the DELETE sees
what is committed when it runs), `CommitSeed`. A row of the seeded tables carries the upload, the job and the attempt
it comes from, so a copy is one record. `CronCheck` and `CronInsert` are the query and the insert of
`enqueue_due_recomputes`. The rest of the queue is `JobQueue`, with `StartSeed` for its `Claim`.

### WritebackLedger and AuditedTarget
One (tenant, part, location). A call goes through the statements of `write` and `_record` one by one: `StartWrite`,
`NotRecorded` or `Replay`, `DeferForOpenOrder` or `ReadLevels`, `ReadVersion`, `Commit` or `VersionTaken` (the unique
violation). `StartRollback` is the read of `rollback`. An idempotency key stands for the levels it writes. The levels
themselves are derived, as in the code. `AuditedTarget` is `InMemoryWritebackTarget`, one step per call, which keeps
the levels next to the history.

### PlannerDecisions
`approve` is three transactions: `StartApprove` (kill switch), `Approve` or `RefuseApproval` (row locks, status,
decision), then `BeginWrite` and the ledger's own steps. `bulk_approve` selects its targets once and approves each of
them through the same steps. `BeginRollback` / `RollbackReturns` / `RecordRollback` are the two transactions of
`rollback`. `Overrule` is `reject` and `defer`. `Recompute` replaces the recommendations and preserves ledger and
kill switch; an upload is two actions, `ClearForUpload` and `SeedUpload`, because a write that is under way can commit
in between. `RequestDies` loses a request with its open transaction.

An approval locks `kill_switches` and then `recommendations`; an upload deletes them in the other order. Postgres
breaks that deadlock by aborting one side. In the model decisions wait for an open upload (`RowsFree`); the abort is
covered by `RequestDies` and `AbandonUpload`.

### FeaturePipeline
`RunExtract` lands a manifest with a status for each domain; an extract that is aborted leaves nothing to read.
`AppendRows`, `AppendMarker` and `JobDies` are one Glue job each for a group's table and its marker: tables are
append-only, so a position in one stands for an `ingested_at`. `AppendLedger` is the run-status job.
`StartPopulation` pins the latest run, `ReadBundle` reads one key, `BeginPopulation` and `CommitPopulation` stage and
swap a generation with a conditional write, `PopulationFails` is its death. `Snapshot` and `FetchBundle`
are a planner store that boots: it pins a generation with its keys and reads them one by one; `Release` ends it.

### EventLane
`Publish`, `Answered`, `RefusedForGood` and `NoAnswer` are the publisher's loop with its retry limit, over a transport
that may lose the request or the answer. `Ingest` is `EventIngestor.ingest` up to the handler, which remembers the id
first. `ReadKey` reads one bundle, `Orchestrate` asks the engine, `WriteRec` and `PassRec` are the supervisor's loop
over recommendations with the guardrail's verdict (`Enforce`). `HandlerRaises` may happen at any of them, `Restart`
forgets the seen ids (they are in memory), and `Populate` replaces the snapshot between any two reads. What the engine
recommends for a key in a generation is a constant, because it is the same whenever it is asked.

### EmroWriteback
One (tenant, part, location) in the customer's database. `WriteStep` is the pipeline of one row, one action per
statement another transaction can come between: idempotency lookup, row lock, read, version, update and ledger insert,
with the retries for version conflicts and audit keys, and commits whose answer is lost. `ConsumerStep` is the Kafka
consumer (batch, results, dead letters, redelivery, death), `ClientStep` a REST thread (levels, requisition, transfer,
rollback). `EditLevel` and `Deactivate` are eMRO's own users. Requisitions and transfers extend the same chain without
taking the level's lock, as in the code.

### Cases and the algorithms
A case is an argument of a pure function; `Computes` applies the function, once, to the case. `AlgorithmInit` takes
any case of `CaseSets`, a set of sets of cases, so a run is a check of every input in them. `CaseAssumption` says that
each case has the types of the columns and contracts it comes from (`Typed`): numbers, finitely many rows, the fields
of a record, and what a contract's own validators say of one value (an option is feasible exactly when nothing speaks
against it, a frontier holds one option that changes nothing); for a work list (`WorkListTyped`) finitely many keys,
quantities and levels that are not negative, locations that are
never the `None` of an absent one, and no lines in a group that was not read; promised and observed times are whole
days. TLC evaluates it on every case of the run. Where the code leaves open which of several rows wins
(Spark's `dropDuplicates`, a solver at its time limit) a function returns the set of its possible results.

*FeatureTransforms*: a raw row is the fields that decide what becomes of it; quantities are in tenths, so that
rounding to the even matters. *Uploads*: files are sequences of rows whose cells are names, numbers or the two ways to
be unreadable; `RunIngest` validates, maps and loads. *Recommendations*: the windows of demand, what a key has and
is due, pools of interchangeable parts, the four recommenders, arbitration, the validators of evidence, the ranking.
Stocking formulas are an input. *Candidates*: the groups of actions a key may take, the position after each, pruning.
*Portfolio*: the integer program as the set of plans that meet it, the lexicographic optimum pass by pass, and a
solver that may stop after any pass; then the reasons shown for what was not chosen. *RepairWork*: the rows of a
snapshot reconciled with the work in progress, step by step (rows without identity, lines and serials on several rows,
what objects to a row, the capacity that is left, the grants in order), and the expected returns with their bounds; of
a lognormal duration the 99 percentiles are given. *Replay*: a package of past decisions becomes a request, by the cutoff of every artifact, and
the request a scorecard, over all and by cohort; every validator of `contracts/replay.py` is a conjunct. Hashes are the
values they are taken of, decimals are whole numbers.

## 3. Runs

| run | result | bounds | shows |
|---|---|---|---|
| `queue` | holds | 2 workers, 2 jobs, 2 attempts, 1 planning and 1 replay request | job and run agree, results are of the last attempt, `RunOutcome` is implemented with its fairness: accepted runs settle |
| `seed_safety` | holds | 2 workers, 3 jobs, 2 attempts | one copy, recompute yields, one recompute at a time |
| `ledger_concurrent` | holds | 2 callers, 2 live and 1 shadow key, 6 entries | versions and parent links under overlap |
| `ledger_serial` | holds | 1 caller, 5 entries | the in-memory target is implemented |
| `planner_decisions` | holds | 2 callers, 2 keys, 1 upload and 1 recompute, 3 entries | decisions under races, seeds and deaths |
| `planner_gap` | violated | 2 callers, 2 uploads | a write across an upload leaves a gap in the versions |
| `feature_pipeline` | holds | 2 dates, 2 groups, 2 keys, 2 extracts, 2 appends per table, 2 populations, 1 reader | one whole run is served, in date order, and a store that boots holds one population |
| `event_lane` | holds | 2 events on 2 keys, 2 attempts, 2 snapshots, 1 restart, 1 malformed delivery | delivery, writing once, monotonic levels, guarded writes; publications return |
| `event_lost` | violated | the same | an event whose handler raised is in no dead-letter queue |
| `emro_writeback` | holds | 1 consumer, 1 client with 2 requests, a batch of 2 rows, every kind of row, 2 tries of each retry | the chain, one order per key, levels follow the ledger, messages are accounted for |
| `emro_rollback` | violated | the same | a rollback that does not revert the latest entry |
| `algorithms` | holds | 61,114 states, two for each input | the properties of the pure functions |

What the `algorithms` run asks:

| property | question |
|---|---|
| `CanonicalVendorIsBest` | has the row made up for a part the terms of a best vendor, reserved name or not? |
| `LeadTimeEvidenceIsWhole` | does every observed cycle count, and are percentiles days that were observed? |
| `PlanningKeysAreAnswered` | has every key that is planned for a row in each table, and an empty one only if it is? |
| `EvidenceIsAccepted` | does any combination of receipts, orders and pools make a validator raise out of the batch? |
| `NoContradiction` | is a key told to bring in and to give away? |
| `ShortageIsReplenishedOnce` | is a shortage that a pool shares bought by exactly one of its members, in full? |
| `AdviceIsOffered` | is what the planner is told an option of the frontier a plan chooses from? |
| `PlanIsFeasibleAndBest` | is a plan within budget and floors, refused only if there is none, and best when it says so, counting what was pruned? |
| `RejectionsAreTrue` | are the reasons shown for alternatives true of the whole plan? |
| `AcceptedUploadIsWhole` | does what the validator accepts survive the mapper and the loader? |
| `RepairCreditIsConservative` | is each unit on repair credited or excluded, once, and never beyond the work in progress? |
| `ReturnsAreBelievable` | are the returns that are expected possible, and conditional on what has not come back yet? |
| `LateEvidenceIsExcluded` | does what became known too late stay out of a replay, and spoil no other record? |
| `ScorecardHolds` | does every accepted request get a scorecard that its contract accepts, and no paradox between cohorts and whole? |

Why the bounds are enough. A reclaim needs two workers and one job; a job passed over or overtaken needs two jobs; a
recompute over an older upload with a newer one alive needs three. Two attempts distinguish retry from last attempt;
three is the code's own limit. Two calls are the smallest overlap, and six entries let two of them conflict on a
version again after a write, a rollback and a shadow write. Two keys let a bulk approval go on after its first
target; one recompute after an upload gives a request recommendations that vanish under it. Two extracts of two dates
arrive in either order; two appends repeat a job; two populations overlap a reader and each other's swap. Two events
share a key and differ in another; one restart replays what was seen. Two live writes, a shadow write, an order and a
rollback meet in the eMRO chain, with one conflict beyond a first retry. The boxes of the algorithms were chosen so
that every branch of every function is taken: three interchangeable parts in every kind of relation (chains,
triangles, one way), options that tie, dominate and break floors, files with each rule broken once, repair rows that
share a line or a serial or lack an identity, records late in any one artifact. Symmetry is used
for workers, callers and keys in safety runs only. Deadlock is checked for the queue, the seed, the ledger, the
decisions and the eMRO service, which can always go on; the extract, the events and the algorithms come to an end
when their bounds are used up.

The violated runs are the findings of `PROJECT.json`: each is a sentence of a comment or document that the code does
not keep, with the shortest trace that breaks it.

## 4. Fairness

`JobQueue`: `run_forever` polls without end and the platform restarts dead workers, so each worker gets weak fairness
on claiming or reaping, on its handler and on its terminal transaction; time passes, so each lease gets weak fairness
on expiring. Nothing forces a job to be enqueued, and nothing keeps a worker from dying at every attempt: that accepted
runs settle (`ImplementsFairRunOutcome`) holds because each claim uses up an attempt.

`EventLane`: a publication that has begun sleeps for a bounded time and goes on, so each event gets weak fairness on
its call being answered, refused or left without an answer. Which of these happens is never forced: `PublicationsReturn`
holds because every loss uses up an attempt. Nothing is assumed of the ingestor.

## 5. Proofs

`JobQueueProofs` (any number of workers, jobs, requests and attempts). The inductive invariant `Inv` is made of
`TypeOK`, `JobRunAgree`, `FencingTokens`, `OneJobPerRun` (no request has two jobs), `ResultFromLastAttempt` and
`WellFormed`: a row is blank until inserted, a job in the queue has an attempt left, exactly the durable jobs point at
a run, a busy worker holds an existing row. The last is needed because a claim may only raise an attempt number that
is below the limit, and because a terminal transaction must find a run behind its job. From `Inv` follow type
correctness, the agreement of job and run, fencing, one job per run, the origin of results, the action property
`SettledIsFinal`, and the refinement `ImplementsRunOutcome` (initial states map to initial states, every step to an
accepted run, a settled run or a stutter). There is one lemma per action, with a step for each part of `Inv` the
action can disturb. Assumptions: job ids are naturals, `MaxAttempts` is at least 1, planning and replay requests are
disjoint, `None` is no value of its own kind.

`WritebackLedgerProofs` (any number of callers, keys and entries). The inductive invariant `LedgerInv` adds
`LedgerTypeOK` and `Bookkeeping`: the version a call is about to insert is at most one above the number of entries,
and if it is exactly that, the parent it has read is still the last written entry. So an insert either conflicts or
extends the ledger by one with a right link. From it follow type correctness, `VersionsContiguous` and
`ParentIsLatestWritten`.

Its second half (any number of keys and entries) is the refinement. With one caller at most (`OneCaller`; with two whose calls
overlap it is false, see section 6) the ledger implements `AuditedTarget`. `HistoryFits` says that the derived history
has the ledger's rows in the order of their versions, so its last written row is the latest written entry.
`SerialInv`, inductive on top of `LedgerInv`: the key of a call that is past its lookup is still unused, the old levels
it has read are still the current ones, and a rollback holds what the latest written entry replaced. So a commit is
one `Write`, `WriteShadow` or `Rollback` of the target, and every other step a stutter.

The second half of `JobQueueProofs` (any number of workers, jobs and uploads) is about seeds. Every step of a seed is a step of the queue or leaves it
alone (`SeedIsQueue`), so `Inv` holds of it as well. `SeedInv` adds the types, that one recompute is under way and
none while one is due (`OnlySeeds`), that there is one copy at most, of an upload (`RowsFit`), that an upload that is
done has left one (`UploadsLeaveRows`), and `StepFits`: a worker between the lock and its commit holds the lock, and
what it deleted is all there is, so what it inserts is the only copy; past a recompute's guard, a newer upload in the
tables has failed or is dead. From it follow `OneCopy`, `OneRecomputeAtATime`, `RecomputeYieldsToLiveUploads`.
Assumption: `None` is no worker.

`PlannerDecisionsProofs` (any number of callers, recommendations, uploads and recomputes). `DecisionInv` says that a
pending recommendation has no approval and one not seeded yet does not exist (`Decided`), that a write under way
carries the key of its request and a rollback none (`RequestFits`), and `Balanced`: for each key, the writes made and
those under way are no more than its approvals. Sets are finite, and the two sides of that count change together: an
approval adds one to its side before a write can begin. From it follow `WritesAreApproved`, `ApprovedOnce` and
`NoApprovalWhileEngaged`; `LedgerIsAppendOnly` is proved for a tenant that uploads once, because before the first
upload the ledger is empty and nothing is under way. (With a second upload it fails, by the code's own design.)

`FeaturePipelineProofs` (any number of extracts, groups, keys, appends and readers). `PipelineInv`: a job that has not
marked its rows appended them last, and every marker names a batch of its own run (`TablesFit`); what is served, and
what a population has read, is of marked batches of one run that covers them, with nothing lost of its stock
(`GenerationsFit`, `PopulationFits`); and the run of a population is at least as new as all that is served, because
every run served is in the ledger and the newest of the ledger was pinned. Tables only grow, so what was marked stays
so. That a bounded set of numbers has a maximum (`BoundedMax`) comes from the well-foundedness of the naturals. From
it follow `ServedFromOneRun`, `DemandIsObserved` and `ServingNeverGoesBack`; with `StoresFit`, that what a store has
read and has still to read is the generation it has pinned, `StoreIsOnePopulation`.

`EventLaneProofs` (any number of events, keys, attempts and restarts). `LaneInv`: the bundles an orchestration holds
are of different keys, each at least as new as all that was written of its key; the target has a result for every
write it made; and no write is of a snapshot still to come. `PublisherInv` ties the publisher's loop to what it has
emitted and set aside. From them follow `NothingLostSilently`, `OneWritePerSnapshot`, `LevelsNeverGoBack` and
`UnattendedWritesAreSafe`. Assumption: the keys of an event are finitely many.

`EmroWritebackProofs` (any number of consumers, clients, rows, batches and retries). `EmroInv` is made of the types,
of the run's four invariants, and of what a call, and a delivery, remembers: the version a call has computed is at
most the next one, so an insert that does not conflict takes exactly the next (`CallFits`); a live write holds the row
lock, and the old levels it has read are still those after the last entry; the answers of a batch are those of its
first rows (`DeliveryFits`); the ledger is finite and its versions are 1 to its size (`LedgerFilled`). From it follow
`ChainIsWhole`, `OneOrderPerKey`, `LevelsFollowLedger` and `AckedIsAccounted`.

`AlgorithmProofs` (cases of any size with the types of `CaseAssumption`: any rows, records, menus and numbers). A
behaviour computes one function on one case, so each property is a fact about the values the function returns
(`AnswersAreComputed`), and the work is in the functions.
- *Sums* (`FiniteSums`). The functions add up with the fold of the community modules, whose definition chooses a recursive function.
  That there is exactly one (`SumUnique`) is shown by induction over subsets, written out with the well-founded order
  of the naturals; from it follow the laws everything else uses: the sum over one more element, over a union, by
  groups, of a multiple, and that a smaller function has a smaller sum.
- *Tables.* `PlanningKeysAnswered`: the empty rows that are added are exactly those of the keys without rows, and a
  total is zero exactly when no line is open, since open quantities cannot be negative. `CanonicalVendor`: the ranking
  of the vendors is a strict order, so a finite set of offers has a first.
- *Repair.* `RepairCredit`: the rows fall into four sets by what becomes of them; those credited are one for each
  line; what is granted line after line stays within the capacity by induction over the lines before it; so what is
  credited, cut and excluded adds up to all that the snapshot tells of.
- *Returns.* Products of counts obey the laws of sums, by the same induction over finite sets (`ProductAtMost`). The repairs at risk on a
  day are at least those that end on it (`RiskIs`), so each curve of survival, whether the product of the observed days, the
  share of the percentiles of a distribution or a promise, is a count that falls with the days (`SurvivalFalls`).
  Quotients rise and fall with their parts (`QuotientRises`, `QuotientFalls`), so the chance of a return rises with the
  horizon and is that of a repair which has not come back yet (`ChanceRises`), what is expected is between nothing and
  all that is eligible (`HorizonIs`, `HorizonRises`), and every pipeline passes its validators: `ReturnsBelieved`.
- *Replay.* `LateEvidence`: a record with anything late has a violation whichever artifact it is, so removing it
  beforehand gives the same request. `Scorecards`: the cohorts partition the observations, every amount is the sum of
  those of the cohorts, so each validator of a scorecard follows from one of the request's; and since both policies
  are measured on one demand, rates compare as the filled units do, which add up, so no paradox is possible.
- *Recommendations.* `AcceptedEvidence`: each contribution of a served key reconciles, sums of reconciled parts do, and
  the state of a pool is that of its members exactly as the validator asks, so no evidence is refused. At most one
  recommendation of each type is proposed for a key (`ProposedAre`); what is ranked is all that was recommended, because
  the five numbers it is ranked by are a strict total order in which every place is taken (`EveryPlaceIsTaken`,
  `RankedAre`). From this follow `NothingContradicts`, since what brings a part in is proposed only where the pool is
  short and arbitration drops what gives it away there, and `ReplenishedOnce`: of a pool that is seen alike only the
  first member is the representative (`OneRepresents`), and a transfer with the purchase of what it leaves covers the
  shortage, with rounding up and the smallest order accounted for (`BroughtByOne`).
- *Plans.* Dominance is a strict order (`DominanceIsStrict`) and a dominating option costs no more, is worth no less
  and meets every floor (`BetterOption`), so from any choice there is an eligible one that is as good
  (`PlanIsAsGood`): pruning loses nothing. The minimum budget is what the cheapest eligible options cost together, so
  the check before the solver is exact (`PlansExist`). A maximal worth exists since the best options bound it. From
  these follow `BestPlans` and `TrueRejections`: what an option would cost in the cheapest plan that holds it is the
  number the explanation compares with the budget.

- *Lead times.* The days of a group in order are the sequence whose i-th entry is the day that
  fewer than i cycles stay below and at least i do not exceed (`SortedIs`): such a day exists, so the sequence rises, is
  as long as there are cycles and holds only their days. A rank rounded to the even moves an order by less than one place (`HalfEvenIsNear`, `RanksInOrder`), so
  the percentiles are in order and each is one of the days (`DistributionIs`). The row over all vendors is made of
  every good cycle of the lane, and a promise is used only for a lane that has none: `WholeLeadTimes`.
- *Frontiers.* What the actions of an option move is what is bought, fetched and given away (`ActionsAddUp`), and an
  option of each horizon is made of the groups of actions which are possible then, so each passes its validator
  (`OptionIsAccepted`) and no frontier is refused. The other half ties two components together: a recommendation rests
  on the evidence of one horizon, the frontier takes its position from the same evidence when the horizons agree, and
  the quantity advised is what the option's groups hold (`OptionsAre`, `AdvisedAre`, `AdviceIsInAnOption`); so
  `OfferedAdvice`.
- *Uploads.* Each row of a file passes every check or its error is among the errors, and there are none (`NothingFails`,
  `RowsPass`), so the cells the mapper and the loader read are there. What the mapper looks for in the windows is what
  validation has found (`WindowFits`), so nothing raises. A part in stock that is sold new has a vendor's price or, if no
  vendor lists it, its own cost, and both come with a promise (`StockIsPriced`). The months of a place add up to all its
  demand, group by group (`DemandAddsUp`); the observed repairs of the parts are counted once each
  (`CyclesAreCounted`, `RepairsAreLoaded`): `WholeUploads`. `UploadTyped` says what the parser returns: known files,
  sequences of rows, numbers and dates in whole units of the model.

What is only model-checked is liveness (`PublicationsReturn`, `ImplementsFairRunOutcome`: reasoning under fairness is out
of the prover's reach). Every other property of a passing run is a theorem.

## 6. Disagreements

Found while reading and modelling. The first three are runs; the others are what the models do, because the code does
it, next to what a document says.

- A write across an upload leaves a gap in the versions (`planner_gap`; `pg/seed.py:204`).
- An event whose handler raises is in no dead-letter queue (`event_lost`; `spine/event_lane/ingestor.py:105`).
- A rollback may revert another entry than the latest (`emro_rollback`; `java/domain/RollbackService.java:81`).
- A job without a run behind it that loses its worker in the third attempt stays `running`: neither `_CLAIM` nor
  `_EXHAUSTED_DURABLE` selects it (`pg/worker.py:423-445`). The multi-tenant design
  (`docs/superpowers/specs/2026-07-24-c5-multi-tenant-serving-design.md:191`) promises "retry ×3 → `failed`".
- The recompute's guard skips uploads that failed because "neither ever wrote data" (`pg/worker.py:793`). An upload
  commits its seed before its job is finished, and can fail after that, by dying in its last attempt.
- A reclaimed ingest that is late seeds over an upload that came after it: the advisory lock, which "actually makes an
  overlapping reclaim harmless" (`pg/worker.py:16`), orders the two, but an ingest has no guard.
- Two overlapping writes with one idempotency key both insert (`pg/writeback.py:122`): the lookup and the insert are
  different statements and the key is not unique. The in-memory target "must match" (`pg/writeback.py:3`) cannot.
- An approval whose write was lost is refused when it is repeated, since the recommendation is no longer pending
  (`pg/store.py:355`). The plan of C1 says "the ledger's idempotency key makes a retried approve safe".
- A run that is `degraded` is served like any other: the reader returns its status and asks nothing of it
  (`fs/iceberg_store.py:214`). The manifest contract holds ingestion
  (`docs/contracts/2026-04-17-extract-manifest-contract.md:61`, `:133`).
- A value report that was computed before a decision can be put back into the cache after the decision deleted it
  (`pg/store.py:1106`).
- An accepted upload whose only price for a part is a repair price leaves it without any: the mapper derives the
  `DEFAULT` vendor only for parts without vendor rows (`reco/ingest/mapper.py:391`), and the validator is satisfied
  with any row, though "every stock part needs a positive commercial cost source" (`reco/ingest/validate.py:407`). The
  property is stated for parts that are sold new.
- A demand of 0 for a rotable is loaded as one removal (`reco/data/extract_loader.py:558`).
- Interchangeability that is one-way somewhere in a triangle makes pools that differ from member to member. A
  shortage is then bought twice, or by nobody, though it is to be "replenished once, not once per member"
  (`reco/service.py:108`). The property is stated for pools that are the same for all their members. A chain of three
  parts, each interchangeable with the next, is never one pool: a member's group are its direct neighbours.
- Arbitration sees one key. Two members of a pool may be told to buy and to sell, and what one location has to spare is
  offered to every one that is short.
- In a pool, what `ADJUST`, `REDUCE` and `SELL` rest on is the member's own position, which the frontier cannot
  reconcile with the pooled one: they are not among its options (`AdviceIsOffered` is stated accordingly). Every
  member's frontier carries the whole pooled shortage but only the representative can act on it, so a floor on another
  member cannot be met, and a plan counts the shortage more than once.
- The smallest budget that is reported for an infeasible request leaves out the keys that have no option at all.

## 7. Left out, and the plan

Abstracted in the modelled parts: the formulas of stocking policies and forecasts (floating point), hashes and
identifiers, formatting, file parsing, row-level security and roles, reads, the rollback window (a refusal of
`StartRollback`, whose effect is none), the guardrail's Cedar policy, the solver's tolerances, the quantiles of
a lognormal duration (given), pooled loading of interchangeable uploads.

Not modelled, in the order of the plan:
1. `StripeSync`: webhook deduplication and the order of subscription events.
2. `ValueReport`: the cached value report against decisions and seeds.

Not planned: the members' last-owner guard (it locks all owners before it counts them, one transaction per operation),
the routes of the API and the in-memory store (the same operations on one thread), forecasting
(statistics without state), the web applications, infrastructure and deployment.
