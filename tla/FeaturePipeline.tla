--------------------------- MODULE FeaturePipeline ---------------------------
(***************************************************************************)
(* The nightly extract (tools/nightly-extract) and the feature store of    *)
(* one tenant (services/feature-store): an extract lands one artifact for  *)
(* each domain and a manifest last; one Glue job for each feature group    *)
(* appends the rows of a manifest to an Iceberg table and then a marker;   *)
(* the run-status job appends the manifest to the ledger of runs, which    *)
(* starts the population of the online store: it pins a run, copies its    *)
(* keys into an invisible generation and swaps the tenant's pointer.       *)
(*                                                                         *)
(* Tables are append-only and each job has one run at a time, so a         *)
(* position in a table stands for the ingested_at of its row.              *)
(***************************************************************************)
EXTENDS Integers, Sequences, FiniteSets, SequencesExt, FiniteSetsExt

CONSTANTS Date,           \* extract dates, numbers
          Key,            \* (part, location) pairs
          Group,          \* feature groups, of FeatureGroup
          Night,          \* how an extract may end: a status of each domain,
                          \* and the keys its stock_amount holds
          Reader,         \* serving processes
          MaxRuns,        \* bound on the extract runs
          MaxAppends,     \* bound on the appends to each table
          MaxPopulations  \* bound on the population runs

FeatureGroup == {"stock_position", "demand_history", "lead_time_distribution"}

VARIABLES manifests,   \* the manifests that are landed, one for each finished run
          job,         \* the run each group's Glue job has appended but not marked
          batches,     \* for each group's table, the run of each batch appended
          markers,     \* rows of feature_batch_status, by group
          ledger,      \* rows of extract_run_status
          population,  \* the run of the online population job
          generations, \* the generations committed, in order
          reader       \* for each serving process, the generation it has pinned,
                       \* the keys it has still to read and the bundles it has read

pipelineVars == <<manifests, job, batches, markers, ledger,
                  population, generations, reader>>

\* What the jobs of each group read.
Sources(g) ==
    CASE g = "stock_position" -> {"stock_amount"}
      [] g = "demand_history" -> {"demand_history_rotables", "demand_history_expendables"}
      [] g = "lead_time_distribution" -> {"pn_vendor_price", "order_plan_closed_orders"}

\* One source is enough for these; the other groups need each of theirs.
AnySource == {"lead_time_distribution"}

Domain == UNION {Sources(g) : g \in Group}

\* Oracle errors are the domain's own; an artifact that cannot be landed ends the
\* run where it is.
DomainOutcome == {"succeeded", "failed", "aborted"}

ASSUME PipelineAssumption ==
    /\ Date \subseteq Nat
    /\ Group \subseteq FeatureGroup
    /\ "stock_position" \in Group
    /\ \A n \in Night : /\ n.status \in [Domain -> DomainOutcome]
                        /\ n.keys \subseteq Key
    /\ {MaxRuns, MaxAppends, MaxPopulations} \subseteq Nat

Run      == 1..MaxRuns
Succeeded(m) == {d \in Domain : m.status[d] = "succeeded"}

NoJob     == 0
NoRead    == 0
Idle      == [phase |-> "idle", run |-> 0, todo |-> {}, bundles |-> <<>>, base |-> 0]
NotPinned == [gen |-> 0, todo |-> {}, bundles |-> <<>>]

PipelineInit ==
    /\ manifests = <<>>
    /\ job = [g \in Group |-> NoJob]
    /\ batches = [g \in Group |-> <<>>]
    /\ markers = [g \in Group |-> <<>>]
    /\ ledger = <<>>
    /\ population = Idle
    /\ generations = <<>>
    /\ reader = [r \in Reader |-> NotPinned]

-----------------------------------------------------------------------------
(* The extract.                                                            *)

\* The domains run one after the other.  Nothing reads their artifacts before the
\* manifest, which is the last object to land: an aborted run leaves no trace.
RunExtract(d) ==
    /\ Len(manifests) < MaxRuns
    /\ \E n \in Night :
          /\ \A x \in Domain : n.status[x] # "aborted"
          /\ manifests' = Append(manifests, [date |-> d, status |-> n.status,
                                             keys |-> n.keys])
    /\ UNCHANGED <<job, batches, markers, ledger, population,
                   generations, reader>>

-----------------------------------------------------------------------------
(* The Glue jobs.                                                          *)

\* Fault: the demand job takes whichever of its domains has succeeded.
CoveredByOne(g, m) == Sources(g) \cap Succeeded(m) # {}

\* A demand job without one of its domains cannot tell no demand from no data.
Covered(g, m) ==
    IF g \in AnySource THEN Sources(g) \cap Succeeded(m) # {}
                       ELSE Sources(g) \subseteq Succeeded(m)

AppendRows(g, r) ==
    /\ job[g] = NoJob
    /\ r \in DOMAIN manifests
    /\ Covered(g, manifests[r])
    /\ Len(batches[g]) < MaxAppends
    /\ batches' = [batches EXCEPT ![g] = Append(@, r)]
    /\ job' = [job EXCEPT ![g] = r]
    /\ UNCHANGED <<manifests, markers, ledger, population,
                   generations, reader>>

\* The marker is of the rows just appended, and makes them visible.
AppendMarker(g) ==
    /\ job[g] # NoJob
    /\ markers' = [markers EXCEPT ![g] = Append(@, [run |-> job[g],
                                                    batch |-> Len(batches[g])])]
    /\ job' = [job EXCEPT ![g] = NoJob]
    /\ UNCHANGED <<manifests, batches, ledger, population,
                   generations, reader>>

\* The rows stay without a marker; the job may be started again.
JobDies(g) ==
    /\ job[g] # NoJob
    /\ job' = [job EXCEPT ![g] = NoJob]
    /\ UNCHANGED <<manifests, batches, markers, ledger,
                   population, generations, reader>>

\* Nothing makes this job wait for the others.
AppendLedger(r) ==
    /\ r \in DOMAIN manifests
    /\ Len(ledger) < MaxAppends
    /\ ledger' = Append(ledger, r)
    /\ UNCHANGED <<manifests, job, batches, markers, population,
                   generations, reader>>

-----------------------------------------------------------------------------
(* What a reader of the tables sees.                                       *)

\* Fault: the newest row of the ledger, whatever its date.
LatestRow(rows) == Last(rows)

\* The newest date of the ledger, and its newest row.
LatestRun(rows) ==
    LET dates == {manifests[rows[i]].date : i \in DOMAIN rows}
    IN  rows[Max({i \in DOMAIN rows : manifests[rows[i]].date = Max(dates)})]

\* The statuses of the pinned run must cover the group.
SourcesAvailable(g, r) == Covered(g, manifests[r])

Completed(g, r) == {i \in DOMAIN markers[g] : markers[g][i].run = r}

\* Fault: the last batch appended for the date, marked or not.
TableCutoff(g, r) ==
    Max({i \in DOMAIN batches[g] :
            manifests[batches[g][i]].date = manifests[r].date})

\* The batch of the last completion marker of the pinned run.
Cutoff(g, r) == markers[g][Max(Completed(g, r))].batch

\* The rows of a group for one key: those of the batch, or none.
ScanLatest(g, r, k) ==
    IF /\ SourcesAvailable(g, r)
       /\ Completed(g, r) # {}
       /\ k \in manifests[batches[g][Cutoff(g, r)]].keys
    THEN Cutoff(g, r) ELSE NoRead

\* The keys of the stock batch of the pinned run; without it the job fails.
InferenceKeys(r) ==
    IF ~SourcesAvailable("stock_position", r) THEN {}
    ELSE manifests[batches["stock_position"][Cutoff("stock_position", r)]].keys

KeysAvailable(r) ==
    SourcesAvailable("stock_position", r) => Completed("stock_position", r) # {}

\* A group that has no row for the key is absent from its bundle.
MaterializeBundle(r, k) == [g \in Group |-> ScanLatest(g, r, k)]

-----------------------------------------------------------------------------
(* The population of the online store.                                     *)

\* A commit to the ledger starts the job at least once, at any time after it; the
\* job's runs are queued.  The run is chosen once, and everything is read as of it.
StartPopulation ==
    /\ ledger # <<>> /\ population = Idle
    /\ Len(generations) < MaxPopulations
    /\ LET r == LatestRun(ledger)
       IN  population' = IF KeysAvailable(r)
                         THEN [Idle EXCEPT !.phase = "reading", !.run = r,
                                           !.todo = InferenceKeys(r)]
                         ELSE Idle
    /\ UNCHANGED <<manifests, job, batches, markers, ledger,
                   generations, reader>>

\* Fault: the run is looked up for every key.
ReadLatest(k) ==
    /\ population.phase = "reading" /\ k \in population.todo
    /\ LET b == MaterializeBundle(LatestRun(ledger), k)
       IN  population' = [population EXCEPT !.todo = @ \ {k},
                             !.bundles = IF b["stock_position"] = NoRead THEN @
                                         ELSE [x \in DOMAIN @ \cup {k} |->
                                                  IF x = k THEN b ELSE @[x]]]
    /\ UNCHANGED <<manifests, job, batches, markers, ledger,
                   generations, reader>>

\* A key without its stock position is left out.
ReadBundle(k) ==
    /\ population.phase = "reading" /\ k \in population.todo
    /\ LET b == MaterializeBundle(population.run, k)
       IN  population' = [population EXCEPT !.todo = @ \ {k},
                             !.bundles = IF b["stock_position"] = NoRead THEN @
                                         ELSE [x \in DOMAIN @ \cup {k} |->
                                                  IF x = k THEN b ELSE @[x]]]
    /\ UNCHANGED <<manifests, job, batches, markers, ledger,
                   generations, reader>>

\* The pointer's generation is the base of the swap to come.
BeginPopulation ==
    /\ population.phase = "reading" /\ population.todo = {}
    /\ population' = [population EXCEPT !.phase = "staging", !.base = Len(generations)]
    /\ UNCHANGED <<manifests, job, batches, markers, ledger,
                   generations, reader>>

\* The pointer moves only if it is still the base.
CommitPopulation ==
    /\ population.phase = "staging"
    /\ generations' = IF population.base = Len(generations)
                      THEN Append(generations, [run |-> population.run,
                                                bundles |-> population.bundles])
                      ELSE generations
    /\ population' = Idle
    /\ UNCHANGED <<manifests, job, batches, markers, ledger,
                   reader>>

\* An oversized bundle, a write that fails, or the death of the job: what is
\* staged is never seen, and the generation before it stays.
PopulationFails ==
    /\ population # Idle
    /\ population' = Idle
    /\ UNCHANGED <<manifests, job, batches, markers, ledger,
                   generations, reader>>

-----------------------------------------------------------------------------
(* Serving.                                                                *)

Current == Len(generations)

SnapshotKeys(n) == DOMAIN generations[n].bundles

\* One read of the pointer gives the generation, and its keys.
Snapshot(rd) ==
    /\ reader[rd] = NotPinned /\ Current > 0
    /\ reader' = [reader EXCEPT ![rd] = [gen |-> Current, todo |-> SnapshotKeys(Current),
                                         bundles |-> <<>>]]
    /\ UNCHANGED <<manifests, job, batches, markers, ledger,
                   population, generations>>

\* Fault: the caller leaves the generation out.
ServedByCurrent(rd) == Current

\* The caller passes its generation along.
ServedBy(rd) == reader[rd].gen

GetBundle(rd, k) == generations[ServedBy(rd)].bundles[k]

\* The store that is booted reads key by key; a key that is not there ends the boot.
FetchBundle(rd, k) ==
    /\ k \in reader[rd].todo
    /\ k \in DOMAIN generations[ServedBy(rd)].bundles
    /\ LET b == GetBundle(rd, k)
       IN  reader' = [reader EXCEPT ![rd].todo = @ \ {k},
                                    ![rd].bundles = [x \in DOMAIN @ \cup {k} |->
                                                        IF x = k THEN b ELSE @[x]]]
    /\ UNCHANGED <<manifests, job, batches, markers, ledger,
                   population, generations>>

\* The boot fails, or the store is dropped for another.
Release(rd) ==
    /\ reader[rd] # NotPinned
    /\ reader' = [reader EXCEPT ![rd] = NotPinned]
    /\ UNCHANGED <<manifests, job, batches, markers, ledger,
                   population, generations>>

-----------------------------------------------------------------------------

PipelineNext ==
    \/ \E d \in Date : RunExtract(d)
    \/ \E g \in Group, r \in Run : AppendRows(g, r)
    \/ \E g \in Group : AppendMarker(g) \/ JobDies(g)
    \/ \E r \in Run : AppendLedger(r)
    \/ StartPopulation
    \/ \E k \in Key : ReadBundle(k)
    \/ BeginPopulation \/ CommitPopulation \/ PopulationFails
    \/ \E rd \in Reader : Snapshot(rd) \/ Release(rd)
    \/ \E rd \in Reader, k \in Key : FetchBundle(rd, k)

PipelineSpec == PipelineInit /\ [][PipelineNext]_pipelineVars

-----------------------------------------------------------------------------
(* What must hold.                                                         *)

\* The keys whose stock a run has extracted.
Stocked(r) == IF SourcesAvailable("stock_position", r) THEN manifests[r].keys ELSE {}

\* A generation that is served is the whole picture of one run: it has each key the
\* run has stock of and no other, and every feature in it is of a batch that was
\* marked complete for that run.  The population reads many keys while jobs append,
\* are retried and die, and while newer runs reach the ledger.
ServedFromOneRun ==
    \A n \in DOMAIN generations :
        /\ DOMAIN generations[n].bundles = Stocked(generations[n].run)
        /\ \A k \in DOMAIN generations[n].bundles : \A g \in Group :
              LET i == generations[n].bundles[k][g]
              IN  i # NoRead => /\ batches[g][i] = generations[n].run
                                /\ \E m \in Completed(g, generations[n].run) :
                                       markers[g][m].batch = i

\* A demand history that is served is of a run that extracted both of its
\* domains: its zeros were observed, they do not stand for rows that are missing.
DemandIsObserved ==
    "demand_history" \in Group =>
    \A n \in DOMAIN generations : \A k \in DOMAIN generations[n].bundles :
        generations[n].bundles[k]["demand_history"] # NoRead =>
            Sources("demand_history") \subseteq Succeeded(manifests[generations[n].run])

\* A store that has read all its keys holds the whole of one population, never a
\* mixture of two, whatever is committed while it reads.
StoreIsOnePopulation ==
    \A rd \in Reader : reader[rd] # NotPinned /\ reader[rd].todo = {} =>
        \E n \in DOMAIN generations : reader[rd].bundles = generations[n].bundles

\* What is served never goes back to an older extract date, although runs are
\* repeated, dates are extracted again and ledger events are delivered twice.
ServingNeverGoesBack ==
    [][\A n \in DOMAIN generations' :
          n \notin DOMAIN generations /\ n > 1 =>
              manifests[generations'[n].run].date >=
                  manifests[generations'[n - 1].run].date]_pipelineVars
=============================================================================
