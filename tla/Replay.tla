-------------------------------- MODULE Replay --------------------------------
(***************************************************************************)
(* Replaying past decisions under two policies: the trusted source package *)
(* (recommendation-engine/replay/package.py), the contracts that guard it  *)
(* (contracts/replay.py) and the scorecard (replay/scorecard.py).          *)
(*                                                                         *)
(* The records of a package are a function of their positions, and a row   *)
(* of the request keeps the position of its record.  Artifacts are a       *)
(* function of their kinds, amounts of their names.  A hash is modelled by *)
(* what it is taken of, a rate by its numerator and denominator.           *)
(***************************************************************************)
EXTENDS Cases, Integers, FiniteSets

Sides        == {"current", "challenger"}
FactualKinds == {"demand", "receipt", "repair_outcome", "price", "part_attributes"}
PolicyKinds  == {"model", "tenant_policy", "objective", "candidate_frontier"}
OutcomeKinds == {"demand", "receipt", "repair_outcome"}

\* A decision that is scored has these, the others may be known to be absent.
RequiredKinds == {"demand", "price", "part_attributes"} \cup PolicyKinds

\* The amounts that are summed; what is backordered follows from two of them.
Summed == {"demanded_units", "filled_units", "shortage_unit_days", "ending_inventory_units",
           "inventory_investment", "holding_cost", "ordering_cost", "acquisition_cash",
           "aog_risk_proxy_events"}
Amounts == Summed \cup {"backordered_units"}
Compared == Amounts \ {"demanded_units", "filled_units", "ending_inventory_units"}

-----------------------------------------------------------------------------
(* Artifacts, metrics and outcomes, as they are read.                      *)

\* ReplayInputArtifact: what is not available says only that it is not.
ArtifactAccepted(a) ==
    IF a.status = "available"
    THEN a.content # None /\ a.occurred # None /\ a.occurred <= a.available
    ELSE a.content = None /\ a.occurred = None

\* ReplayOutcomeArtifact.
OutcomeArtifactAccepted(a) ==
    IF a.status = "available"
    THEN /\ a.content # None /\ a.start # None /\ a.end # None
         /\ a.start <= a.end /\ a.end <= a.available
    ELSE a.content = None /\ a.start = None /\ a.end = None

OutcomeManifest(o) ==
    [tenant |-> o.tenant, asof |-> o.asof, end |-> o.end, artifacts |-> o.artifacts]

\* ReplayOutcomeLineage: what came about, over exactly the horizon.
OutcomeLineageAccepted(o) ==
    /\ \A k \in OutcomeKinds : OutcomeArtifactAccepted(o.artifacts[k])
    /\ o.asof < o.end
    /\ \A j, k \in OutcomeKinds : o.artifacts[j].id = o.artifacts[k].id => j = k
    /\ \A k \in OutcomeKinds :
          LET a == o.artifacts[k] IN
          /\ a.tenant = o.tenant
          /\ a.status = "available" => a.start = o.asof /\ a.end = o.end
    /\ o.artifacts["demand"].status = "available"
    /\ o.manifest = OutcomeManifest(o)

\* Without a decision nothing is filled, without demand everything.
FillRate(decisions, filled, demanded) ==
    IF decisions = 0 THEN <<0, 1>> ELSE IF demanded = 0 THEN <<1, 1>> ELSE <<filled, demanded>>

RateAtMost(r, s) == r[1] * s[2] <= s[1] * r[2]

\* ReplayMetrics.
MetricsAccepted(m) ==
    LET filled   == m.amount["filled_units"]
        demanded == m.amount["demanded_units"]
        rate     == FillRate(m.decisions, filled, demanded)
    IN  /\ filled <= demanded
        /\ m.amount["backordered_units"] = demanded - filled
        /\ RateAtMost(m.rate, rate) /\ RateAtMost(rate, m.rate)

\* The validators of a package's records; that every kind of artifact is there
\* once is in the form they have here.
RecordAccepted(r) ==
    /\ \A k \in FactualKinds : ArtifactAccepted(r.factual[k])
    /\ \A side \in Sides : /\ MetricsAccepted(r[side].metrics)
                           /\ \A k \in PolicyKinds : ArtifactAccepted(r[side].artifacts[k])
    /\ OutcomeLineageAccepted(r.outcome)

SourceAccepted(package) ==
    /\ DOMAIN package.records # {}
    /\ \A i \in DOMAIN package.records :
          package.records[i].kind = "matched" => RecordAccepted(package.records[i])

-----------------------------------------------------------------------------
(* What a decision rests on, and what of it came later than the decision.  *)

Late(a, asof) == a.available > asof \/ (a.occurred # None /\ a.occurred > asof)

\* Fault: only the facts are looked at.
FactualViolations(r) == {<<"factual", k>> : k \in {x \in FactualKinds : Late(r.factual[x], r.asof)}}

CutoffViolations(r) ==
    {<<"factual", k>> : k \in {x \in FactualKinds : Late(r.factual[x], r.asof)}}
    \cup {<<side, "planning_selection">> : side \in {x \in Sides : r[x].selected > r.asof}}
    \cup {v \in Sides \X PolicyKinds : Late(r[v[1]].artifacts[v[2]], r.asof)}

\* Both sides share the facts, each has the artifacts of its policy.
LineageOf(r, side) ==
    [tenant |-> r.tenant, asof |-> r.asof, snapshot |-> r[side].snapshot, run |-> r[side].run,
     key |-> r[side].key, selected |-> r[side].selected, fingerprint |-> r[side].fingerprint,
     versions |-> r[side].versions,
     artifacts |-> [k \in FactualKinds \cup PolicyKinds |->
                       IF k \in FactualKinds THEN r.factual[k] ELSE r[side].artifacts[k]]]

\* ReplayDecisionLineage.
LineageAccepted(l) ==
    /\ l.selected <= l.asof
    /\ \A j, k \in DOMAIN l.artifacts : l.artifacts[j].id = l.artifacts[k].id => j = k
    /\ \A k \in DOMAIN l.artifacts :
          /\ l.artifacts[k].tenant = l.tenant /\ l.artifacts[k].snapshot = l.snapshot
          /\ ~Late(l.artifacts[k], l.asof)
    /\ \A k \in RequiredKinds : l.artifacts[k].status = "available"
    /\ \A k \in PolicyKinds : l.versions[k] \subseteq l.artifacts[k].versions

-----------------------------------------------------------------------------
(* The request: every record is an observation or an exclusion.            *)

Decision(x) == [id |-> x.id, tenant |-> x.tenant, key |-> x.key, asof |-> x.asof, end |-> x.end]

NaturalKey(x) == <<x.tenant, x.key, x.asof, x.end>>

ExclusionOf(r) ==
    [id |-> r.id, tenant |-> r.tenant, key |-> r.key, asof |-> r.asof, end |-> r.end,
     reason |-> IF r.kind = "excluded" THEN r.reason ELSE "invalid_lineage"]

ObservationOf(r) ==
    [id |-> r.id, tenant |-> r.tenant, key |-> r.key, asof |-> r.asof, end |-> r.end,
     cohort |-> r.cohort, outcome |-> r.outcome,
     current |-> r.current.metrics, challenger |-> r.challenger.metrics,
     lineage |-> [side \in Sides |-> LineageOf(r, side)]]

Build(package) ==
    LET records  == package.records
        observed == {i \in DOMAIN records : /\ records[i].kind = "matched"
                                            /\ CutoffViolations(records[i]) = {}}
    IN  [tenant |-> package.tenant, currency |-> package.currency, rule |-> package.rule,
         tolerance |-> package.tolerance, expected |-> Cardinality(DOMAIN records),
         universe |-> [i \in DOMAIN records |-> Decision(records[i])],
         observations |-> [i \in observed |-> ObservationOf(records[i])],
         exclusions |-> [i \in DOMAIN records \ observed |-> ExclusionOf(records[i])]]

\* Fault: the policies may be measured against different demand.
SameCurrency(o) == o.current.currency = o.challenger.currency

SameDemand(o) == /\ o.current.currency = o.challenger.currency
                 /\ o.current.amount["demanded_units"] = o.challenger.amount["demanded_units"]

\* MatchedReplayObservation: two policies, one demand, one set of facts.
MatchedObservationAccepted(o) ==
    /\ o.asof < o.end
    /\ SameDemand(o)
    /\ \A side \in Sides :
          LET l == o.lineage[side] IN
          /\ LineageAccepted(l)
          /\ l.tenant = o.tenant /\ l.asof = o.asof /\ l.key = o.key
          /\ o[side].decisions = 1 /\ o[side].manifest = o.outcome.manifest
          /\ o.cohort.evidence = l.artifacts["part_attributes"].id
    /\ o.lineage["current"].snapshot = o.lineage["challenger"].snapshot
    /\ \A k \in FactualKinds :
          o.lineage["current"].artifacts[k] = o.lineage["challenger"].artifacts[k]
    /\ o.outcome.tenant = o.tenant /\ o.outcome.asof = o.asof /\ o.outcome.end = o.end

RequestRows(q) ==
    [i \in DOMAIN q.observations \cup DOMAIN q.exclusions |->
        IF i \in DOMAIN q.observations THEN Decision(q.observations[i])
        ELSE Decision(q.exclusions[i])]

\* No two rows have one identifier or one natural key.
RowsDiffer(rows) ==
    \A i, j \in DOMAIN rows :
       rows[i].id = rows[j].id \/ NaturalKey(rows[i]) = NaturalKey(rows[j]) => i = j

SumOf(observations, rows, side, amount) ==
    Total(rows, LAMBDA i : observations[i][side].amount[amount])

\* Equal cash, or equal service in hundredths, as far as the tolerance goes.
Matched(q) ==
    LET rows   == DOMAIN q.observations
        sum(side, amount) == SumOf(q.observations, rows, side, amount)
        rate(side) == FillRate(Cardinality(rows), sum(side, "filled_units"),
                               sum(side, "demanded_units"))
        apart(m, n) == IF m < n THEN n - m ELSE m - n
        r == rate("current")
        s == rate("challenger")
    IN  IF q.rule = "matched_budget"
        THEN apart(sum("current", "acquisition_cash"), sum("challenger", "acquisition_cash"))
                <= q.tolerance
        ELSE 100 * apart(r[1] * s[2], s[1] * r[2]) <= q.tolerance * r[2] * s[2]

\* ReplayEvaluationRequest, its rows included.
RequestAccepted(q) ==
    /\ \A i \in DOMAIN q.observations : MatchedObservationAccepted(q.observations[i])
    /\ \A i \in DOMAIN q.exclusions : q.exclusions[i].asof < q.exclusions[i].end
    /\ \A i \in DOMAIN q.universe : /\ q.universe[i].asof < q.universe[i].end
                                    /\ q.universe[i].tenant = q.tenant
    /\ Cardinality(DOMAIN q.universe) = q.expected
    /\ RowsDiffer(q.universe)
    /\ Cardinality(DOMAIN q.observations) + Cardinality(DOMAIN q.exclusions) = q.expected
    /\ RowsDiffer(RequestRows(q))
    /\ {RequestRows(q)[i] : i \in DOMAIN RequestRows(q)} = {q.universe[i] : i \in DOMAIN q.universe}
    /\ \A i \in DOMAIN q.observations : q.observations[i].current.currency = q.currency
    /\ Matched(q)

-----------------------------------------------------------------------------
(* The scorecard: one result over all observations, one per cohort.        *)

\* The evidence of a cohort is not part of what it is.
CohortId(o) == o.cohort.class

OutcomesOf(observations, rows) ==
    {<<observations[i].id, observations[i].outcome.manifest>> : i \in rows}

Aggregate(observations, rows, side, currency) ==
    LET sum(amount) == SumOf(observations, rows, side, amount)
        n == Total(rows, LAMBDA i : observations[i][side].decisions)
    IN  [currency |-> currency, manifest |-> OutcomesOf(observations, rows),
         amount |-> [m \in Amounts |-> IF m \in Summed THEN sum(m)
                                       ELSE sum("demanded_units") - sum("filled_units")],
         decisions |-> n, rate |-> FillRate(n, sum("filled_units"), sum("demanded_units"))]

Delta(current, challenger) ==
    [rates |-> <<current.rate, challenger.rate>>,
     amount |-> [m \in Compared |-> challenger.amount[m] - current.amount[m]]]

\* What a group of observations comes to.
ResultOf(q, rows) ==
    LET current    == Aggregate(q.observations, rows, "current", q.currency)
        challenger == Aggregate(q.observations, rows, "challenger", q.currency)
    IN  [count |-> Cardinality(rows), ids |-> {q.observations[i].id : i \in rows},
         current |-> current, challenger |-> challenger, delta |-> Delta(current, challenger)]

\* ReplayObservationLineageRef.
LineageRef(o) ==
    [id |-> o.id, key |-> o.key, asof |-> o.asof, end |-> o.end, cohort |-> CohortId(o),
     snapshot |-> o.lineage["current"].snapshot, manifest |-> o.outcome.manifest,
     keys |-> {o.lineage[side].key : side \in Sides},
     fingerprints |-> {o.lineage[side].fingerprint : side \in Sides}]

CohortRows(q, id) == {i \in DOMAIN q.observations : CohortId(q.observations[i]) = id}

ShadowScorecard(q) ==
    LET rows    == DOMAIN q.observations
        lineage == [i \in rows |-> LineageRef(q.observations[i])]
    IN  [tenant |-> q.tenant, currency |-> q.currency, universe |-> q.universe,
         count |-> Cardinality(rows), total |-> q.expected,
         excluded |-> Cardinality(DOMAIN q.exclusions), exclusions |-> q.exclusions,
         reasons |-> [x \in {q.exclusions[i].reason : i \in DOMAIN q.exclusions} |->
                         Cardinality({i \in DOMAIN q.exclusions : q.exclusions[i].reason = x})],
         all |-> ResultOf(q, rows),
         cohorts |-> [id \in {CohortId(q.observations[i]) : i \in rows} |->
                         ResultOf(q, CohortRows(q, id))],
         lineage |-> lineage, snapshots |-> {lineage[i].snapshot : i \in rows},
         fingerprints |-> UNION {lineage[i].fingerprints : i \in rows}]

\* The validators of ReplayCohortResult, and of the metrics and the delta it and
\* the scorecard hold.
ResultAccepted(c, count, currency) ==
    /\ \A side \in Sides : /\ MetricsAccepted(c[side])
                           /\ c[side].currency = currency /\ c[side].decisions = count
    /\ c.delta = Delta(c.current, c.challenger)

\* The validators of ShadowScorecard, of its rows first.
LedgerAccepted(s) ==
    /\ \A i \in DOMAIN s.lineage : /\ s.lineage[i].asof < s.lineage[i].end
                                   /\ s.lineage[i].keys = {s.lineage[i].key}
    /\ s.count + s.excluded = s.total
    /\ Cardinality(DOMAIN s.universe) = s.total
    /\ \A i \in DOMAIN s.universe : s.universe[i].tenant = s.tenant
    /\ Cardinality(DOMAIN s.exclusions) = s.excluded
    /\ SumFunction(s.reasons) = s.excluded
    /\ \A x \in DOMAIN s.reasons :
          s.reasons[x] = Cardinality({i \in DOMAIN s.exclusions : s.exclusions[i].reason = x})
    /\ Cardinality(DOMAIN s.lineage) = s.count
    /\ \A i, j \in DOMAIN s.lineage : s.lineage[i].id = s.lineage[j].id => i = j
    /\ \A i, j \in DOMAIN s.exclusions : Decision(s.exclusions[i]) = Decision(s.exclusions[j]) => i = j
    /\ {[id |-> s.lineage[i].id, tenant |-> s.tenant, key |-> s.lineage[i].key,
         asof |-> s.lineage[i].asof, end |-> s.lineage[i].end] : i \in DOMAIN s.lineage}
          \cup {Decision(s.exclusions[i]) : i \in DOMAIN s.exclusions}
       = {Decision(s.universe[i]) : i \in DOMAIN s.universe}

CohortsAccepted(s) ==
    /\ \A id \in DOMAIN s.cohorts :
          LET c == s.cohorts[id]
              members == {i \in DOMAIN s.lineage : s.lineage[i].id \in c.ids}
          IN  /\ ResultAccepted(c, c.count, s.currency)
              /\ c.count >= 1 /\ Cardinality(c.ids) = c.count
              /\ \A i \in members : s.lineage[i].cohort = id
              /\ \A side \in Sides :
                    c[side].manifest = {<<s.lineage[i].id, s.lineage[i].manifest>> : i \in members}
    /\ \A d, e \in DOMAIN s.cohorts : d # e => s.cohorts[d].ids \cap s.cohorts[e].ids = {}
    /\ UNION {s.cohorts[id].ids : id \in DOMAIN s.cohorts} = {s.lineage[i].id : i \in DOMAIN s.lineage}
    /\ Total(DOMAIN s.cohorts, LAMBDA id : s.cohorts[id].count) = s.count
    /\ \A side \in Sides : \A m \in Amounts :
          Total(DOMAIN s.cohorts, LAMBDA id : s.cohorts[id][side].amount[m]) = s.all[side].amount[m]

ScorecardAccepted(s) ==
    /\ LedgerAccepted(s)
    /\ ResultAccepted(s.all, s.count, s.currency)
    /\ \A side \in Sides :
          s.all[side].manifest = {<<s.lineage[i].id, s.lineage[i].manifest>> : i \in DOMAIN s.lineage}
    /\ CohortsAccepted(s)
    /\ s.snapshots = {s.lineage[i].snapshot : i \in DOMAIN s.lineage}
    /\ s.fingerprints = UNION {s.lineage[i].fingerprints : i \in DOMAIN s.lineage}

-----------------------------------------------------------------------------

\* What the fields of the contracts hold: times, and amounts that are counts or money.
MetricsTyped(m) == /\ m.decisions \in Nat
                   /\ \A k \in Amounts : m.amount[k] \in Int
                   /\ \A k \in Summed : m.amount[k] >= 0

RecordTyped(r) ==
    /\ r.asof \in Int
    /\ \A k \in FactualKinds : r.factual[k].available \in Int /\ r.factual[k].occurred \in Int
    /\ \A s \in Sides :
          /\ r[s].selected \in Int
          /\ MetricsTyped(r[s].metrics)
          /\ \A k \in PolicyKinds : /\ r[s].artifacts[k].available \in Int
                                    /\ r[s].artifacts[k].occurred \in Int
    /\ r.outcome.end \in Int
    /\ \A k \in OutcomeKinds : r.outcome.artifacts[k].available \in Int

PackageTyped(c) ==
    /\ {"tenant", "currency", "rule", "tolerance", "records"} \subseteq DOMAIN c
    /\ IsFiniteSet(DOMAIN c.records)
    /\ \A i \in DOMAIN c.records : c.records[i].kind = "matched" => RecordTyped(c.records[i])

\* The contract that refuses a package, or what it comes to.
Evaluate(package) ==
    IF ~SourceAccepted(package) THEN [refused |-> "source"]
    ELSE IF ~RequestAccepted(Build(package)) THEN [refused |-> "request"]
    ELSE IF ~ScorecardAccepted(ShadowScorecard(Build(package))) THEN [refused |-> "scorecard"]
    ELSE [refused |-> "", request |-> Build(package), card |-> ShadowScorecard(Build(package))]

ReplayDecisions == Computes("replay", {Evaluate(case)})

-----------------------------------------------------------------------------
(* What must hold.                                                         *)

\* What a side of a record rests on, with the time each is known from.
KnownFrom(r, side) ==
    {r[side].selected} \cup {r[side].artifacts[k].available : k \in PolicyKinds}
                       \cup {r.factual[k].available : k \in FactualKinds}

\* The package with every record excluded that rests on anything known only later.
Reviewed(package) ==
    [package EXCEPT !.records = [i \in DOMAIN package.records |->
        LET r == package.records[i] IN
        IF r.kind = "matched" /\ \E side \in Sides : \E t \in KnownFrom(r, side) : t > r.asof
        THEN [kind |-> "excluded", id |-> r.id, tenant |-> r.tenant, key |-> r.key,
              asof |-> r.asof, end |-> r.end, reason |-> "invalid_lineage"]
        ELSE r]]

\* A matched record that rests on anything known only later is worth what a reviewer's
\* exclusion of it is: it cannot spoil the package.  And what is accepted was decided
\* on what was known by then, and is scored on what became known only afterwards.
LateEvidenceIsExcluded ==
    Computed("replay") /\ SourceAccepted(case) =>
    /\ result = Evaluate(Reviewed(case))
    /\ result.refused = "" =>
          \A i \in DOMAIN result.request.observations :
             LET r == case.records[i] IN
             /\ \A side \in Sides : \A t \in KnownFrom(r, side) : t <= r.asof
             /\ \A k \in OutcomeKinds : LET a == r.outcome.artifacts[k] IN
                   a.status = "available" => r.asof < a.available

\* A request that is accepted has a scorecard, one that its own validators accept;
\* and whatever the cohorts, a policy that fills at least as much as the other in
\* every one of them does so over all.
ScorecardHolds ==
    Computed("replay") =>
    /\ result.refused # "scorecard"
    /\ result.refused = "" =>
          \A s, t \in Sides :
             (\A id \in DOMAIN result.card.cohorts :
                 RateAtMost(result.card.cohorts[id][s].rate, result.card.cohorts[id][t].rate))
             => RateAtMost(result.card.all[s].rate, result.card.all[t].rate)
=============================================================================
