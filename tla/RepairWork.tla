------------------------------ MODULE RepairWork ------------------------------
(***************************************************************************)
(* The open repair work of a part at a location, and what is expected back *)
(* of it (recommendation-engine/position/repair_pipeline.py and            *)
(* repair_returns.py), with the validators of contracts/repair.py.         *)
(*                                                                         *)
(* The orders of a snapshot are a function of their positions.  Names are  *)
(* numbers in the order they sort in, and a location is the key's own or   *)
(* another.  Days count from as_of; work is opened some day or at no known *)
(* one.  Probabilities are in ten-thousandths, rounded down, units         *)
(* expected back likewise.  A survival curve counts, in any unit, the      *)
(* repairs that last longer than so many days, that of a distribution      *)
(* those of a sample of it; durations are whole days.                      *)
(***************************************************************************)
EXTENDS Cases, Integers, Sequences, FiniteSets, FiniteSetsExt

Missing == 0          \* a name that is blank, or a word for none
Sure    == 10000      \* certainty

-----------------------------------------------------------------------------
(* The rows of a snapshot: those of repairs, by order line and by serial.  *)

Repairs(orders) == {i \in DOMAIN orders : orders[i].type = "RO" /\ orders[i].qty > 0}

LineKnown(r) == r.order # Missing /\ r.line # Missing

KnownRows(orders) == {i \in Repairs(orders) : LineKnown(orders[i])}

SameLine(orders, i) ==
    {j \in KnownRows(orders) : /\ orders[j].order = orders[i].order
                               /\ orders[j].line = orders[i].line}

\* Without a status work is open.
StatusOf(r) == IF r.status = "" THEN "open" ELSE r.status

\* Fault: a serial is looked for on identified lines only.
KnownSerial(orders, i) == {j \in KnownRows(orders) : orders[j].serial = orders[i].serial}

SameSerial(orders, i) == {j \in Repairs(orders) : orders[j].serial = orders[i].serial}

\* Of the rows of one line the largest stands for it, of these the first by
\* serial, of these the first.
StandsBefore(orders, i, j) ==
    \/ orders[i].qty > orders[j].qty
    \/ orders[i].qty = orders[j].qty /\ orders[i].serial < orders[j].serial
    \/ orders[i].qty = orders[j].qty /\ orders[i].serial = orders[j].serial /\ i < j

LineRows(orders) ==
    {i \in KnownRows(orders) : \A j \in SameLine(orders, i) : ~StandsBefore(orders, j, i)}

LineBefore(orders, i, j) ==
    \/ orders[i].order < orders[j].order
    \/ orders[i].order = orders[j].order /\ orders[i].line < orders[j].line

Quantity(orders, rows) == Total(rows, LAMBDA i : orders[i].qty)

-----------------------------------------------------------------------------
(* Why a row is not credited.                                              *)

\* What speaks against a row that stands for its line.
Objections(orders, i) ==
    LET r == orders[i]
        holds == [missing_opened_at        |-> r.opened = None,
                  future_opened_at         |-> r.opened # None /\ r.opened > 0,
                  missing_location         |-> r.loc = "nowhere",
                  location_mismatch        |-> r.loc = "elsewhere",
                  terminal_status          |-> StatusOf(r) = "terminal",
                  ineligible_status        |-> StatusOf(r) = "unsupported",
                  duplicate_order_line     |-> Cardinality(SameLine(orders, i)) > 1,
                  duplicate_serial         |-> /\ r.serial # Missing
                                               /\ Cardinality(SameSerial(orders, i)) > 1,
                  serial_quantity_mismatch |-> r.serial # Missing /\ r.qty # 1]
    IN  {x \in DOMAIN holds : holds[x]}

Priority == <<"missing_order_identity", "missing_line_identity", "missing_opened_at",
              "future_opened_at", "missing_location", "location_mismatch", "terminal_status",
              "ineligible_status", "duplicate_order_line", "duplicate_serial",
              "serial_quantity_mismatch", "aggregate_wip_cap", "unidentified_aggregate_residual">>

PrimaryReason(reasons) == Priority[Min({n \in DOMAIN Priority : Priority[n] \in reasons})]

Exclusion(i, qty, reason) == [row |-> i, qty |-> qty, reason |-> reason]

WarningCodes(reasons, unavailable, residual, overflow) ==
    LET holds ==
          [repair_pipeline_unavailable  |-> unavailable,
           repair_work_excluded         |-> reasons \ {"unidentified_aggregate_residual"} # {},
           repair_identity_excluded     |->
              reasons \cap {"missing_order_identity", "missing_line_identity"} # {},
           repair_age_missing           |->
              reasons \cap {"missing_opened_at", "future_opened_at"} # {},
           repair_source_duplicates     |->
              reasons \cap {"duplicate_order_line", "duplicate_serial",
                            "serial_quantity_mismatch"} # {},
           repair_wip_mismatch          |-> overflow > 0 \/ "aggregate_wip_cap" \in reasons,
           repair_residual_unidentified |-> residual > 0]
    IN  {x \in DOMAIN holds : holds[x]}

-----------------------------------------------------------------------------
(* The pipeline: what may come back, within the work in progress.          *)

\* Rows without objections, and what the others and the unidentified rows take
\* of the work in progress before them.
Creditable(orders) == {i \in LineRows(orders) : Objections(orders, i) = {}}

Ambiguous(orders) == (LineRows(orders) \ Creditable(orders)) \cup (Repairs(orders) \ KnownRows(orders))

Capacity(orders, wip) == Most(0, wip - Quantity(orders, Ambiguous(orders)))

\* Line by line, as far as the capacity goes.
Granted(orders, wip, i) ==
    LET earlier == {j \in Creditable(orders) : LineBefore(orders, j, i)}
    IN  Least(orders[i].qty, Most(0, Capacity(orders, wip) - Quantity(orders, earlier)))

ExclusionsOf(orders, wip, residual) ==
    {Exclusion(i, orders[i].qty, IF orders[i].order = Missing THEN "missing_order_identity"
                                 ELSE "missing_line_identity") :
        i \in Repairs(orders) \ KnownRows(orders)}
    \cup {Exclusion(i, orders[i].qty, PrimaryReason(Objections(orders, i))) :
            i \in LineRows(orders) \ Creditable(orders)}
    \cup {Exclusion(i, orders[i].qty - Granted(orders, wip, i), "aggregate_wip_cap") :
            i \in {j \in Creditable(orders) : Granted(orders, wip, j) < orders[j].qty}}
    \cup {Exclusion(Missing, residual, x) :
            x \in {y \in {"unidentified_aggregate_residual"} : residual > 0}}

ReasonsOf(orders, exclusions) ==
    {x.reason : x \in exclusions} \cup UNION {Objections(orders, i) : i \in LineRows(orders)}

Known(orders, wip) ==
    LET identified   == Quantity(orders, LineRows(orders))
        unidentified == Quantity(orders, Repairs(orders) \ KnownRows(orders))
        residual     == Most(0, wip - (identified + unidentified))
        overflow     == Most(0, identified + unidentified - wip)
        included     == [i \in {j \in Creditable(orders) : Granted(orders, wip, j) > 0} |->
                            Granted(orders, wip, i)]
        exclusions   == ExclusionsOf(orders, wip, residual)
        warnings     == WarningCodes(ReasonsOf(orders, exclusions), FALSE, residual, overflow)
    IN  [status |-> IF warnings = {} THEN "available" ELSE "partial", wip |-> wip,
         identified |-> identified, unidentified |-> unidentified,
         eligible |-> SumFunction(included), excluded |-> identified - SumFunction(included),
         residual |-> residual, overflow |-> overflow, included |-> included,
         age |-> [i \in DOMAIN included |-> Most(0, -orders[i].opened)],
         exclusions |-> exclusions, warnings |-> warnings]

\* Without a snapshot all of the work in progress is unidentified.
Unknown(wip) ==
    LET exclusions == {Exclusion(Missing, wip, x) :
                          x \in {y \in {"unidentified_aggregate_residual"} : wip > 0}}
    IN  [status |-> "unavailable", wip |-> wip, identified |-> 0, unidentified |-> 0,
         eligible |-> 0, excluded |-> 0, residual |-> wip, overflow |-> 0,
         included |-> <<>>, age |-> <<>>, exclusions |-> exclusions,
         warnings |-> WarningCodes({x.reason : x \in exclusions}, TRUE, wip, 0)]

Pipeline(snapshot, wip) ==
    IF snapshot.absent THEN Unknown(Most(0, wip)) ELSE Known(snapshot.orders, Most(0, wip))

\* The validators of RepairWorkItem, IncludedRepairPosition and RepairPipeline.
ItemAccepted(r) ==
    /\ LineKnown(r) /\ r.qty > 0
    /\ r.loc # "nowhere" /\ r.opened # None /\ StatusOf(r) = "open"
    /\ r.serial # Missing => r.qty = 1

PipelineAccepted(orders, p) ==
    /\ \A n \in {p.wip, p.identified, p.unidentified, p.eligible, p.excluded, p.residual,
                 p.overflow} \cup {x.qty : x \in p.exclusions} : n >= 0
    /\ \A i \in Creditable(orders) : ItemAccepted(orders[i])
    /\ \A i \in DOMAIN p.included :
          /\ 0 < p.included[i] /\ p.included[i] <= orders[i].qty /\ p.age[i] >= 0
    /\ p.eligible <= p.wip /\ p.eligible <= p.identified
    /\ p.eligible + p.excluded = p.identified
    /\ p.residual = Most(0, p.wip - (p.identified + p.unidentified))
    /\ p.overflow = Most(0, p.identified + p.unidentified - p.wip)
    /\ SumFunction(p.included) = p.eligible
    /\ p.status = "available" => /\ p.exclusions = {} /\ p.warnings = {}
                                 /\ p.residual = 0 /\ p.overflow = 0
    /\ p.status = "unavailable" => "repair_pipeline_unavailable" \in p.warnings

-----------------------------------------------------------------------------
(* How long repairs last.  A curve gives for a day what is left of them.   *)

\* Units still in repair count as repairs of which only the age is known.
AtRisk(cycles, p, t) ==
    Cardinality({c \in DOMAIN cycles : cycles[c] >= t})
      + Total({i \in DOMAIN p.included : p.age[i] >= t}, LAMBDA i : p.included[i])

Ended(cycles, t) == Cardinality({c \in DOMAIN cycles : cycles[c] = t})

\* Kaplan-Meier, over the product of all that were at risk.
KaplanMeier(cycles, p, day) ==
    FoldFunction(LAMBDA a, b : a * b, 1, [t \in {cycles[c] : c \in DOMAIN cycles} |->
        IF t <= day THEN AtRisk(cycles, p, t) - Ended(cycles, t) ELSE AtRisk(cycles, p, t)])

\* Negative durations are no evidence.
CleanDurations(durations) ==
    [c \in {x \in DOMAIN durations : durations[x] >= 0} |-> durations[c]]

\* What was completed, else the percentiles of the repair cycle, else what is
\* promised: never a lead time of new parts.
SelectModel(r) ==
    CASE DOMAIN CleanDurations(r.durations) # {} -> "kaplan_meier"
      [] DOMAIN CleanDurations(r.durations) = {} /\ r.cycle.condition = "REP" /\ r.cycle.known ->
            IF 0 < r.cycle.p50 /\ r.cycle.p50 < r.cycle.p90 THEN "lognormal_quantile"
            ELSE IF r.cycle.promised > 0 THEN "deterministic_promise" ELSE "unavailable"
      [] OTHER -> "unavailable"

Survival(r, p, day) ==
    CASE SelectModel(r) = "kaplan_meier"       -> KaplanMeier(CleanDurations(r.durations), p, day)
      [] SelectModel(r) = "lognormal_quantile" ->
            Cardinality({u \in DOMAIN r.cycle.sample : r.cycle.sample[u] > day})
      [] SelectModel(r) = "deterministic_promise" -> IF day < r.cycle.promised THEN 1 ELSE 0
      [] SelectModel(r) = "unavailable"        -> 1

-----------------------------------------------------------------------------
(* What is expected back.  tat stretches the time that remains, in tenths. *)

\* The share of what was left at a first day that is gone by a second.
Gone(r, p, from, to) ==
    LET now == Survival(r, p, from)
    IN  IF now <= 0 THEN 0 ELSE Most(0, Least(Sure, (Sure * (now - Survival(r, p, to))) \div now))

\* Fault: the age is stretched with the time that remains.
ConditionalFromStart(r, p, age, days, tat) ==
    IF days <= 0 THEN 0 ELSE Gone(r, p, (10 * age) \div tat, (10 * (age + days)) \div tat)

Conditional(r, p, age, days, tat) ==
    IF days <= 0 THEN 0 ELSE Gone(r, p, age, age + (10 * days) \div tat)

\* Each credited line on its own, and what they add up to; the band is of a
\* width that depends on the variance.
Horizon(r, p, days, tat) ==
    LET chance == [i \in DOMAIN p.included |-> Conditional(r, p, p.age[i], days, tat)]
        useful == [i \in DOMAIN p.included |-> (chance[i] * r.yield) \div 100]
        units  == [i \in DOMAIN p.included |-> p.included[i] * useful[i]]
        sum    == SumFunction(units)
    IN  [days |-> days, eligible |-> p.eligible, chance |-> chance, useful |-> useful,
         units |-> units, expected |-> sum, low |-> Most(0, sum - r.spread),
         high |-> Least(Sure * p.eligible, sum + r.spread)]

ProjectReturns(r, p) ==
    LET method == SelectModel(r)
        told   == p.warnings
                    \cup {x \in {"repair_return_evidence_unavailable"} : method = "unavailable"}
                    \cup {x \in {"repair_return_configured_promise"} :
                             method = "deterministic_promise"}
    IN  [status |-> IF method = "unavailable" THEN "unavailable"
                    ELSE IF told = {} THEN "available" ELSE "partial",
         eligible |-> p.eligible, method |-> method, warnings |-> told,
         excluded |-> p.excluded + p.unidentified, residual |-> p.residual,
         horizons |-> {Horizon(r, p, days, r.tat) : days \in r.horizons}]

\* The validators of RepairItemReturnProbability, RepairReturnHorizon and
\* RepairReturnProfile.
HorizonAccepted(p, h) ==
    /\ \A i \in DOMAIN h.units :
          /\ 0 <= h.useful[i] /\ h.useful[i] <= h.chance[i] /\ h.chance[i] <= Sure
          /\ h.units[i] = p.included[i] * h.useful[i]
    /\ 0 <= h.low /\ h.low <= h.expected /\ h.expected <= h.high /\ h.high <= Sure * h.eligible
    /\ SumFunction(h.units) = h.expected
    /\ h.eligible = 0 => h.expected = 0

ProfileAccepted(p, profile) ==
    /\ \A h \in profile.horizons : HorizonAccepted(p, h) /\ h.eligible = profile.eligible
    /\ \A g, h \in profile.horizons :
          /\ g.days = h.days => g = h
          /\ DOMAIN g.chance = DOMAIN h.chance
          /\ g.days <= h.days => /\ g.expected <= h.expected
                                 /\ \A i \in DOMAIN g.chance : g.chance[i] <= h.chance[i]
    /\ profile.status = "unavailable" => \A h \in profile.horizons : h.expected = 0

\* The parameters the projection refuses.
ReturnsRefused(r) ==
    r.yield < 0 \/ r.yield > 100 \/ r.tat <= 0 \/ \E days \in r.horizons : days < 0

-----------------------------------------------------------------------------

Repair(r) ==
    LET p == Pipeline(r.snapshot, r.wip)
    IN  IF ~PipelineAccepted(r.snapshot.orders, p) \/ ReturnsRefused(r)
        THEN [raised |-> TRUE, pipeline |-> p]
        ELSE [raised |-> ~ProfileAccepted(p, ProjectReturns(r, p)), pipeline |-> p,
              profile |-> ProjectReturns(r, p)]

\* What the fields of the contract hold: finitely many orders, counts and names
\* that are in an order, and the words a status is.
OrdersTyped(orders) ==
    /\ IsFiniteSet(DOMAIN orders) /\ DOMAIN orders \subseteq Nat \ {0}
    /\ \A i \in DOMAIN orders :
          /\ orders[i].qty \in Int /\ orders[i].serial \in Int
          /\ orders[i].order \in Int /\ orders[i].line \in Int
          /\ orders[i].opened \in Int
          /\ orders[i].status \in {"", "open", "terminal", "unsupported"}

WholeDays(f) == IsFiniteSet(DOMAIN f) /\ \A x \in DOMAIN f : f[x] \in Int

\* The parameters are numbers, of any sign.
RepairTyped(r) ==
    /\ r.wip \in Int /\ OrdersTyped(r.snapshot.orders)
    /\ WholeDays(r.durations) /\ WholeDays(r.cycle.sample)
    /\ r.yield \in Int /\ r.tat \in Int /\ r.horizons \subseteq Int
    /\ r.cycle.promised \in Int /\ r.spread \in Nat

ProjectRepairs == Computes("repair", {Repair(case)})

-----------------------------------------------------------------------------
(* What must hold.                                                         *)

\* Every unit that the snapshot or the work in progress tells of is credited or
\* excluded, and once; no more is credited than the work in progress leaves once
\* all that is ambiguous is taken from it; and no line or serial that is on more
\* than one row is credited at all.
RepairCreditIsConservative ==
    Computed("repair") =>
    LET p      == result.pipeline
        orders == case.snapshot.orders
    IN  /\ p.eligible + Total(p.exclusions, LAMBDA x : x.qty)
              = Most(p.wip, p.identified + p.unidentified)
        /\ p.eligible <= Most(0, p.wip - Quantity(orders, Ambiguous(orders)))
        /\ \A i \in DOMAIN p.included : \A j \in Repairs(orders) \ {i} :
              /\ <<orders[j].order, orders[j].line>> # <<orders[i].order, orders[i].line>>
              /\ orders[i].serial # Missing => orders[j].serial # orders[i].serial

\* Whatever the snapshot and the evidence, what is projected passes the validators
\* of its contract, and on every horizon slower repairs bring no more back.
ReturnsAreBelievable ==
    Computed("repair") /\ ~ReturnsRefused(case) =>
    /\ ~result.raised
    /\ \A h \in result.profile.horizons : \A slower \in case.tat..(2 * case.tat) :
          Horizon(case, result.pipeline, h.days, slower).expected <= h.expected
=============================================================================
