--------------------------- MODULE Recommendations ---------------------------
(***************************************************************************)
(* RecommendationService._run (recommendation-engine/service.py): from the *)
(* contexts of the keys of a work list to a batch of recommendations.      *)
(*                                                                         *)
(* A key is <<part, location>>; parts and locations are numbers, in the    *)
(* order their names sort in.  Dates are days from as_of.  Units are whole *)
(* but demand and what is derived from it is in hundredths of a unit.      *)
(* Prices are whole.  The formulas that make levels of a distribution      *)
(* (base stock, (s,S), (R,Q)) are floating-point mathematics: their result *)
(* is the input `formula` of a context.                                    *)
(***************************************************************************)
EXTENDS Cases, Integers, Sequences, FiniteSets, SequencesExt, FiniteSetsExt

DefaultVendor == "DEFAULT"
Nobody        == ""          \* an order without a vendor

Units(h) == 100 * h
Ceil(h)  == (h + 99) \div 100
Whole(h) == h \div 100

-----------------------------------------------------------------------------
(* What the demand history says.  An observation counts units and, unless  *)
(* it is from before events were counted, events, in a bucket of days.     *)

BucketStart(d, size) == d - (d % size)
BucketEnd(d, size)   == BucketStart(d, size) + size - 1

Within(history, from, to) ==
    {o \in history.observations : /\ BucketEnd(o.day, history.bucket) >= from
                                  /\ BucketStart(o.day, history.bucket) <= to}

\* Events where they were counted, else one for each bucket with demand.
EventCount(history, observations) ==
    IF history.counted \/ \E o \in observations : o.events # None
    THEN Total(observations, LAMBDA o : IF o.events # None THEN o.events
                                        ELSE IF history.counted \/ o.units = 0 THEN 0 ELSE 1)
    ELSE Cardinality({BucketStart(o.day, history.bucket) :
                        o \in {x \in observations : x.units > 0}})

\* The configured window, else from the first to the last bucket observed.
WindowOf(history) ==
    IF history.from # None /\ history.to # None THEN <<history.from, history.to>>
    ELSE IF history.observations = {} THEN <<None, None>>
    ELSE <<Min({BucketStart(o.day, history.bucket) : o \in history.observations}),
           Max({BucketEnd(o.day, history.bucket) : o \in history.observations})>>

Basis(history) ==
    LET from     == WindowOf(history)[1]
        to       == WindowOf(history)[2]
        observed == IF from = None THEN {} ELSE Within(history, from, to)
        exposure == IF from = None THEN 0 ELSE to - from + 1
        units    == Total(observed, LAMBDA o : o.units)
    IN  [exposure |-> exposure, units |-> units,
         events |-> IF from = None THEN 0
                    ELSE EventCount(history, Within(history, to - 730, to)),
         perDay |-> IF exposure = 0 THEN 0 ELSE (100 * units) \div exposure]

RegimeOrder == <<"ultra_rare", "intermittent", "moderate", "high_volume">>
FirstOf     == <<0, 6, 25, 201>>    \* the first event count of each regime

RawRegime(events) == Max({i \in 1..4 : FirstOf[i] <= events})

\* A regime is kept as long as the count is within 20 % of the boundary.
Classify(events, days, prior) ==
    LET raw  == RawRegime(events)
        edge == FirstOf[Most(raw, prior)]
    IN  IF days < 90 THEN 1
        ELSE IF /\ prior # 0 /\ (raw - prior) \in {1, -1}
                /\ 8 * edge <= 10 * events /\ 10 * events <= 12 * edge
        THEN prior ELSE raw

-----------------------------------------------------------------------------
(* Assembling the context of a key.                                        *)

\* The vendor of the first order of a kind, by date and then by order.
ResolveVendor(ctx, kind) ==
    LET orders == {o \in ctx.orders : o.type = kind}
        first  == CHOOSE o \in orders : \A x \in orders :
                      o.due < x.due \/ (o.due = x.due /\ o.id <= x.id)
    IN  IF orders = {} \/ first.vendor = Nobody THEN DefaultVendor ELSE first.vendor

HasEconomics(ctx) ==
    {ResolveVendor(ctx, "PO"), DefaultVendor} \cap DOMAIN ctx.economics # {}

Economics(ctx) ==
    LET v == ResolveVendor(ctx, "PO")
    IN  ctx.economics[IF v \in DOMAIN ctx.economics THEN v ELSE DefaultVendor]

\* Realised or promised, by the vendor or the default one, else what the
\* current levels were set for, else two weeks.
LeadDays(ctx) ==
    LET v == ResolveVendor(ctx, "PO")
    IN  CASE v \in DOMAIN ctx.leads             -> ctx.leads[v]
          [] v \notin DOMAIN ctx.leads /\ DefaultVendor \in DOMAIN ctx.leads
                                                -> ctx.leads[DefaultVendor]
          [] OTHER -> IF ctx.replenishment > 0 THEN ctx.replenishment ELSE 14

Assembles(ctx) == ctx.complete /\ HasEconomics(ctx)

\* Known demand without a date makes what is known of the future partial.
ScheduledStatus(ctx) ==
    IF ~ctx.requisitioned THEN "unavailable"
    ELSE IF \E s \in ctx.scheduled : s.due = None THEN "partial" ELSE "available"

-----------------------------------------------------------------------------
(* Levels: the formula's, tightened by the constraints of the part.        *)

\* Nothing if tightening breaks a floor.
Constrained(ctx, perDay) ==
    LET f    == ctx.formula
        eoq  == Most(f.eoq, Economics(ctx).moq)
        rop  == Most(f.rop, f.ss)
        free == Most(f.max, rop + eoq)
        life == IF ctx.shelf = 0 THEN free
                ELSE Least(free, (6 * ctx.shelf * perDay) \div 1000)
        cap  == IF ctx.hazmat /\ ctx.current.max > 0
                THEN Least(life, 2 * ctx.current.max) ELSE life
    IN  IF cap < rop + eoq THEN {}
        ELSE {[rop |-> rop, eoq |-> eoq, ss |-> f.ss, max |-> cap,
               flags |-> {x \in {"shelf_life_clamped"} : life < free}
                           \cup {x \in {"hazmat_tool_capped"} : cap < life}]}

\* Why a key is left out, or that it is not.
SkippedWith(ctx, basis) ==
    CASE ~Assembles(ctx)                        -> "missing_input"
      [] Assembles(ctx) /\ Economics(ctx).cost <= 0 -> "invalid_unit_cost"
      [] /\ Assembles(ctx) /\ Economics(ctx).cost > 0
         /\ basis.exposure <= 0                 -> "demand_history_unavailable"
      [] /\ Assembles(ctx) /\ Economics(ctx).cost > 0 /\ basis.exposure > 0
         /\ Constrained(ctx, basis.perDay) = {} -> "policy"
      [] OTHER                                  -> "served"

SkipReason(ctx) == SkippedWith(ctx, Basis(ctx.history))

Served(contexts)    == {k \in DOMAIN contexts : SkipReason(contexts[k]) = "served"}
LevelsOf(ctx)       == CHOOSE v \in Constrained(ctx, Basis(ctx.history).perDay) : TRUE
AvailableUnits(ctx) == Most(0, ctx.serviceable - ctx.reserved)

-----------------------------------------------------------------------------
(* Net positions, of a key and of the interchangeable parts around it.     *)

Due(ctx, w) ==
    {o \in ctx.orders : o.type = "PO" /\ o.due # None /\ o.due <= w}

ScheduledIn(ctx, w) == {s \in ctx.scheduled : 0 <= s.due /\ s.due <= w}

Contribution(ctx, key, w) ==
    LET receipts  == Total(Due(ctx, w), LAMBDA o : o.qty)
        scheduled == Total(ScheduledIn(ctx, w), LAMBDA s : s.qty)
        demand    == w * Basis(ctx.history).perDay + Units(scheduled)
        undatedD  == {s \in ctx.scheduled : s.due = None}
        undatedR  == {o \in ctx.orders : o.type = "PO" /\ o.due = None}
    IN  [key |-> key, available |-> AvailableUnits(ctx), receipts |-> receipts,
         overdue |-> Total({o \in Due(ctx, w) : o.due < 0}, LAMBDA o : o.qty),
         scheduled |-> scheduled, demand |-> demand,
         net |-> Units(AvailableUnits(ctx) + receipts) - demand,
         demandStatus  |-> ScheduledStatus(ctx),
         demandUndated |-> Cardinality(undatedD),
         receiptStatus |-> IF ~ctx.ordered THEN "unavailable"
                           ELSE IF undatedR # {} THEN "partial" ELSE "available",
         receiptUndated |-> Cardinality(undatedR)]

\* Parts one may be used for the other, by the two-way edges of one's graph.
TwoWay(graph) ==
    LET both == {e \in graph.edges : ~e.oneWay}
    IN  {graph.pn} \cup {e.from : e \in both} \cup {e.to : e \in both}
          \cup IF graph.edges = {} THEN graph.members ELSE {}

Expected(graphs, k) ==
    IF k[1] \notin DOMAIN graphs THEN {k}
    ELSE {<<pn, k[2]>> : pn \in TwoWay(graphs[k[1]])}

\* The keys of the work list that are served and pooled with a key: of its
\* location, its group and its two-way parts.
Members(graphs, served, k) ==
    IF k[1] \notin DOMAIN graphs THEN {}
    ELSE {m \in served \cap Expected(graphs, k) :
             /\ m[1] \in DOMAIN graphs
             /\ graphs[m[1]].members = graphs[k[1]].members}

PoolOf(graphs, served, k) ==
    IF Cardinality(Expected(graphs, k)) > 1 THEN Members(graphs, served, k) ELSE {k}

\* Fault: one member whose source was read in full speaks for all of them.
BestState(states) ==
    IF "available" \in states THEN "available"
    ELSE IF states = {"unavailable"} THEN "unavailable" ELSE "partial"

\* What is known of a pool.
AggregateStatus(states) ==
    IF states = {"available"} THEN "available"
    ELSE IF states = {"unavailable"} THEN "unavailable" ELSE "partial"

\* The sums over a pool, and which keys of the group were not in it.
RollUp(parts, excluded, w) ==
    LET net == Total(parts, LAMBDA c : c.net)
    IN  [horizon |-> w, members |-> parts, net |-> net, shortage |-> Most(0, -net),
         demand  |-> Total(parts, LAMBDA c : c.demand),
         available |-> Total(parts, LAMBDA c : c.available),
         receipts  |-> Total(parts, LAMBDA c : c.receipts),
         demandStatus  |-> AggregateStatus({c.demandStatus : c \in parts}),
         receiptStatus |-> AggregateStatus({c.receiptStatus : c \in parts}),
         demandUndated  |-> Total(parts, LAMBDA c : c.demandUndated),
         receiptUndated |-> Total(parts, LAMBDA c : c.receiptUndated),
         scope |-> IF excluded # {} THEN "worklist_partial"
                   ELSE IF Cardinality(parts) > 1 THEN "complete_group" ELSE "single_key",
         excluded |-> excluded]

\* A pool's position over a window of days.
NetPosition(contexts, pool, excluded, w) ==
    RollUp({Contribution(contexts[m], m, w) : m \in pool}, excluded, w)

\* The validators of the evidence a recommendation carries: what is not known
\* has no quantity, what is partly known has lines left out, and a pool's
\* state sums up its members'.
MemberReconciles(c) ==
    /\ c.overdue <= c.receipts
    /\ c.net = Units(c.available + c.receipts) - c.demand
    /\ c.demandStatus = "available" => c.demandUndated = 0
    /\ c.demandStatus = "partial" => c.demandUndated > 0
    /\ c.demandStatus = "unavailable" => c.scheduled = 0 /\ c.demandUndated = 0
    /\ c.receiptStatus = "available" => c.receiptUndated = 0
    /\ c.receiptStatus = "partial" => c.receiptUndated > 0
    /\ c.receiptStatus = "unavailable" => c.receipts = 0 /\ c.receiptUndated = 0

EvidenceReconciles(np, pooled) ==
    /\ np.members # {}
    /\ \A c \in np.members : MemberReconciles(c)
    /\ np.net = Units(np.available + np.receipts) - np.demand
    /\ \A state \in {"available", "unavailable"} :
          /\ np.demandStatus = state <=> \A c \in np.members : c.demandStatus = state
          /\ np.receiptStatus = state <=> \A c \in np.members : c.receiptStatus = state
    /\ np.demandStatus = "available" => np.demandUndated = 0
    /\ np.receiptStatus = "available" => np.receiptUndated = 0
    /\ {c.key : c \in np.members} \cap np.excluded = {}
    /\ np.scope = "worklist_partial" <=> np.excluded # {}
    /\ np.scope = "complete_group" => Cardinality(np.members) > 1
    /\ IF np.scope = "single_key" THEN Cardinality(np.members) = 1 ELSE pooled

-----------------------------------------------------------------------------
(* The recommenders.  A call is a key with all it is served from.          *)

\* What is recommended for a key alone rests on its own position.
OwnPosition(c, k, w) == NetPosition(c.contexts, {k}, {}, w)

\* The key with the members of its group and the pool of its positions.
CallOver(c, k, members, pool, window) ==
    LET ctx == c.contexts[k]
    IN  [key |-> k, ctx |-> ctx, levels |-> LevelsOf(ctx), pool |-> pool,
         pooled |-> k[1] \in DOMAIN c.graphs, window |-> window, horizon |-> c.horizon,
         net    |-> NetPosition(c.contexts, pool, Expected(c.graphs, k) \ pool, window),
         own    |-> OwnPosition(c, k, window),
         near   |-> OwnPosition(c, k, c.horizon),
         members |-> members,
         donors |-> {d \in DOMAIN c.contexts :
                        /\ d[1] = k[1] /\ d[2] # k[2] /\ Assembles(c.contexts[d])
                        /\ AvailableUnits(c.contexts[d]) > c.contexts[d].current.max},
         excess |-> [d \in DOMAIN c.contexts |->
                        AvailableUnits(c.contexts[d]) - c.contexts[d].current.max]]

CallAmong(c, served, k) ==
    CallOver(c, k, Members(c.graphs, served, k), PoolOf(c.graphs, served, k),
             Most(LeadDays(c.contexts[k]), c.horizon))

Call(c, k) == CallAmong(c, Served(c.contexts), k)

Recommendation(call, type, qty, cost, shortage, net, change, donor, flags) ==
    [key |-> call.key, type |-> type, qty |-> qty, cost |-> cost, shortage |-> shortage,
     evidence |-> net, change |-> change, donor |-> donor,
     flags |-> flags \cup call.levels.flags]

Fields == {"rop", "eoq", "ss", "max"}

\* New levels that differ by more than 5 % from the current ones.
AdjustMinMax(call) ==
    LET new == call.levels
        old == call.ctx.current
        change == {<<IF new[f] < old[f] THEN old[f] - new[f] ELSE new[f] - old[f],
                     Most(old[f], 1)>> : f \in Fields}
        stock  == call.own.available
                    + Total(Due(call.ctx, call.window), LAMBDA o : o.qty)
    IN  IF \A d \in change : 100 * d[1] <= 5 * d[2] THEN {}
        ELSE {Recommendation(call, "ADJUST", new.max,
                 25 * (new.max - old.max) * Economics(call.ctx).cost, 0, call.own, change, None,
                 {x \in {"delta_gt_100pct"} : \E d \in change : d[1] > d[2]}
                   \cup {x \in {"open_order_deferral"} :
                            call.own.receiptStatus # "available" \/ stock > new.max})}

Highvalue(ctx) == Economics(ctx).cost >= 5000

\* What is above the levels and not used, or would outlive its shelf life.
ReduceSell(call) ==
    LET ctx    == call.ctx
        limit  == Most(call.levels.max, ctx.current.max)
        excess == ctx.serviceable - limit
        unused == Basis(ctx.history).units = 0
        idle   == 2 * ctx.serviceable > 3 * limit /\ unused /\ Highvalue(ctx)
        type   == IF unused /\ ScheduledIn(ctx, call.horizon) = {} /\ Highvalue(ctx)
                  THEN "SELL" ELSE "REDUCE"
    IN  IF /\ ScheduledStatus(ctx) = "available"
           /\ idle \/ ctx.shelf > 0
           /\ excess > 0
        THEN {Recommendation(call, type, excess, -25 * excess * Economics(ctx).cost, 0,
                             call.near, {}, None, {})}
        ELSE {}

\* A purchase covers the pooled shortage and the safety stock.
Purchase(call) ==
    LET e   == Economics(call.ctx)
        qty == Most(e.moq, Ceil(call.net.shortage + Units(call.levels.ss)))
    IN  IF call.net.net >= 0 THEN {}
        ELSE {Recommendation(call, "PURCHASE", qty, 100 * qty * e.cost, call.net.shortage,
                             call.net, {<<call.net.shortage, call.net.demand>>}, None, {})}

\* A transfer takes three days, from the first location that has too much.
Transfer(call) ==
    LET donor == CHOOSE d \in call.donors : \A x \in call.donors : d[2] <= x[2]
        qty   == Least(Whole(call.net.shortage) + 1, call.excess[donor])
    IN  IF call.net.shortage = 0 \/ call.donors = {} \/ LeadDays(call.ctx) < 3 THEN {}
        ELSE {Recommendation(call, "TRANSFER", qty, 100 * qty * Economics(call.ctx).cost,
                             call.net.shortage, call.net,
                             {<<call.net.shortage, call.net.demand>>}, donor[2], {})}

\* Fault: every member of a pool replenishes it.
EveryMember(call) == call.members # {} \/ ~call.pooled

\* Only the first member of a pool does.
Representative(call) ==
    \/ Cardinality(call.members) <= 1
    \/ \A m \in call.members : call.key[1] <= m[1]

Proposed(call) ==
    AdjustMinMax(call) \cup ReduceSell(call)
      \cup IF Representative(call) THEN Purchase(call) \cup Transfer(call) ELSE {}

Inbound  == {"PURCHASE", "TRANSFER"}
Outbound == {"REDUCE", "SELL"}

\* What a purchase has left to cover once a transfer has been made.
Residual(call, recs) ==
    LET moved == Total({r \in recs : r.type = "TRANSFER"}, LAMBDA r : r.qty)
        left(r) == r.shortage - Units(moved)
        buy(r)  == Most(Economics(call.ctx).moq, Ceil(left(r)))
    IN  IF moved = 0 THEN recs
        ELSE {r \in recs : r.type # "PURCHASE"} \cup
             {[r EXCEPT !.qty = buy(r), !.shortage = left(r),
                        !.cost = 100 * buy(r) * Economics(call.ctx).cost,
                        !.change = {<<left(r), call.net.demand>>}] :
                r \in {x \in recs : x.type = "PURCHASE" /\ left(x) > 0}}

\* Fault: a key that is short may still be told to sell.
ArbitrateInbound(call, recs) == Residual(call, recs)

Arbitrate(call, recs) ==
    Residual(call, IF call.net.net < 0 THEN {r \in recs : r.type \notin Outbound} ELSE recs)

-----------------------------------------------------------------------------
(* Risk, autonomy, confidence and rank.                                    *)

\* From 0 (none) to 4 (critical).
RiskLevel(ctx, short) ==
    LET days == IF ctx.repairable /\ ctx.repairDays # None THEN ctx.repairDays ELSE LeadDays(ctx)
        long == IF days > 45 THEN 1 ELSE 0
    IN  IF ~short THEN (IF ctx.crit <= 2 THEN 1 ELSE 0)
        ELSE (IF ctx.crit <= 2 THEN 3 ELSE IF ctx.crit = 3 THEN 2 ELSE 1) + long

SuggestTier(crit, cost, change) ==
    LET over(percent) == \E d \in change : d[2] > 0 /\ 100 * d[1] > percent * d[2]
    IN  IF crit = 1 \/ cost >= 10000 \/ over(25) THEN "advisor"
        ELSE IF crit \in {4, 5} /\ cost < 500 /\ ~over(40) THEN "autonomous" ELSE "bounded"

StubInputs(ctx) ==
    {x \in {"repair_tat"} : ctx.repairDays = None} \cup {x \in {"aog"} : ~ctx.aog}
      \cup {x \in {"scheduled_demand"} : ScheduledStatus(ctx) # "available"}

SufficientEvents == <<3, 12, 60, 200>>

\* In ten-thousandths.
Confidence(ctx) ==
    LET basis == Basis(ctx.history)
        enough == SufficientEvents[Classify(basis.events, basis.exposure, 0)]
    IN  Most(10, Least(100, (100 * basis.events) \div enough))
          * (100 - 15 * Cardinality(StubInputs(ctx)))

Finalized(call, r) ==
    LET ctx   == call.ctx
        level == RiskLevel(ctx, r.shortage > 0 \/ call.net.shortage > 0)
    IN  [key |-> r.key, type |-> r.type, qty |-> r.qty, cost |-> r.cost, shortage |-> r.shortage,
         evidence |-> r.evidence, change |-> r.change, donor |-> r.donor, flags |-> r.flags,
         risk |-> level, confidence |-> Confidence(ctx),
         tier |-> IF ctx.aog \/ level >= 3 THEN "advisor"
                  ELSE SuggestTier(ctx.crit, Economics(ctx).cost, r.change),
         score |-> (6 - ctx.crit) * (1 + level) * (IF r.cost < 0 THEN -r.cost ELSE r.cost)]

TypeOrder == [PURCHASE |-> 0, TRANSFER |-> 1, ADJUST |-> 2, REDUCE |-> 3, SELL |-> 4]

RankedBefore(a, b, crit) ==
    LET order(r) == <<-r.score, crit[r.key], r.key[1], TypeOrder[r.type], r.key[2]>>
    IN  \E i \in 1..5 : /\ order(a)[i] < order(b)[i]
                        /\ \A j \in 1..(i - 1) : order(a)[j] = order(b)[j]

RecommendKey(call) ==
    {Finalized(call, r) : r \in Arbitrate(call, Proposed(call))}

\* The recommendations in the order they are shown.
Ranked(recs, crit) ==
    [i \in 1..Cardinality(recs) |->
        CHOOSE r \in recs : Cardinality({x \in recs : RankedBefore(x, r, crit)}) = i - 1]

\* Evidence that a validator refuses raises out of the whole run.
Batch(c, calls) ==
    LET sound == \A call \in calls : \A r \in Proposed(call) :
                    EvidenceReconciles(r.evidence, call.pooled)
        served == {call.key : call \in calls}
    IN  IF sound
        THEN [raised |-> FALSE,
              ranked |-> Ranked(UNION {RecommendKey(call) : call \in calls},
                                [k \in served |-> c.contexts[k].crit]),
              skipped |-> {<<k, SkipReason(c.contexts[k])>> :
                              k \in DOMAIN c.contexts \ served}]
        ELSE [raised |-> TRUE, ranked |-> <<>>, skipped |-> {}]

Calls(c, served) == {CallAmong(c, served, k) : k \in served}

Run(c) == Batch(c, Calls(c, Served(c.contexts)))

RunBatch == Computes("batch", {Run(case)})

RecommendationStep == RunBatch

-----------------------------------------------------------------------------
(* The types of a work list: those of the feature groups and of the        *)
(* provider, what a group that was not read is left with, and levels as    *)
(* the formulas return them, none below zero.                              *)

LevelsTyped(levels) == \A f \in Fields : levels[f] \in Nat

HistoryTyped(history) ==
    /\ history.bucket \in Nat \ {0} /\ history.from \in Int /\ history.to \in Int
    /\ IsFiniteSet(history.observations)
    /\ \A o \in history.observations : o.day \in Int /\ o.units \in Nat /\ o.events \in Nat

LinesTyped(ctx) ==
    /\ IsFiniteSet(ctx.orders) /\ IsFiniteSet(ctx.scheduled)
    /\ \A x \in ctx.orders \cup ctx.scheduled : x.due \in Int /\ x.qty \in Nat
    /\ ctx.ordered \/ ctx.orders = {}
    /\ ctx.requisitioned \/ ctx.scheduled = {}

ContextTyped(ctx) ==
    /\ HistoryTyped(ctx.history) /\ LinesTyped(ctx)
    /\ LevelsTyped(ctx.formula) /\ LevelsTyped(ctx.current)
    /\ \A v \in DOMAIN ctx.economics :
          ctx.economics[v].cost \in Int /\ ctx.economics[v].moq \in Nat
    /\ \A v \in DOMAIN ctx.leads : ctx.leads[v] \in Nat
    /\ ctx.serviceable \in Nat /\ ctx.reserved \in Nat /\ ctx.shelf \in Nat
    /\ ctx.replenishment \in Nat /\ ctx.repairDays \in Nat /\ ctx.crit \in 1..5

GraphTyped(graph, pn) ==
    /\ graph.pn = pn
    /\ IsFiniteSet(graph.edges) /\ IsFiniteSet(graph.members)

WorkListTyped(c) ==
    /\ c.horizon \in Nat
    /\ IsFiniteSet(DOMAIN c.contexts) /\ DOMAIN c.contexts \subseteq Nat \X (Nat \ {None})
    /\ \A k \in DOMAIN c.contexts : ContextTyped(c.contexts[k])
    /\ \A pn \in DOMAIN c.graphs : GraphTyped(c.graphs[pn], pn)

-----------------------------------------------------------------------------
(* What must hold.                                                         *)

Recommended == {result.ranked[i] : i \in DOMAIN result.ranked}

\* The evidence of a recommendation always passes the validators of its
\* contract, whatever is missing, undated, pooled or left out of the work list:
\* otherwise one key takes the batch of the whole tenant with it.
EvidenceIsAccepted == Computed("batch") => ~result.raised

\* No key is told to buy or fetch a part and to give it away as well.
NoContradiction ==
    Computed("batch") =>
    \A a, b \in Recommended : a.type \in Inbound /\ b.type \in Outbound => a.key # b.key

\* Where all members of a pool see the same pool, its shortage is replenished
\* by one of them, in full, and with no more than that and the safety stock
\* or the smallest order.
ShortageIsReplenishedOnce ==
    Computed("batch") /\ ~result.raised =>
    \A call \in Calls(case, Served(case.contexts)) :
        LET brought == {r \in Recommended : r.key \in call.pool /\ r.type \in Inbound}
            covers  == Total(brought, LAMBDA r : Units(r.qty))
        IN  /\ call.net.net < 0
            /\ \A m \in call.pool : /\ PoolOf(case.graphs, Served(case.contexts), m) = call.pool
                                    /\ call.key[1] <= m[1]
            => /\ Cardinality({r.key : r \in brought}) = 1
               /\ covers >= call.net.shortage
               /\ covers <= call.net.shortage + Units(call.levels.ss + 1
                              + Economics(call.ctx).moq)
=============================================================================
