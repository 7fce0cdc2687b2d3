------------------------------ MODULE Candidates ------------------------------
(***************************************************************************)
(* The candidate frontier of a key (recommendation-engine/candidate): the  *)
(* options a portfolio may choose from, made of the recommendations the    *)
(* key was given, each with the position and the costs that follow from    *)
(* it, less the options that another one is better than in every respect.  *)
(*                                                                         *)
(* An option's identifier is a hash of its content: here the content.      *)
(* Quantities moved are whole units, positions hundredths, cash whole, and *)
(* the other costs cents, at the default rates of a tenant.                *)
(***************************************************************************)
EXTENDS Recommendations

OrderingCents == 15000     \* ordering_cost of TenantPolicyConfig, 150

\* Holding at 25 % a year, rounded half up to a cent.
HoldingCents(excess, value, days) == (2 * excess * value * days + 1460) \div 2920

Sum(S, f) == Total(S, LAMBDA x : x[f])

-----------------------------------------------------------------------------
(* Action lines.                                                           *)

KindOf == [PURCHASE |-> "purchase", TRANSFER |-> "transfer_in", REDUCE |-> "reduce_stock",
           SELL |-> "sell", ADJUST |-> "adjust_policy"]

NoAction == [kind |-> "no_change", qty |-> 0, unit |-> 0, source |-> None]

ActionOf(r, unitCost) ==
    [kind |-> KindOf[r.type], qty |-> IF r.type = "ADJUST" THEN 0 ELSE r.qty,
     unit |-> IF r.type = "PURCHASE" THEN unitCost ELSE 0, source |-> r.donor]

ActionAccepted(a) ==
    /\ a.qty = 0 <=> (a.kind \in {"no_change", "adjust_policy"})
    /\ a.qty >= 0
    /\ a.kind # "purchase" => a.unit = 0
    /\ a.kind = "transfer_in" => a.source # None

Moves(actions, kinds) == {a \in actions : a.kind \in kinds}

\* A transfer with the purchase of what is left is one option; two other
\* movements of one key are none.
CandidateKinds(recs) ==
    LET physical == {r.type : r \in recs} \ {"ADJUST"}
    IN  CASE physical = Inbound        -> {"transfer_purchase"}
          [] physical = {"TRANSFER"}   -> {"transfer"}
          [] Cardinality(physical) = 1 /\ physical # {"TRANSFER"}
                                       -> {KindOf[t] : t \in physical}
          [] physical = {} /\ recs # {} -> {"adjust_policy"}
          [] OTHER                     -> {}

-----------------------------------------------------------------------------
(* An option, reconciled from its actions and the position it starts from. *)

\* The constraints of an option that are not met, from its own numbers.
HardFailures(target, before, inbound, outbound) ==
    {x \in {"reorder_point_floor"} : target.rop < target.ss}
      \cup {x \in {"maximum_stock_floor"} : target.max < target.rop + target.eoq}
      \cup {x \in {"physical_outbound_limit"} : outbound > before + inbound}

ReconcileCandidate(kind, current, target, actions, pos, value, aog, confidence, reasons) ==
    LET bought   == Sum(Moves(actions, {"purchase"}), "qty")
        fetched  == Sum(Moves(actions, {"transfer_in"}), "qty")
        outbound == Sum(Moves(actions, {"transfer_out", "reduce_stock", "sell"}), "qty")
        before   == pos.available + pos.receipts
        net      == Units(before + bought + fetched - outbound) - pos.demand
        hard     == HardFailures(target, before, bought + fetched, outbound)
    IN  [kind |-> kind, current |-> current, target |-> target, actions |-> actions,
         cash |-> Total(actions, LAMBDA a : a.qty * a.unit),
         purchase |-> bought, transfer |-> fetched, outbound |-> outbound,
         moved    |-> Sum(actions, "qty"),
         available |-> pos.available, receipts |-> pos.receipts, demand |-> pos.demand,
         net      |-> net, shortage |-> Most(0, -net), excess |-> Most(0, net),
         holding  |-> HoldingCents(Most(0, net), value, pos.horizon),
         ordering |-> OrderingCents * Cardinality(Moves(actions, {"purchase"})),
         shortageCost |-> value * Most(0, -net),
         aog |-> aog, confidence |-> confidence, reasons |-> reasons, hard |-> hard,
         feasible |-> reasons = {} /\ hard = {}]

IsNoChange(c) == c.kind = "no_change"

\* Doing nothing costs nothing and has its consequences all the same.
NoChange(current, pos, value, aog, confidence) ==
    ReconcileCandidate("no_change", current, current, {NoAction}, pos, value, aog, confidence, {})

\* The validators of PolicyCandidate.
MovementsOf ==
    [no_change |-> {"no_change"}, purchase |-> {"purchase"}, transfer |-> {"transfer_in"},
     transfer_purchase |-> {"transfer_in", "purchase"}, adjust_policy |-> {},
     reduce_stock |-> {"reduce_stock"}, sell |-> {"sell"}]

CandidateAccepted(c) ==
    /\ c.actions # {}
    /\ \A a \in c.actions : ActionAccepted(a)
    /\ c.feasible <=> (c.hard = {} /\ c.reasons = {})
    /\ c.moved = c.purchase + c.transfer + c.outbound
    /\ c.net = Units(c.available + c.receipts + c.purchase + c.transfer - c.outbound) - c.demand
    /\ c.shortage = Most(0, -c.net) /\ c.excess = Most(0, c.net)
    /\ c.cash = Total(c.actions, LAMBDA a : a.qty * a.unit)
    /\ {a.kind : a \in c.actions} \ {"adjust_policy"} = MovementsOf[c.kind]
    /\ c.kind = "adjust_policy" => \E a \in c.actions : a.kind = "adjust_policy"
    /\ IsNoChange(c) => c.target = c.current /\ c.moved = 0 /\ c.cash = 0

-----------------------------------------------------------------------------
(* Dominance.                                                              *)

\* The service level, in demand that is met: the demand of all the options
\* of a key is the same.
Service(c) == IF c.demand = 0 THEN 1 ELSE Most(0, c.demand - c.shortage)

\* What the optimizer weighs, less of it being better.
OptimizerDimensions(c) ==
    <<c.cash, c.purchase, c.transfer, c.outbound, c.moved, c.holding, c.ordering,
      c.shortageCost, c.shortage, c.excess, c.aog, -Service(c), -c.confidence>>

Dominates(left, right) ==
    LET l == OptimizerDimensions(left)
        r == OptimizerDimensions(right)
    IN  /\ left.feasible /\ right.feasible
        /\ \A i \in DOMAIN l : l[i] <= r[i]
        /\ \E i \in DOMAIN l : l[i] < r[i]

\* What is not feasible stays, to be explained, and so does doing nothing.
PruneDominated(options) ==
    {c \in options : \/ IsNoChange(c) \/ ~c.feasible
                     \/ ~\E other \in options \ {c} : Dominates(other, c)}

-----------------------------------------------------------------------------
(* The frontier of a served key.                                           *)

\* Fault: the change of levels sets the horizon of the frontier.
AdjustFirst(call, recs) ==
    IF recs = {} \/ \E r \in recs : r.type = "ADJUST" THEN call.window
    ELSE Min({r.evidence.horizon : r \in recs})

\* The horizon of what is to be brought in, else of what is to go, else of
\* the change of levels.
CanonicalHorizon(call, recs) ==
    LET priority(r) == IF r.type \in Inbound THEN 0 ELSE IF r.type \in Outbound THEN 1 ELSE 2
        first == {r \in recs : \A x \in recs : priority(r) <= priority(x)}
    IN  IF recs = {} THEN call.window ELSE Min({r.evidence.horizon : r \in first})

HardStops == {"delta_gt_100pct", "open_order_deferral"}

InfeasibilityReasons(recs) == HardStops \cap UNION {r.flags : r \in recs}

\* What is to be brought in belongs together.
PhysicalGroups(recs) ==
    {g \in {{r \in recs : r.type \in Inbound}, {r \in recs : r.type = "REDUCE"},
            {r \in recs : r.type = "SELL"}} : g # {}}

EndingNet(net, recs) ==
    net + Units(Sum({r \in recs : r.type \in Inbound}, "qty")
                - Sum({r \in recs : r.type \in Outbound}, "qty"))

FromRecommendations(call, pos, recs, target, aog) ==
    {ReconcileCandidate(kind, call.ctx.current, target,
        {ActionOf(r, Economics(call.ctx).cost) : r \in recs}, pos, Economics(call.ctx).cost,
        aog, Confidence(call.ctx), InfeasibilityReasons(recs)) : kind \in CandidateKinds(recs)}

\* Doing nothing, the change of levels, and each movement with the levels as
\* they are and, if they are to change, as proposed.
OptionsAt(call, pos, usable) ==
    LET adjust   == {r \in usable : r.type = "ADJUST"}
        proposed == [f \in Fields |-> call.levels[f]]
        now      == RiskLevel(call.ctx, pos.shortage > 0)
        after(g) == RiskLevel(call.ctx, EndingNet(pos.net, g) < 0)
        moves(g) == FromRecommendations(call, pos, g, call.ctx.current, after(g))
        both(g)  == FromRecommendations(call, pos, g \cup adjust, proposed, after(g))
        groups   == PhysicalGroups(usable)
        physical == UNION {moves(g) : g \in groups}
        combined == UNION {both(g) : g \in groups}
        none     == NoChange(call.ctx.current, pos, Economics(call.ctx).cost, now, Confidence(call.ctx))
    IN  {none} \cup physical
          \cup (IF adjust = {} THEN {}
                ELSE FromRecommendations(call, pos, adjust, proposed, now) \cup combined)

\* Only advice that rests on the very position of the frontier is an option of it.
AdviceAt(call, recs, pos) == OptionsAt(call, pos, {r \in recs : r.evidence = pos})

ServiceOptions(c, call, recs) ==
    AdviceAt(call, recs,
             NetPosition(c.contexts, call.pool, Expected(c.graphs, call.key) \ call.pool,
                         CanonicalHorizon(call, recs)))

\* The checks of CandidatePlanner and of CandidateFrontier.
FrontierAccepted(frontier) ==
    /\ frontier.key \in frontier.members
    /\ \A o \in frontier.considered : CandidateAccepted(o)
    /\ Cardinality({o \in frontier.considered : IsNoChange(o)}) = 1

Frontier(call, options) ==
    [key |-> call.key, members |-> call.pool, considered |-> options,
     options |-> PruneDominated(options)]

FrontierOf(c, call) == Frontier(call, ServiceOptions(c, call, RecommendKey(call)))

ServiceFrontier(c, k) == FrontierOf(c, Call(c, k))

\* A frontier that a validator refuses raises out of the whole preview.
Previewed(frontiers) ==
    [raised |-> \E k \in DOMAIN frontiers : ~FrontierAccepted(frontiers[k]),
     frontiers |-> frontiers]

Preview(c) == Previewed([k \in Served(c.contexts) |-> ServiceFrontier(c, k)])

RunWithFrontiers == Computes("preview", {Preview(case)})

-----------------------------------------------------------------------------
(* What must hold.                                                         *)

\* What the planner is told to bring in is an option of the key's frontier,
\* and so is what a key that is served alone is told to give up, whatever else
\* the key was told and on which horizon; and no frontier is refused.
AdviceIsOffered ==
    Computed("preview") =>
    /\ ~result.raised
    /\ \A k \in DOMAIN result.frontiers :
          \A r \in RecommendKey(Call(case, k)) :
             r.type \in Inbound \/ (r.type \in Outbound /\ Expected(case.graphs, k) = {k})
             => \E o \in result.frontiers[k].considered :
                   \E a \in o.actions : a.kind = KindOf[r.type] /\ a.qty = r.qty
=============================================================================
