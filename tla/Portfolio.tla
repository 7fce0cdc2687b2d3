------------------------------- MODULE Portfolio -------------------------------
(***************************************************************************)
(* Choosing one option for every key under a budget (recommendation-engine *)
(* /portfolio): PortfolioOptimizer.solve, and the explanation of a plan.   *)
(*                                                                         *)
(* A request has a budget and, for every key, a menu: its options in the   *)
(* order of their identifiers, the criticality of the key and its floors.  *)
(* The solver is external: within its time limit it finds the optimum of   *)
(* an integer program and says so, or some plan that meets the constraints,*)
(* or none.  Objectives are in ten-thousandths, at the default weights.    *)
(***************************************************************************)
EXTENDS Candidates

CriticalityWeights == <<5, 3, 2, 1, 1>>
LowConfidence      == 5000
NoPlan             == <<>>

Baseline(menu) == CHOOSE i \in DOMAIN menu.options : IsNoChange(menu.options[i])

\* A frontier keeps what pruning keeps of the options of its key.
OnFrontier(menu) ==
    LET kept == PruneDominated({menu.options[i] : i \in DOMAIN menu.options})
    IN  {i \in DOMAIN menu.options : menu.options[i] \in kept}

SatisfiedBy(floor, c) ==
    /\ floor.service # None  => c.demand = 0 \/ 100 * Service(c) >= floor.service * c.demand
    /\ floor.shortage # None => c.shortage <= floor.shortage
    /\ floor.aog # None      => c.aog <= floor.aog

Unsatisfied(menu, i) == {f.id : f \in {x \in menu.floors : ~SatisfiedBy(x, menu.options[i])}}

Eligible(menu) ==
    {i \in OnFrontier(menu) : /\ menu.options[i].feasible
                              /\ menu.options[i].hard = {}
                              /\ Unsatisfied(menu, i) = {}}

\* What an option is worth, against doing nothing.
ObjectiveOf(menu, i) ==
    LET base == menu.options[Baseline(menu)]
        c    == menu.options[i]
    IN  CriticalityWeights[menu.tier]
          * (100 * (base.shortage - c.shortage) + 2500 * (base.aog - c.aog))
        - (c.holding - base.holding) - (c.ordering - base.ordering)

Cash(menu, i) == menu.options[i].cash

Over(q, f) == Total(DOMAIN q.menus, LAMBDA k : f[k])

Spend(q, plan)     == Over(q, [k \in DOMAIN plan |-> Cash(q.menus[k], plan[k])])
Objective(q, plan) == Over(q, [k \in DOMAIN plan |-> ObjectiveOf(q.menus[k], plan[k])])

-----------------------------------------------------------------------------
(* Solving.                                                                *)

Stuck(q) == {k \in DOMAIN q.menus : Eligible(q.menus[k]) = {}}

LeastCash(menu) == Min({Cash(menu, i) : i \in Eligible(menu)})

\* Of the keys that have something to choose from.
MinimumBudget(q) ==
    Total(DOMAIN q.menus \ Stuck(q), LAMBDA k : LeastCash(q.menus[k]))

InfeasibleFloors(q) ==
    UNION {{f.id : f \in {x \in q.menus[k].floors :
              ~\E i \in OnFrontier(q.menus[k]) : /\ q.menus[k].options[i].feasible
                                                 /\ SatisfiedBy(x, q.menus[k].options[i])}} :
           k \in Stuck(q)}

\* The plans that meet the constraints of the program.
Plans(q) ==
    LET eligible == [k \in DOMAIN q.menus |-> Eligible(q.menus[k])]
    IN  {plan \in [DOMAIN q.menus -> UNION {eligible[k] : k \in DOMAIN q.menus}] :
            /\ \A k \in DOMAIN plan : plan[k] \in eligible[k]
            /\ Spend(q, plan) <= q.budget}

Best(q, plans) ==
    LET most == Max({Objective(q, p) : p \in plans}) IN {p \in plans : Objective(q, p) = most}

Cheapest(q, plans) ==
    LET least == Min({Spend(q, p) : p \in plans}) IN {p \in plans : Spend(q, p) = least}

\* Fault: the second pass forgets what the first one found.
TieBreakAnywhere(q, plans) == Cheapest(q, plans)

\* At the best objective the least cash.
TieBreak(q, plans) == Cheapest(q, Best(q, plans))

\* And then the first option, key by key.
FirstByKey(plans) ==
    {p \in plans : \A x \in plans \ {p} :
        \E k \in DOMAIN p : /\ p[k] < x[k]
                            /\ \A j \in DOMAIN p : j < k => p[j] = x[j]}

\* A pass that runs out of time leaves the plan of the one before, or none.
Incumbents(q) ==
    {[plan |-> NoPlan, proven |-> FALSE]}
      \cup {[plan |-> p, proven |-> FALSE] : p \in Plans(q)}
      \cup {[plan |-> p, proven |-> TRUE]  : p \in FirstByKey(TieBreak(q, Plans(q)))}

-----------------------------------------------------------------------------
(* Explaining a plan.                                                      *)

Summary(q, plan) ==
    LET chosen == {k \in DOMAIN plan : TRUE}
        of(k)  == q.menus[k].options[plan[k]]
    IN  [spend |-> Spend(q, plan), slack |-> q.budget - Spend(q, plan),
         objective |-> Objective(q, plan), keys |-> Cardinality(chosen),
         unchanged |-> Cardinality({k \in chosen : IsNoChange(of(k))}),
         shortage  |-> Total(chosen, LAMBDA k : of(k).shortage),
         aog       |-> Max({of(k).aog : k \in chosen}),
         confidence    |-> Total(chosen, LAMBDA k : of(k).confidence),
         minConfidence |-> Min({of(k).confidence : k \in chosen}),
         lowConfidence |-> Cardinality({k \in chosen : of(k).confidence < LowConfidence})]

\* Fault: what an alternative would cost is counted in the plan as it is.
ReplaceInPlan(q, plan, k, i) ==
    Spend(q, plan) - Cash(q.menus[k], plan[k]) + Cash(q.menus[k], i)

\* What a plan with an alternative costs at the least.
ReplacementSpend(q, plan, k, i) ==
    MinimumBudget(q) - LeastCash(q.menus[k]) + Cash(q.menus[k], i)

\* The first reason that holds.
Rejection(q, plan, k, i) ==
    LET c == q.menus[k].options[i]
    IN  CASE c.hard # {} -> "hard_constraint"
          [] c.hard = {} /\ Unsatisfied(q.menus[k], i) # {} -> "mandatory_floor"
          [] c.hard = {} /\ Unsatisfied(q.menus[k], i) = {} /\ ~c.feasible
                -> "candidate_infeasible"
          [] OTHER -> IF ReplacementSpend(q, plan, k, i) > q.budget THEN "budget"
                      ELSE IF ObjectiveOf(q.menus[k], i) < ObjectiveOf(q.menus[k], plan[k])
                      THEN "lower_objective" ELSE "portfolio_tradeoff"

RejectedLimit == 3

\* The alternatives of a key that are shown: the three most worth, cheapest
\* and first.
Alternatives(q, plan, k) ==
    LET menu   == q.menus[k]
        others == OnFrontier(menu) \ {Baseline(menu), plan[k]}
        rank(i) == <<-ObjectiveOf(menu, i), Cash(menu, i), i>>
        before(i, j) == \E n \in 1..3 : /\ rank(i)[n] < rank(j)[n]
                                        /\ \A m \in 1..(n - 1) : rank(i)[m] = rank(j)[m]
    IN  {[option |-> i, reason |-> Rejection(q, plan, k, i)] :
           i \in {x \in others : Cardinality({y \in others : before(y, x)}) < RejectedLimit}}

\* The validators of a result, its selections and its outcome.
OutcomeAccepted(q, plan, s, alternatives) ==
    /\ s.spend + s.slack = q.budget /\ s.slack >= 0
    /\ s.keys = Cardinality(DOMAIN q.menus) /\ s.unchanged <= s.keys
    /\ s.confidence <= 10000 * s.keys /\ s.lowConfidence <= s.keys
    /\ \A k \in DOMAIN plan :
          /\ Unsatisfied(q.menus[k], plan[k]) = {}
          /\ plan[k] \notin {a.option : a \in alternatives[k]}

Refused(status, q) ==
    [status |-> status, plan |-> NoPlan, proven |-> FALSE,
     minimum |-> IF status = "infeasible" THEN MinimumBudget(q) ELSE None,
     shortfall |-> IF status = "infeasible" THEN Most(0, MinimumBudget(q) - q.budget) ELSE None,
     keys |-> Stuck(q), floors |-> InfeasibleFloors(q)]

Completed(q, incumbent) ==
    LET shown == [k \in DOMAIN q.menus |-> Alternatives(q, incumbent.plan, k)]
        s     == Summary(q, incumbent.plan)
    IN  [status |-> IF OutcomeAccepted(q, incumbent.plan, s, shown) THEN "completed" ELSE "raised",
         plan |-> incumbent.plan, proven |-> incumbent.proven, minimum |-> MinimumBudget(q),
         summary |-> s, shown |-> shown]

Solve(q) ==
    IF Stuck(q) # {} \/ MinimumBudget(q) > q.budget THEN {Refused("infeasible", q)}
    ELSE {IF x.plan = NoPlan THEN Refused("failed", q) ELSE Completed(q, x) : x \in Incumbents(q)}

\* What a request holds: at least one menu, of the options of one position, with
\* one of them to do nothing; numbers, and what its validators say of an option.
NumbersTyped(c) ==
    /\ c.cash \in Int /\ c.purchase \in Int /\ c.transfer \in Int /\ c.outbound \in Int
    /\ c.moved \in Int /\ c.holding \in Int /\ c.ordering \in Int /\ c.shortageCost \in Int
    /\ c.shortage \in Int /\ c.excess \in Int /\ c.aog \in Int /\ c.demand \in Int
    /\ c.confidence \in Nat /\ c.confidence <= 10000

OptionTyped(c) == NumbersTyped(c) /\ (c.feasible <=> c.hard = {} /\ c.reasons = {})

MenuTyped(menu) ==
    /\ menu.tier \in 1..5
    /\ IsFiniteSet(DOMAIN menu.options)
    /\ \A i \in DOMAIN menu.options : OptionTyped(menu.options[i])
    /\ \A i, j \in DOMAIN menu.options : menu.options[i].demand = menu.options[j].demand
    /\ \E i \in DOMAIN menu.options :
          \A j \in DOMAIN menu.options : IsNoChange(menu.options[j]) <=> j = i
    /\ \A f \in menu.floors : f.service \in Int /\ f.shortage \in Int /\ f.aog \in Int

RequestTyped(q) ==
    /\ IsFiniteSet(DOMAIN q.menus) /\ DOMAIN q.menus # {} /\ q.budget \in Int
    /\ \A k \in DOMAIN q.menus : MenuTyped(q.menus[k])

SolvePortfolio == Computes("plan", Solve(case))

-----------------------------------------------------------------------------
(* What must hold.                                                         *)

\* All that could be chosen had nothing been pruned.
Unpruned(q) ==
    {plan \in [DOMAIN q.menus -> UNION {DOMAIN q.menus[k].options : k \in DOMAIN q.menus}] :
        /\ \A k \in DOMAIN plan : /\ plan[k] \in DOMAIN q.menus[k].options
                                  /\ q.menus[k].options[plan[k]].feasible
                                  /\ Unsatisfied(q.menus[k], plan[k]) = {}
        /\ Spend(q, plan) <= q.budget}

\* A plan is within its budget and refused only if there is none, and one said
\* to be optimal is worth as much as any, at the least cash, among all the
\* options, the pruned ones too.
PlanIsFeasibleAndBest ==
    Computed("plan") =>
    /\ result.status # "raised"
    /\ (result.status = "infeasible") = (Unpruned(case) = {})
    /\ result.status = "completed" => Spend(case, result.plan) <= case.budget
    /\ result.status = "completed" /\ result.proven =>
          \A x \in Unpruned(case) :
             \/ Objective(case, x) < Objective(case, result.plan)
             \/ /\ Objective(case, x) = Objective(case, result.plan)
                /\ Spend(case, x) >= Spend(case, result.plan)

\* The reason an alternative is shown to be rejected for is the case: with one
\* that the budget is said to rule out there is no plan at all, and with one
\* that is said to be worse, or a matter of the whole, there is.
RejectionsAreTrue ==
    Computed("plan") /\ result.status = "completed" =>
    \A k \in DOMAIN result.shown : \A a \in result.shown[k] :
        (\E x \in Plans(case) : x[k] = a.option)
          <=> (a.reason \in {"lower_objective", "portfolio_tradeoff"})
=============================================================================
