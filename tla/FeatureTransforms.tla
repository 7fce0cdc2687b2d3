-------------------------- MODULE FeatureTransforms --------------------------
(***************************************************************************)
(* What the Glue jobs of the feature store (feature-store/glue/*_job.py)   *)
(* make of the rows of an extract.  A raw row is a record of the fields    *)
(* that decide what becomes of it; `ok` stands for the numbers and dates   *)
(* of the row that are well formed.  A transform returns the set of the    *)
(* tables it may append: none if it raises, more than one where the code   *)
(* leaves open which of several rows survives.                             *)
(***************************************************************************)
EXTENDS Cases, Integers, Sequences, FiniteSets, SequencesExt, FiniteSetsExt

Blank   == "blank"
Default == "DEFAULT"   \* the vendor the jobs make up for a part

Raises == {}

\* The tables with one of the rows for each key, any of them.
OnePerKey(rows, key(_)) ==
    LET keys == {key(r) : r \in rows}
    IN  {{choice[k] : k \in keys} :
            choice \in {f \in [keys -> rows] : \A k \in keys : key(f[k]) = k}}

Identified(r) == r.pn # Blank /\ r.loc # Blank
Part(r)       == r.pn
Place(r)      == <<r.pn, r.loc>>

\* Rounded to the nearest whole number, a half to the even one.
HalfEven(a, b) ==
    LET q == a \div b
        r == a % b
    IN  IF 2 * r < b THEN q ELSE IF 2 * r > b THEN q + 1 ELSE q + (q % 2)

\* Quantities come in tenths here; what is absent is nothing at all.
CoerceInt(tenths) == HalfEven(tenths, 10)

\* One row that is not valid makes the whole job raise.
StockPositions(rows) ==
    IF \E r \in rows : ~Identified(r) \/ ~r.ok THEN Raises
    ELSE OnePerKey({[pn |-> r.pn, loc |-> r.loc, serviceable |-> r.new,
                     on_hand |-> r.new + r.bad + r.repair] : r \in rows}, Place)

CurrentPolicies(rows) ==
    IF \E r \in rows : ~Identified(r) \/ ~r.ok THEN Raises
    ELSE OnePerKey({[pn |-> r.pn, loc |-> r.loc, rop |-> r.rop, max |-> r.max] :
                       r \in rows}, Place)

\* Rows without a location are dropped; of several the least survives.
LocationGraph(rows) ==
    LET main(r) == IF r.parent = Blank THEN r.loc ELSE r.parent
        node(r) == [loc |-> r.loc, parent |-> r.parent,
                    role |-> IF main(r) = r.loc THEN "main" ELSE "outstation"]
        nodes   == {node(r) : r \in {x \in rows : x.loc # Blank}}
        rank(n) == IF n.parent = Blank THEN 1 ELSE 0
    IN  {t \in OnePerKey(nodes, LAMBDA n : n.loc) :
            \A n \in t : \A o \in nodes : o.loc = n.loc => rank(n) <= rank(o)}

PartAttributes(rows) ==
    OnePerKey({[pn |-> r.pn,
                class |-> IF r.kit THEN "rotable"
                          ELSE IF r.serial \/ r.repairable THEN "repairable"
                          ELSE "expendable",
                tails |-> IF r.tails > 0 THEN r.tails ELSE 0] : r \in rows}, Part)

\* Codes the tenant's map does not know are routine.
Tier(code) ==
    CASE code \in {"1", "AOG", "NOGO"} -> 1
      [] code \in {"2", "GOIF"}        -> 2
      [] code \in {"3", "DISPATCH"}    -> 3
      [] code \in {"5", "CONSUMABLE"}  -> 5
      [] OTHER                         -> 4

Criticality(rows) == OnePerKey({[pn |-> r.pn, tier |-> Tier(r.code)] : r \in rows}, Part)

\* An edge belongs to both of its ends; a group is a part and its neighbours.
InterchangeableGraph(rows) ==
    LET edges == {[from |-> r.pn, to |-> r.parent, oneWay |-> r.relation = "1"] :
                     r \in {x \in rows : /\ x.pn # Blank /\ x.parent # Blank
                                         /\ x.pn # x.parent}}
        heads == {e.from : e \in edges} \cup {e.to : e \in edges}
        at(h) == {e \in edges : h \in {e.from, e.to}}
    IN  {{[pn |-> h, edges |-> at(h),
           members |-> UNION {{e.from, e.to} : e \in at(h)}] : h \in heads}}

-----------------------------------------------------------------------------
(* Vendors and lead times.                                                 *)

\* Preferred vendors come first, then cheaper ones, then by name.
Before(p, q) ==
    \/ p.preferred /\ ~q.preferred
    \/ p.preferred = q.preferred /\ p.price < q.price
    \/ p.preferred = q.preferred /\ p.price = q.price /\ p.rank < q.rank

PricedRows(rows) ==
    IF \E r \in rows : r.pn = Blank \/ r.vendor = Blank \/ ~r.ok THEN Raises
    ELSE OnePerKey(rows, LAMBDA r : <<r.pn, r.vendor>>)

Canonical(priced, pn) ==
    LET mine == {r \in priced : r.pn = pn}
    IN  [(CHOOSE r \in mine : \A o \in mine : ~Before(o, r)) EXCEPT !.vendor = Default]

\* Fault: the name is not reserved, and one of the rows of that name survives.
VendorEconomicsUnreserved(rows) ==
    UNION {OnePerKey(priced \cup {Canonical(priced, pn) : pn \in {r.pn : r \in priced}},
                     LAMBDA r : <<r.pn, r.vendor>>) : priced \in PricedRows(rows)}

\* A vendor that has the reserved name is left to the row made up for the part.
VendorEconomics(rows) ==
    {{r \in priced : r.vendor # Default} \cup {Canonical(priced, pn) : pn \in {r.pn : r \in priced}} :
        priced \in PricedRows(rows)}

\* The order type decides; without it a condition of the price, a prefix of the
\* order; a row that stays unclassified is left out.
Lane(type, hint) ==
    LET kind == IF type = Blank THEN hint ELSE type
    IN  CASE kind = "PO" -> "NEW"
          [] kind = "RO" -> "REP"
          [] type = Blank /\ hint \in {"NEW", "REP"} -> hint
          [] OTHER -> Blank

\* Two prefixes that disagree are no prefix.
OrderPrefix(host, order) ==
    IF host = Blank THEN order
    ELSE IF order \in {Blank, host} THEN host ELSE Blank

Named(vendor) == IF vendor = Blank THEN Default ELSE vendor

PriceRows(rows) ==
    {[vendor |-> Named(r.vendor), preferred |-> r.preferred, price |-> r.price,
      rank |-> r.rank, lane |-> Lane(r.type, IF r.hint = Blank THEN "NEW" ELSE r.hint),
      promised |-> IF r.days > 0 THEN r.days ELSE 0] :
        r \in {x \in rows : Lane(x.type, IF x.hint = Blank THEN "NEW" ELSE x.hint) # Blank}}

BestConfigured(rows) == CHOOSE r \in rows : \A o \in rows : ~Before(o, r)

\* Closed orders count if they were received, and not before they were placed.
CycleRows(orders) ==
    {[id |-> r.id, vendor |-> Named(r.vendor), lane |-> Lane(r.type, OrderPrefix(r.host, r.order)),
      days |-> r.days] :
        r \in {x \in orders : /\ Lane(x.type, OrderPrefix(x.host, x.order)) # Blank
                              /\ x.ok /\ x.days >= 0}}

\* The days of the cycles, from the shortest to the longest.
SortedDays(cycles) ==
    LET within(d) == Cardinality({c \in cycles : c.days <= d})
        below(d)  == Cardinality({c \in cycles : c.days < d})
    IN  [i \in 1..Cardinality(cycles) |->
            CHOOSE d \in {c.days : c \in cycles} : below(d) < i /\ i <= within(d)]

\* The indices are rounded, not interpolated.
Percentile(s, p) ==
    s[1 + (IF p = 50 THEN Len(s) \div 2 ELSE HalfEven(p * (Len(s) - 1), 100))]

\* Observed cycles are the evidence, the configured promise stands in for them.
Distribution(vendor, lane, configured, cycles) ==
    LET s == SortedDays(cycles)
        p == IF configured = {} THEN 0 ELSE BestConfigured(configured).promised
    IN  IF cycles # {}
        THEN {[vendor |-> vendor, lane |-> lane, evidence |-> "observed", n |-> Len(s),
               p50 |-> Percentile(s, 50), p90 |-> Percentile(s, 90), p99 |-> Percentile(s, 99),
               sure |-> Len(s) >= 10]}
        ELSE IF p > 0
        THEN {[vendor |-> vendor, lane |-> lane, evidence |-> "configured_fallback", n |-> 0,
               p50 |-> p, p90 |-> p, p99 |-> p, sure |-> FALSE]}
        ELSE {}

\* Fault: what has no vendor of its own is left out of the row over all vendors.
OverNamed(rows, l) == {r \in rows : r.lane = l /\ r.vendor # Default}

\* The row over all vendors takes what has none as well.
OverAll(rows, l) == {r \in rows : r.lane = l}

\* For each lane a row for each vendor, and one over all of them.
LeadTimes(prices, orders) ==
    LET ps == PriceRows(prices)
        cs == CycleRows(orders)
        of(rows, v, l) == {r \in rows : r.lane = l /\ r.vendor = v}
        named == {r.vendor : r \in ps \cup cs} \ {Default}
        own == UNION {Distribution(v, l, of(ps, v, l), of(cs, v, l)) :
                         v \in named, l \in {"NEW", "REP"}}
        all == UNION {Distribution(Default, l, OverAll(ps, l), OverAll(cs, l)) :
                         l \in {"NEW", "REP"}}
    IN  {own \cup all}

-----------------------------------------------------------------------------
(* Demand, orders and requisitions, and the keys that must be answered.    *)

\* Under a planning scope only keys with a level; physical stock has no level.
PlanningKeys(rows, active) ==
    {Place(r) : r \in {x \in rows : Identified(x) /\ (active => x.level > 0)}}

\* Fault: a key gets its empty row from the whole table, not from the keys it lacks.
AnsweredTwice(table, empty) == table \cup {empty[k] : k \in DOMAIN empty}

\* Keys without a row get one that says so.
Answered(table, empty) ==
    table \cup {empty[k] : k \in DOMAIN empty \ {Place(r) : r \in table}}

\* Each row is rounded before the rows of a part, place and month are summed.
DemandHistory(rows, keys) ==
    IF \E r \in rows : ~Identified(r) \/ ~r.ok THEN Raises
    ELSE LET month(p, m) == {r \in rows : Place(r) = p /\ r.month = m}
             total(rs, rot) == Total({r \in rs : r.rotable = rot}, LAMBDA r : CoerceInt(r.amount))
             row(p, m) == [pn |-> p[1], loc |-> p[2], month |-> m,
                           removals |-> total(month(p, m), TRUE),
                           issues |-> total(month(p, m), FALSE),
                           events |-> Cardinality({r \in month(p, m) : CoerceInt(r.amount) > 0})]
         IN  {Answered({row(Place(r), r.month) : r \in rows},
                       [k \in keys |-> [pn |-> k[1], loc |-> k[2], month |-> 0,
                                        removals |-> 0, issues |-> 0, events |-> 0]])}

\* Purchase orders count while they are open, repair orders in every state.
OrderType(r) ==
    IF r.type \in {"PO", "RO"} THEN r.type
    ELSE IF r.type # Blank THEN Blank
    ELSE IF r.host # Blank /\ r.order # Blank /\ r.host # r.order THEN Blank
    ELSE IF r.host # Blank THEN r.host ELSE r.order

QtyOpen(r) == Max({0, CoerceInt(r.planned) - CoerceInt(r.received)})

OpenOrders(rows, keys) ==
    IF \E r \in rows : ~Identified(r) \/ ~r.ok THEN Raises
    ELSE LET counts(r) == /\ QtyOpen(r) > 0
                          /\ OrderType(r) = "RO" \/ (OrderType(r) = "PO" /\ r.open)
             of(p) == {r \in rows : Place(r) = p /\ counts(r)}
             snapshot(p) == [pn |-> p[1], loc |-> p[2], lines |-> of(p),
                             total |-> Total(of(p), QtyOpen)]
         IN  {Answered({snapshot(Place(r)) : r \in {x \in rows : counts(x)}},
                       [k \in keys |-> snapshot(k)])}

Requisitions(rows, keys) ==
    IF \E r \in rows : ~Identified(r) \/ r.id = Blank \/ ~r.ok THEN Raises
    ELSE LET counts(r) == r.open /\ QtyOpen(r) > 0
             of(p) == {r \in rows : Place(r) = p /\ counts(r)}
             snapshot(p) == [pn |-> p[1], loc |-> p[2], lines |-> of(p),
                             total |-> Total(of(p), QtyOpen)]
         IN  {Answered({snapshot(Place(r)) : r \in {x \in rows : counts(x)}},
                       [k \in keys |-> snapshot(k)])}

-----------------------------------------------------------------------------

\* One job each: what it reads, makes of it and appends.
StockPositionJob    == Computes("stock", StockPositions(case.rows))
CurrentPolicyJob    == Computes("policy", CurrentPolicies(case.rows))
LocationGraphJob    == Computes("locations", LocationGraph(case.rows))
PartAttributesJob   == Computes("parts", PartAttributes(case.rows))
CriticalityJob      == Computes("criticality", Criticality(case.rows))
InterchangeJob      == Computes("interchange", InterchangeableGraph(case.rows))
VendorEconomicsJob  == Computes("vendors", VendorEconomics(case.rows))
LeadTimeJob         == Computes("leadtime", LeadTimes(case.rows, case.orders))
DemandHistoryJob    ==
    Computes("demand", DemandHistory(case.rows, PlanningKeys(case.stock, case.active)))
OpenOrdersJob       ==
    Computes("orders", OpenOrders(case.rows, PlanningKeys(case.stock, case.active)))
RequisitionJob      ==
    Computes("requisitions", Requisitions(case.rows, PlanningKeys(case.stock, case.active)))

\* What the columns hold: finitely many rows, amounts that are numbers, ranks that
\* are in an order, and months that are numbered from one.
QuantitiesTyped(rows) ==
    /\ IsFiniteSet(rows)
    /\ \A r \in rows : r.planned \in Int /\ r.received \in Int

VendorsTyped(rows) ==
    /\ IsFiniteSet(rows)
    /\ \A r \in rows : /\ {"pn", "vendor", "preferred", "price", "rank"} \subseteq DOMAIN r
                       /\ r.preferred \in BOOLEAN /\ r.price \in Int /\ r.rank \in Int

PromisesTyped(rows) ==
    /\ IsFiniteSet(rows)
    /\ \A r \in rows : /\ r.preferred \in BOOLEAN /\ r.price \in Int /\ r.rank \in Int
                       /\ r.days \in Int

TurnaroundsTyped(orders) ==
    /\ IsFiniteSet(orders)
    /\ \A o \in orders : o.ok => o.days \in Int

JobTyped(c) ==
    /\ c.fn \in {"orders", "requisitions"} => QuantitiesTyped(c.rows)
    /\ c.fn = "demand" => \A r \in c.rows : r.month \in Nat \ {0}
    /\ c.fn = "vendors" => VendorsTyped(c.rows)
    /\ c.fn = "leadtime" => PromisesTyped(c.rows) /\ TurnaroundsTyped(c.orders)

TransformStep ==
    \/ StockPositionJob \/ CurrentPolicyJob \/ LocationGraphJob \/ PartAttributesJob
    \/ CriticalityJob \/ InterchangeJob \/ VendorEconomicsJob \/ LeadTimeJob
    \/ DemandHistoryJob \/ OpenOrdersJob \/ RequisitionJob

-----------------------------------------------------------------------------
(* What must hold.                                                         *)

\* The row made up for a part has the terms of a preferred vendor if there is
\* one, and of a cheapest among those it was chosen from: a real vendor whose
\* name is the reserved one does not take its place.
CanonicalVendorIsBest ==
    Computed("vendors") =>
    \A r \in result : r.vendor = Default =>
        LET offers == {x \in case.rows : x.pn = r.pn}
            best   == {x \in offers : x.preferred = (\E y \in offers : y.preferred)}
        IN  Cardinality({x.vendor : x \in offers}) = Cardinality(offers) =>
                /\ r.preferred = \E y \in offers : y.preferred
                /\ \A x \in best : r.price <= x.price

\* Every cycle that was observed counts in the row over all vendors of its lane,
\* with or without a vendor of its own, and no promise stands in for cycles; the
\* percentiles are in order and are days that some order took.
LeadTimeEvidenceIsWhole ==
    Computed("leadtime") =>
    LET cycles == CycleRows(case.orders)
        of(r)  == {c \in cycles : c.lane = r.lane /\ r.vendor \in {Default, c.vendor}}
    IN  /\ \A c \in cycles : \E r \in result : r.vendor = Default /\ r.lane = c.lane
        /\ \A r \in result :
              /\ r.n = Cardinality(of(r))
              /\ r.p50 <= r.p90 /\ r.p90 <= r.p99
              /\ of(r) # {} => {r.p50, r.p90, r.p99} \subseteq {c.days : c \in of(r)}

\* A key of the planning universe is answered in each table that promises it: with
\* what its own rows add up to, and with nothing only if they add up to nothing.
PlanningKeysAreAnswered ==
    case.fn \in {"orders", "requisitions", "demand"} /\ done =>
    \A k \in PlanningKeys(case.stock, case.active) :
        LET mine == {r \in result : Place(r) = k}
        IN  /\ mine # {}
            /\ case.fn # "demand" =>
                  \A r \in mine : (r.total = 0) = (r.lines = {})
            /\ case.fn = "demand" =>
                  (\E r \in mine : r.month = 0) = ({x \in case.rows : Place(x) = k} = {})
=============================================================================
