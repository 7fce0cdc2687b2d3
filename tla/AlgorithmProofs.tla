--------------------------- MODULE AlgorithmProofs ---------------------------
(***************************************************************************)
(* Proofs about the pure functions, for every case whose values have the   *)
(* types CaseAssumption names.  The functions fold, group and choose, so   *)
(* the proofs rest on the facts about finite sets of FiniteSums.           *)
(***************************************************************************)
EXTENDS Algorithms, FiniteSums

-----------------------------------------------------------------------------
(* What a behaviour comes to: the result of the function, for its case.    *)

\* The result is a value the function may return for its case.
Answers ==
    /\ done \in BOOLEAN
    /\ Computed("replay") => result = Evaluate(case)
    /\ Computed("repair") => result = Repair(case)
    /\ Computed("batch") => result = Run(case)
    /\ Computed("preview") => result = Preview(case)
    /\ Computed("plan") => result \in Solve(case)
    /\ Computed("upload") => result = Ingest(case.files, case.quota)
    /\ Computed("vendors") => result \in VendorEconomics(case.rows)
    /\ Computed("leadtime") => result \in LeadTimes(case.rows, case.orders)
    /\ Computed("demand") =>
          result \in DemandHistory(case.rows, PlanningKeys(case.stock, case.active))
    /\ Computed("orders") =>
          result \in OpenOrders(case.rows, PlanningKeys(case.stock, case.active))
    /\ Computed("requisitions") =>
          result \in Requisitions(case.rows, PlanningKeys(case.stock, case.active))

\* In every state the case has the types assumed, and a result is a value of the
\* function (the handlers of the jobs, the batch, the validators): one behaviour
\* runs one function on one case, and no step changes either.
THEOREM AnswersAreComputed ==
    AlgorithmSpec => [](Typed(case) /\ Answers)
<1>1. AlgorithmInit => Typed(case) /\ Answers
  BY CaseAssumption DEF AlgorithmInit, Given, Answers, Computed
<1>2. (Typed(case) /\ Answers) /\ [AlgorithmNext]_caseVars => (Typed(case) /\ Answers)'
  <2>. SUFFICES ASSUME Typed(case), Answers, [AlgorithmNext]_caseVars PROVE (Typed(case) /\ Answers)'
    OBVIOUS
  <2>. USE DEF Answers, Computed
  <2>1. CASE UNCHANGED caseVars
    BY <2>1 DEF caseVars
  <2>2. CASE TransformStep
    BY <2>2 DEF TransformStep, StockPositionJob, CurrentPolicyJob, LocationGraphJob,
                PartAttributesJob, CriticalityJob, InterchangeJob, VendorEconomicsJob, LeadTimeJob,
                DemandHistoryJob, OpenOrdersJob, RequisitionJob, Computes
  <2>3. CASE RecommendationStep
    BY <2>3 DEF RecommendationStep, RunBatch, Computes
  <2>4. CASE RunWithFrontiers
    BY <2>4 DEF RunWithFrontiers, Computes
  <2>5. CASE SolvePortfolio
    BY <2>5 DEF SolvePortfolio, Computes
  <2>6. CASE RunIngest
    BY <2>6 DEF RunIngest, Computes
  <2>7. CASE ProjectRepairs
    BY <2>7 DEF ProjectRepairs, Computes
  <2>8. CASE ReplayDecisions
    BY <2>8 DEF ReplayDecisions, Computes
  <2>. QED  BY <2>1, <2>2, <2>3, <2>4, <2>5, <2>6, <2>7, <2>8 DEF AlgorithmNext
<1>. QED  BY <1>1, <1>2, PTL DEF AlgorithmSpec

-----------------------------------------------------------------------------
(* The transforms of the feature store.                                    *)

\* The open quantity of an order line is a count, whatever was planned and received.
LEMMA QtyOpenIsNat ==
  ASSUME NEW r, r.planned \in Int, r.received \in Int
  PROVE  QtyOpen(r) \in Nat
<1>. DEFINE n == CoerceInt(r.planned) - CoerceInt(r.received)
<1>1. CoerceInt(r.planned) \in Int /\ CoerceInt(r.received) \in Int
  BY DEF CoerceInt, HalfEven
<1>2. n \in Int
  BY <1>1
<1>. HIDE DEF n
<1>3. \E x \in {0, n} : \A y \in {0, n} : x >= y
  BY <1>2
<1>4. Max({0, n}) \in {0, n} /\ \A y \in {0, n} : Max({0, n}) >= y
  BY <1>3 DEF Max
<1>. QED  BY <1>2, <1>4 DEF QtyOpen, n

\* Lines that are all open add up to nothing exactly when there are none.
LEMMA OpenLinesAddUp ==
  ASSUME NEW rows, QuantitiesTyped(rows), NEW S \in SUBSET rows, \A r \in S : QtyOpen(r) > 0
  PROVE  (Total(S, QtyOpen) = 0) = (S = {})
<1>. DEFINE f == [x \in S |-> QtyOpen(x)]
<1>1. IsFiniteSet(S) /\ (\A x \in S : f[x] \in Nat) /\ \A x \in S : f[x] # 0
  BY FS_Subset, QtyOpenIsNat DEF QuantitiesTyped
<1>2. Total(S, QtyOpen) = SumFunctionOnSet(f, S)
  BY DEF Total, SumFunction
<1>. HIDE DEF f
<1>3. SumFunctionOnSet(f, S) = 0 <=> \A x \in S : f[x] = 0
  BY <1>1, SumNat
<1>. QED  BY <1>1, <1>2, <1>3

\* Every key has a row, that of the table or the empty one.
LEMMA EveryKeyIsAnswered ==
  ASSUME NEW table, NEW empty, NEW k \in DOMAIN empty, Place(empty[k]) = k
  PROVE  \E r \in Answered(table, empty) : Place(r) = k
BY DEF Answered

\* The keys to plan are pairs of a part and a location.
LEMMA KeysArePlaces ==
  ASSUME NEW stock, NEW active, NEW k \in PlanningKeys(stock, active)
  PROVE  k = <<k[1], k[2]>>
BY DEF PlanningKeys, Place

\* The order jobs answer every key, with a total that is zero exactly when no line
\* is open.
LEMMA OrdersAnswered ==
  ASSUME NEW rows, NEW keys, QuantitiesTyped(rows), \A k \in keys : k = <<k[1], k[2]>>,
         NEW table \in OpenOrders(rows, keys) \cup Requisitions(rows, keys), NEW k \in keys
  PROVE  LET mine == {r \in table : Place(r) = k}
         IN  mine # {} /\ \A r \in mine : (r.total = 0) = (r.lines = {})
<1>1. PICK open \in SUBSET rows :
         LET of(p) == {r \in rows : Place(r) = p /\ r \in open}
             snapshot(p) == [pn |-> p[1], loc |-> p[2], lines |-> of(p), total |-> Total(of(p), QtyOpen)]
         IN  /\ \A r \in open : QtyOpen(r) > 0
             /\ table = Answered({snapshot(Place(r)) : r \in open}, [q \in keys |-> snapshot(q)])
  <2>1. CASE table \in OpenOrders(rows, keys)
    <3>. DEFINE counts(r) == /\ QtyOpen(r) > 0
                             /\ OrderType(r) = "RO" \/ (OrderType(r) = "PO" /\ r.open)
                of(p) == {r \in rows : Place(r) = p /\ counts(r)}
                snapshot(p) == [pn |-> p[1], loc |-> p[2], lines |-> of(p), total |-> Total(of(p), QtyOpen)]
                open == {x \in rows : counts(x)}
                in(p) == {r \in rows : Place(r) = p /\ r \in open}
                shot(p) == [pn |-> p[1], loc |-> p[2], lines |-> in(p), total |-> Total(in(p), QtyOpen)]
    <3>1. table = Answered({snapshot(Place(r)) : r \in open}, [q \in keys |-> snapshot(q)])
      BY <2>1 DEF OpenOrders, Raises
    <3>2. \A p : in(p) = of(p)
      OBVIOUS
    <3>3. \A p : snapshot(p) = shot(p)
      <4>. HIDE DEF in, of
      <4>. QED  BY <3>2
    <3>4. open \in SUBSET rows /\ \A r \in open : QtyOpen(r) > 0
      OBVIOUS
    <3>. HIDE DEF counts, of, snapshot, open, in
    <3>5. table = Answered({shot(Place(r)) : r \in open}, [q \in keys |-> shot(q)])
      BY <3>1, <3>3
    <3>. QED  BY <3>4, <3>5 DEF in
  <2>2. CASE table \in Requisitions(rows, keys)
    <3>. DEFINE counts(r) == r.open /\ QtyOpen(r) > 0
                of(p) == {r \in rows : Place(r) = p /\ counts(r)}
                snapshot(p) == [pn |-> p[1], loc |-> p[2], lines |-> of(p), total |-> Total(of(p), QtyOpen)]
                open == {x \in rows : counts(x)}
                in(p) == {r \in rows : Place(r) = p /\ r \in open}
                shot(p) == [pn |-> p[1], loc |-> p[2], lines |-> in(p), total |-> Total(in(p), QtyOpen)]
    <3>1. table = Answered({snapshot(Place(r)) : r \in open}, [q \in keys |-> snapshot(q)])
      BY <2>2 DEF Requisitions, Raises
    <3>2. \A p : in(p) = of(p)
      OBVIOUS
    <3>3. \A p : snapshot(p) = shot(p)
      <4>. HIDE DEF in, of
      <4>. QED  BY <3>2
    <3>4. open \in SUBSET rows /\ \A r \in open : QtyOpen(r) > 0
      OBVIOUS
    <3>. HIDE DEF counts, of, snapshot, open, in
    <3>5. table = Answered({shot(Place(r)) : r \in open}, [q \in keys |-> shot(q)])
      BY <3>1, <3>3
    <3>. QED  BY <3>4, <3>5 DEF in
  <2>. QED  BY <2>1, <2>2
<1>. DEFINE of(p) == {r \in rows : Place(r) = p /\ r \in open}
            snapshot(p) == [pn |-> p[1], loc |-> p[2], lines |-> of(p), total |-> Total(of(p), QtyOpen)]
            empty == [q \in keys |-> snapshot(q)]
<1>2. Place(empty[k]) = k
  BY DEF Place
<1>. DEFINE full == {snapshot(Place(r)) : r \in open}
<1>3. {r \in table : Place(r) = k} # {}
  <2>1. k \in DOMAIN empty /\ table = Answered(full, empty)
    BY <1>1
  <2>. HIDE DEF empty, full
  <2>2. \E r \in Answered(full, empty) : Place(r) = k
    BY <1>2, <2>1, EveryKeyIsAnswered
  <2>. QED  BY <2>1, <2>2
<1>4. \A p : (snapshot(p).total = 0) = (snapshot(p).lines = {})
  <2>. TAKE p
  <2>1. of(p) \in SUBSET rows /\ \A r \in of(p) : QtyOpen(r) > 0
    BY <1>1
  <2>. HIDE DEF of
  <2>2. (Total(of(p), QtyOpen) = 0) = (of(p) = {})
    BY <2>1, OpenLinesAddUp, Zenon
  <2>. QED  BY <2>2
<1>5. \A r \in table : \E p : r = snapshot(p)
  <2>. HIDE DEF snapshot
  <2>1. table = Answered({snapshot(Place(r)) : r \in open}, empty)
    BY <1>1 DEF snapshot
  <2>. QED  BY <2>1 DEF Answered
<1>. HIDE DEF snapshot, of, full
<1>. QED  BY <1>3, <1>4, <1>5

\* The demand job answers every key, with the zero row exactly when no row of the
\* source is for it.
LEMMA DemandAnswered ==
  ASSUME NEW rows, NEW keys, \A k \in keys : k = <<k[1], k[2]>>, \A r \in rows : r.month # 0,
         NEW table \in DemandHistory(rows, keys), NEW k \in keys
  PROVE  LET mine == {r \in table : Place(r) = k}
         IN  /\ mine # {}
             /\ (\E r \in mine : r.month = 0) <=> {x \in rows : Place(x) = k} = {}
<1>. DEFINE month(p, m) == {r \in rows : Place(r) = p /\ r.month = m}
            total(rs, rot) == Total({r \in rs : r.rotable = rot}, LAMBDA r : CoerceInt(r.amount))
            row(p, m) == [pn |-> p[1], loc |-> p[2], month |-> m,
                           removals |-> total(month(p, m), TRUE),
                           issues |-> total(month(p, m), FALSE),
                           events |-> Cardinality({r \in month(p, m) : CoerceInt(r.amount) > 0})]
            full == {row(Place(r), r.month) : r \in rows}
            empty == [q \in keys |-> [pn |-> q[1], loc |-> q[2], month |-> 0,
                                      removals |-> 0, issues |-> 0, events |-> 0]]
<1>1. table = Answered(full, empty)
  BY DEF DemandHistory, Raises
<1>2. \A q \in keys : Place(empty[q]) = q /\ empty[q].month = 0
  BY DEF Place
<1>3. \A p, m : Place(row(p, m)) = <<p[1], p[2]>> /\ row(p, m).month = m
  BY DEF Place
<1>4. \A x \in rows : Place(x) = <<Place(x)[1], Place(x)[2]>>
  BY DEF Place
<1>5. DOMAIN empty = keys
  OBVIOUS
<1>. HIDE DEF row, empty
<1>6. (\A r \in full : r.month # 0 /\ \E x \in rows : Place(x) = Place(r))
      /\ \A x \in rows : \E r \in full : Place(r) = Place(x)
  BY <1>3, <1>4
<1>. HIDE DEF full
<1>7. {r \in table : Place(r) = k} # {}
  BY <1>1, <1>2, <1>5, EveryKeyIsAnswered
<1>8. ASSUME NEW r \in table, Place(r) = k, r.month = 0, NEW x \in rows, Place(x) = k
      PROVE  FALSE
  <2>1. PICK q \in keys \ {Place(y) : y \in full} : r = empty[q]
    BY <1>1, <1>5, <1>6, <1>8 DEF Answered
  <2>. QED  BY <1>2, <1>6, <1>8, <2>1
<1>9. ASSUME \A x \in rows : Place(x) # k
      PROVE  \E r \in table : Place(r) = k /\ r.month = 0
  <2>1. k \in DOMAIN empty \ {Place(y) : y \in full}
    BY <1>5, <1>6, <1>9
  <2>. QED  BY <1>1, <1>2, <2>1 DEF Answered
<1>. QED  BY <1>7, <1>8, <1>9

\* Every key to plan has its rows in every table, so that no read of it can be taken
\* for an outage: open_orders.py, requisitions.py and demand_history.py append the
\* empty row for exactly the keys without lines.
THEOREM PlanningKeysAnswered ==
    AlgorithmSpec => []PlanningKeysAreAnswered
<1>1. Typed(case) /\ Answers => PlanningKeysAreAnswered
  <2>. DEFINE keys == PlanningKeys(case.stock, case.active)
              mine(k) == {r \in result : Place(r) = k}
  <2>. SUFFICES ASSUME Typed(case), Answers, case.fn \in {"orders", "requisitions", "demand"}, done,
                       NEW k \in keys
                PROVE  /\ mine(k) # {}
                       /\ case.fn # "demand" =>
                             \A r \in mine(k) : (r.total = 0) = (r.lines = {})
                       /\ case.fn = "demand" =>
                             (\E r \in mine(k) : r.month = 0) = ({x \in case.rows : Place(x) = k} = {})
    BY DEF PlanningKeysAreAnswered
  <2>1. \A q \in keys : q = <<q[1], q[2]>>
    BY KeysArePlaces
  <2>2. JobTyped(case)
    BY DEF Typed
  <2>. HIDE DEF keys
  <2>3. CASE case.fn = "demand"
    <3>1. result \in DemandHistory(case.rows, keys)
      BY <2>3 DEF Answers, Computed, keys
    <3>2. \A r \in case.rows : r.month # 0
      BY <2>2, <2>3 DEF JobTyped
    <3>3. /\ mine(k) # {}
          /\ (\E r \in mine(k) : r.month = 0) <=> {x \in case.rows : Place(x) = k} = {}
      BY <2>1, <3>1, <3>2, DemandAnswered
    <3>. QED  BY <2>3, <3>3
  <2>4. CASE case.fn # "demand"
    <3>1. result \in OpenOrders(case.rows, keys) \cup Requisitions(case.rows, keys)
      BY <2>4 DEF Answers, Computed, keys
    <3>2. QuantitiesTyped(case.rows)
      BY <2>2, <2>4 DEF JobTyped
    <3>3. mine(k) # {} /\ \A r \in mine(k) : (r.total = 0) = (r.lines = {})
      BY <2>1, <3>1, <3>2, OrdersAnswered
    <3>. QED  BY <2>4, <3>3
  <2>. QED  BY <2>3, <2>4
<1>. QED  BY <1>1, AnswersAreComputed, PTL

\* Some offer is preferred to every other: the order the rows are ranked in is strict.
LEMMA SomeRowIsBest ==
  ASSUME NEW S, IsFiniteSet(S), S # {},
         \A r \in S : r.preferred \in BOOLEAN /\ r.price \in Int /\ r.rank \in Int
  PROVE  \E r \in S : \A o \in S : ~Before(o, r)
<1>. DEFINE R == {p \in S \X S : Before(p[2], p[1])}
<1>1. /\ \A x, y, z \in S : <<x, y>> \in R /\ <<y, z>> \in R => <<x, z>> \in R
      /\ \A x \in S : <<x, x>> \notin R
  BY DEF Before
<1>2. \A x, y \in S : Before(y, x) => <<x, y>> \in R
  OBVIOUS
<1>. HIDE DEF R
<1>3. PICK m \in S : \A x \in S : <<m, x>> \notin R
  BY <1>1, FiniteHasMaximal
<1>. QED  BY <1>2, <1>3

\* The canonical row of a part is a copy of an offer that no other offer of the part
\* comes before.
LEMMA CanonicalIsChosen ==
  ASSUME NEW priced, IsFiniteSet(priced), NEW pn \in {r.pn : r \in priced},
         \A r \in priced : /\ {"pn", "vendor", "preferred", "price", "rank"} \subseteq DOMAIN r
                           /\ r.preferred \in BOOLEAN /\ r.price \in Int /\ r.rank \in Int
  PROVE  \E r \in priced : LET c == Canonical(priced, pn) IN
            /\ r.pn = pn /\ \A o \in priced : o.pn = pn => ~Before(o, r)
            /\ c.pn = pn /\ c.preferred = r.preferred /\ c.price = r.price /\ c.vendor = Default
<1>. DEFINE mine == {r \in priced : r.pn = pn}
            r == CHOOSE x \in mine : \A o \in mine : ~Before(o, x)
<1>1. IsFiniteSet(mine) /\ mine # {} /\ \A x \in mine : x.preferred \in BOOLEAN /\ x.price \in Int /\ x.rank \in Int
  BY FS_Subset
<1>2. \E x \in mine : \A o \in mine : ~Before(o, x)
  <2>. HIDE DEF mine
  <2>. QED  BY <1>1, SomeRowIsBest
<1>3. r \in mine /\ \A o \in mine : ~Before(o, r)
  BY <1>2
<1>4. Canonical(priced, pn) = [r EXCEPT !.vendor = Default]
  BY DEF Canonical
<1>. HIDE DEF r
<1>5. /\ r \in priced /\ r.pn = pn /\ \A o \in priced : o.pn = pn => ~Before(o, r)
      /\ {"pn", "vendor", "preferred", "price", "rank"} \subseteq DOMAIN r
  BY <1>3
<1>6. LET c == Canonical(priced, pn) IN
      c.pn = r.pn /\ c.preferred = r.preferred /\ c.price = r.price /\ c.vendor = Default
  BY <1>4, <1>5
<1>. QED  BY <1>5, <1>6

\* The row that stands for a part's vendors has the preference and a price no higher
\* than any offer it had to choose from (vendor_economics.py).
THEOREM CanonicalVendor ==
    AlgorithmSpec => []CanonicalVendorIsBest
<1>1. Typed(case) /\ Answers => CanonicalVendorIsBest
  <2>. DEFINE rows == case.rows
  <2>. SUFFICES ASSUME Typed(case), Answers, Computed("vendors"), NEW r \in result, r.vendor = Default,
                       LET offers == {x \in rows : x.pn = r.pn}
                       IN  Cardinality({x.vendor : x \in offers}) = Cardinality(offers)
                PROVE  LET offers == {x \in rows : x.pn = r.pn}
                           best   == {x \in offers : x.preferred = (\E y \in offers : y.preferred)}
                       IN  /\ r.preferred = \E y \in offers : y.preferred
                           /\ \A x \in best : r.price <= x.price
    BY DEF CanonicalVendorIsBest
  <2>. DEFINE offers == {x \in rows : x.pn = r.pn}
              key(x) == <<x.pn, x.vendor>>
  <2>1. VendorsTyped(rows) /\ result \in VendorEconomics(rows)
    BY DEF Typed, JobTyped, Answers, Computed
  <2>2. PICK priced \in PricedRows(rows) :
           result = {x \in priced : x.vendor # Default}
                      \cup {Canonical(priced, pn) : pn \in {x.pn : x \in priced}}
    BY <2>1 DEF VendorEconomics
  <2>3. /\ priced \subseteq rows
        /\ \A x \in rows : \E y \in priced : y.pn = x.pn /\ y.vendor = x.vendor
    <3>1. priced \in OnePerKey(rows, LAMBDA x : <<x.pn, x.vendor>>)
      BY DEF PricedRows, Raises
    <3>2. PICK f \in [{key(x) : x \in rows} -> rows] :
             /\ \A k \in {key(x) : x \in rows} : key(f[k]) = k
             /\ priced = {f[k] : k \in {key(x) : x \in rows}}
      BY <3>1 DEF OnePerKey
    <3>3. ASSUME NEW x \in rows PROVE \E y \in priced : y.pn = x.pn /\ y.vendor = x.vendor
      <4>1. key(f[key(x)]) = key(x) /\ f[key(x)] \in priced
        BY <3>2
      <4>2. \A u, v : key(u) = key(v) => u.pn = v.pn /\ u.vendor = v.vendor
        OBVIOUS
      <4>. HIDE DEF key
      <4>. QED  BY <4>1, <4>2
    <3>4. priced \subseteq rows
      <4>. HIDE DEF key
      <4>. QED  BY <3>2
    <3>. QED  BY <3>3, <3>4
  <2>4. IsFiniteSet(priced) /\ IsFiniteSet(offers)
    BY <2>1, <2>3, FS_Subset DEF VendorsTyped
  <2>5. PICK pn \in {x.pn : x \in priced} : r = Canonical(priced, pn)
    BY <2>2
  <2>6. \A x \in priced : /\ {"pn", "vendor", "preferred", "price", "rank"} \subseteq DOMAIN x
                          /\ x.preferred \in BOOLEAN /\ x.price \in Int /\ x.rank \in Int
    BY <2>1, <2>3 DEF VendorsTyped
  <2>7. PICK c \in priced : /\ c.pn = pn /\ \A o \in priced : o.pn = pn => ~Before(o, c)
                            /\ r.pn = pn /\ r.preferred = c.preferred /\ r.price = c.price
    BY <2>4, <2>5, <2>6, CanonicalIsChosen
  <2>8. \A x, y \in offers : x.vendor = y.vendor => x = y
    <3>. DEFINE g == [x \in offers |-> x.vendor]
    <3>1. {g[x] : x \in offers} = {x.vendor : x \in offers}
      OBVIOUS
    <3>2. \A x \in offers : g[x] = x.vendor
      OBVIOUS
    <3>. HIDE DEF g, offers
    <3>3. Cardinality({g[x] : x \in offers}) = Cardinality(offers)
      BY <3>1 DEF offers
    <3>. QED  BY <2>4, <3>2, <3>3, SameCountIsInjective
  <2>9. offers \subseteq priced
    BY <2>3, <2>8
  <2>10. /\ c \in offers /\ \A o \in offers : ~Before(o, c)
         /\ \A o \in offers : o.preferred \in BOOLEAN /\ o.price \in Int
    BY <2>3, <2>6, <2>7, <2>9
  <2>. HIDE DEF offers
  <2>11. c.preferred = \E y \in offers : y.preferred
    BY <2>10 DEF Before
  <2>12. \A x \in offers : x.preferred = c.preferred => c.price <= x.price
    BY <2>10 DEF Before
  <2>. QED  BY <2>7, <2>11, <2>12 DEF offers
<1>. QED  BY <1>1, AnswersAreComputed, PTL

-----------------------------------------------------------------------------
(* Open repair work.                                                       *)

\* What is known of the rows.
LEMMA OrderNumbers ==
  ASSUME NEW orders, OrdersTyped(orders)
  PROVE  /\ IsFiniteSet(DOMAIN orders)
         /\ \A i \in DOMAIN orders : /\ i \in Nat \ {0} /\ orders[i].qty \in Int
                                     /\ orders[i].serial \in Int /\ orders[i].order \in Int
                                     /\ orders[i].line \in Int /\ orders[i].opened \in Int
BY DEF OrdersTyped

\* The rows of a snapshot, each kind part of the next: credited ones stand for a line,
\* these are identified, these are repairs.
LEMMA RepairSets ==
  ASSUME NEW orders, OrdersTyped(orders)
  PROVE  /\ IsFiniteSet(Repairs(orders)) /\ Repairs(orders) \subseteq DOMAIN orders
         /\ KnownRows(orders) \subseteq Repairs(orders)
         /\ LineRows(orders) \subseteq KnownRows(orders)
         /\ Creditable(orders) \subseteq LineRows(orders)
         /\ \A i \in Repairs(orders) : orders[i].qty \in Nat
<1>1. IsFiniteSet(Repairs(orders)) /\ Repairs(orders) \subseteq DOMAIN orders
  BY OrderNumbers, FS_Subset DEF Repairs
<1>2. /\ KnownRows(orders) \subseteq Repairs(orders)
      /\ LineRows(orders) \subseteq KnownRows(orders)
      /\ Creditable(orders) \subseteq LineRows(orders)
  BY DEF KnownRows, LineRows, Creditable
<1>3. \A i \in Repairs(orders) : orders[i].qty \in Nat
  BY OrderNumbers DEF Repairs
<1>. QED  BY <1>1, <1>2, <1>3

\* The quantity of rows is a sum over them.
LEMMA QuantityIs ==
  ASSUME NEW orders, NEW rows
  PROVE  Quantity(orders, rows) = SumFunctionOnSet([i \in rows |-> orders[i].qty], rows)
BY DEF Quantity, Total, SumFunction

\* It is a count, and that of a part and of the rest.
LEMMA QuantityParts ==
  ASSUME NEW orders, OrdersTyped(orders), NEW S \in SUBSET Repairs(orders)
  PROVE  /\ Quantity(orders, S) \in Nat
         /\ \A T \in SUBSET S : Quantity(orders, S) = Quantity(orders, T) + Quantity(orders, S \ T)
         /\ \A i \in S : Quantity(orders, S) = orders[i].qty + Quantity(orders, S \ {i})
<1>. DEFINE f == [i \in Repairs(orders) |-> orders[i].qty]
<1>1. \A i \in Repairs(orders) : f[i] \in Int /\ f[i] \in Nat
  BY RepairSets
<1>2. ASSUME NEW V \in SUBSET Repairs(orders)
      PROVE  IsFiniteSet(V) /\ Quantity(orders, V) = SumFunctionOnSet(f, V)
  <2>. DEFINE g == [i \in V |-> orders[i].qty]
  <2>1. IsFiniteSet(V)
    BY RepairSets, FS_Subset
  <2>2. \A i \in V : g[i] = f[i] /\ g[i] \in Int
    BY <1>1
  <2>3. Quantity(orders, V) = SumFunctionOnSet(g, V)
    BY QuantityIs
  <2>. HIDE DEF f, g
  <2>4. SumFunctionOnSet(g, V) = SumFunctionOnSet(f, V)
    BY <2>1, <2>2, SumSame
  <2>. QED  BY <2>1, <2>3, <2>4
<1>3. \A i \in S : f[i] = orders[i].qty
  OBVIOUS
<1>. HIDE DEF f
<1>4. Quantity(orders, S) \in Nat
  <2>1. \A i \in S : f[i] \in Nat
    BY <1>1
  <2>. QED  BY <1>2, <2>1, SumNat
<1>5. ASSUME NEW T \in SUBSET S
      PROVE  Quantity(orders, S) = Quantity(orders, T) + Quantity(orders, S \ T)
  <2>1. T \cap (S \ T) = {} /\ T \cup (S \ T) = S /\ \A x \in T \cup (S \ T) : f[x] \in Int
    BY <1>1
  <2>2. SumFunctionOnSet(f, T \cup (S \ T)) = SumFunctionOnSet(f, T) + SumFunctionOnSet(f, S \ T)
    BY <1>2, <2>1, SumUnion
  <2>3. S \ T \in SUBSET Repairs(orders) /\ T \in SUBSET Repairs(orders)
    OBVIOUS
  <2>. QED  BY <1>2, <2>1, <2>2, <2>3
<1>6. ASSUME NEW i \in S PROVE Quantity(orders, S) = orders[i].qty + Quantity(orders, S \ {i})
  <2>1. SumFunctionOnSet(f, S) = f[i] + SumFunctionOnSet(f, S \ {i})
    BY <1>1, <1>2, SumPick
  <2>. QED  BY <1>2, <1>3, <2>1
<1>. QED  BY <1>4, <1>5, <1>6

\* No two rows stand for one line.
LEMMA OneStandsForALine ==
  ASSUME NEW orders, OrdersTyped(orders), NEW i \in LineRows(orders), NEW j \in LineRows(orders), i # j
  PROVE  LineBefore(orders, i, j) \/ LineBefore(orders, j, i)
<1>1. i \in KnownRows(orders) /\ j \in KnownRows(orders) /\ i \in DOMAIN orders /\ j \in DOMAIN orders
  BY RepairSets
<1>2. ASSUME orders[i].order = orders[j].order, orders[i].line = orders[j].line PROVE FALSE
  <2>1. j \in SameLine(orders, i) /\ i \in SameLine(orders, j)
    BY <1>1, <1>2 DEF SameLine
  <2>2. ~StandsBefore(orders, j, i) /\ ~StandsBefore(orders, i, j)
    BY <2>1 DEF LineRows
  <2>. QED  BY <1>1, <2>2, OrderNumbers DEF StandsBefore
<1>. QED  BY <1>1, <1>2, OrderNumbers DEF LineBefore

\* What the lines are granted one after the other is within what each asks for and,
\* in sum, within the capacity: by induction over the lines that came first.
LEMMA GrantWithinCapacity ==
  ASSUME NEW orders, OrdersTyped(orders), NEW wip \in Nat
  PROVE  /\ Capacity(orders, wip) \in Nat
         /\ \A i \in Creditable(orders) : /\ Granted(orders, wip, i) \in Nat
                                          /\ Granted(orders, wip, i) <= orders[i].qty
         /\ SumFunctionOnSet([i \in Creditable(orders) |-> Granted(orders, wip, i)],
                             Creditable(orders)) <= Capacity(orders, wip)
<1>. DEFINE C == Creditable(orders)
            cap == Capacity(orders, wip)
            g == [i \in C |-> Granted(orders, wip, i)]
            Q(S) == Quantity(orders, S)
            earlier(i) == {j \in C : LineBefore(orders, j, i)}
            down(T) == \A i \in T : earlier(i) \subseteq T
            G == {T \in SUBSET C : down(T) => /\ SumFunctionOnSet(g, T) <= cap
                                              /\ SumFunctionOnSet(g, T) <= Q(T)}
<1>1. cap \in Nat
  <2>1. Ambiguous(orders) \in SUBSET Repairs(orders)
    BY RepairSets DEF Ambiguous
  <2>2. Quantity(orders, Ambiguous(orders)) \in Nat
    BY <2>1, QuantityParts
  <2>. QED  BY <2>2 DEF Capacity, Most
<1>2. IsFiniteSet(C) /\ C \in SUBSET Repairs(orders) /\ C \in SUBSET LineRows(orders)
  BY RepairSets, FS_Subset
<1>3. ASSUME NEW i \in C
      PROVE  /\ Q(earlier(i)) \in Nat /\ orders[i].qty \in Nat
             /\ g[i] = Least(orders[i].qty, Most(0, cap - Q(earlier(i))))
             /\ g[i] \in Nat /\ g[i] <= orders[i].qty
  <2>1. earlier(i) \in SUBSET Repairs(orders)
    BY <1>2
  <2>. HIDE DEF earlier, C
  <2>2. Q(earlier(i)) \in Nat
    BY <2>1, QuantityParts
  <2>3. orders[i].qty \in Nat
    BY <1>2, RepairSets
  <2>4. g[i] = Least(orders[i].qty, Most(0, cap - Q(earlier(i))))
    BY DEF Granted, C, earlier
  <2>. HIDE DEF g, Q, cap
  <2>. QED  BY <1>1, <2>2, <2>3, <2>4 DEF Least, Most
<1>4. ASSUME NEW T \in SUBSET C, \A U \in SUBSET T : U # T => U \in G
      PROVE  T \in G
  <2>. SUFFICES ASSUME down(T)
                PROVE  SumFunctionOnSet(g, T) <= cap /\ SumFunctionOnSet(g, T) <= Q(T)
    OBVIOUS
  <2>0. IsFiniteSet(T) /\ T \in SUBSET Repairs(orders) /\ Q(T) \in Nat
    BY <1>2, FS_Subset, QuantityParts
  <2>1. CASE T = {}
    BY <1>1, <2>0, <2>1, SumEmpty
  <2>2. CASE T # {}
    <3>. DEFINE R == {p \in T \X T : LineBefore(orders, p[1], p[2])}
    <3>1. \A i \in T : orders[i].order \in Int /\ orders[i].line \in Int
      BY <2>0, RepairSets, OrderNumbers
    <3>2. /\ \A x, y, z \in T : <<x, y>> \in R /\ <<y, z>> \in R => <<x, z>> \in R
          /\ \A x \in T : <<x, x>> \notin R
      BY <3>1 DEF LineBefore
    <3>3. PICK m \in T : \A x \in T : <<m, x>> \notin R
      <4>. HIDE DEF R
      <4>. QED  BY <2>0, <2>2, <3>2, FiniteHasMaximal
    <3>. DEFINE U == T \ {m}
    <3>4. \A x \in T : ~LineBefore(orders, m, x)
      BY <3>3
    <3>5. U = earlier(m)
      <4>1. \A x \in U : LineBefore(orders, x, m)
        BY <1>2, <3>4, OneStandsForALine
      <4>2. ~LineBefore(orders, m, m)
        BY <3>1 DEF LineBefore
      <4>. QED  BY <4>1, <4>2
    <3>6. down(U)
      <4>. SUFFICES ASSUME NEW i \in U, NEW j \in earlier(i) PROVE j \in U
        OBVIOUS
      <4>1. j \in T /\ j # m
        BY <3>4
      <4>. QED  BY <4>1
    <3>7. U \in G /\ m \in C
      BY <1>4
    <3>8. SumFunctionOnSet(g, U) <= cap /\ SumFunctionOnSet(g, U) <= Q(U)
      BY <3>6, <3>7
    <3>9. \A x \in T : g[x] \in Int /\ g[x] \in Nat
      <4>1. \A x \in C : g[x] \in Nat
        BY <1>3
      <4>. HIDE DEF g
      <4>. QED  BY <4>1
    <3>10. SumFunctionOnSet(g, T) = g[m] + SumFunctionOnSet(g, U)
      <4>. HIDE DEF g
      <4>. QED  BY <2>0, <3>9, SumPick
    <3>11. Q(T) = orders[m].qty + Q(U)
      BY <2>0, QuantityParts
    <3>12. /\ Q(U) \in Nat /\ orders[m].qty \in Nat /\ g[m] <= orders[m].qty /\ g[m] \in Nat
           /\ g[m] = Least(orders[m].qty, Most(0, cap - Q(U)))
      BY <1>3, <3>5, <3>7
    <3>13. SumFunctionOnSet(g, U) \in Int
      <4>1. IsFiniteSet(U)
        BY <2>0, FS_Subset
      <4>. HIDE DEF g
      <4>. QED  BY <3>9, <4>1, SumType
    <3>. DEFINE a == SumFunctionOnSet(g, U)  b == g[m]  c == Q(U)  d == orders[m].qty
    <3>. HIDE DEF a, b, c, d, g, U, Q, cap
    <3>14. /\ a \in Int /\ b \in Nat /\ c \in Nat /\ d \in Nat /\ cap \in Nat
           /\ a <= cap /\ a <= c /\ b <= d /\ b = Least(d, Most(0, cap - c))
      BY <1>1, <3>8, <3>12, <3>13 DEF a, b, c, d
    <3>15. b + a <= cap /\ b + a <= d + c
      BY <3>14 DEF Least, Most
    <3>. QED  BY <3>10, <3>11, <3>15 DEF a, b, c, d
  <2>. QED  BY <2>1, <2>2
<1>5. C \in G
  <2>. HIDE DEF G, C
  <2>. QED  BY <1>2, <1>4, SubsetInduction
<1>6. SumFunctionOnSet(g, C) <= cap
  <2>1. down(C)
    OBVIOUS
  <2>. QED  BY <1>5, <2>1
<1>. QED  BY <1>1, <1>3, <1>6

\* What is granted and what is cut add up to what the lines ask for.
LEMMA CreditedAndShort ==
  ASSUME NEW orders, OrdersTyped(orders), NEW wip \in Nat
  PROVE  LET C == Creditable(orders)
             g(i) == Granted(orders, wip, i)
             short == {j \in C : g(j) < orders[j].qty}
             credit == SumFunction([i \in {j \in C : g(j) > 0} |-> g(i)])
         IN  /\ credit \in Nat /\ credit <= Capacity(orders, wip)
             /\ credit + SumFunctionOnSet([i \in short |-> orders[i].qty - g(i)], short)
                  = Quantity(orders, C)
<1>. DEFINE C == Creditable(orders)
            g == [i \in C |-> Granted(orders, wip, i)]
            some == {j \in C : g[j] > 0}
            short == {j \in C : g[j] < orders[j].qty}
            h == [i \in some |-> Granted(orders, wip, i)]
            rest == [i \in C |-> orders[i].qty - g[i]]
            left == [i \in short |-> orders[i].qty - Granted(orders, wip, i)]
            whole == [i \in C |-> orders[i].qty]
<1>1. IsFiniteSet(C) /\ \A i \in C : g[i] \in Nat /\ g[i] <= orders[i].qty /\ orders[i].qty \in Nat
  BY RepairSets, FS_Subset, GrantWithinCapacity
<1>2. SumFunctionOnSet(g, C) <= Capacity(orders, wip) /\ SumFunctionOnSet(g, C) \in Nat
  <2>1. SumFunctionOnSet(g, C) <= Capacity(orders, wip)
    BY GrantWithinCapacity
  <2>. HIDE DEF g
  <2>. QED  BY <1>1, <2>1, SumNat
<1>3. SumFunctionOnSet(h, some) = SumFunctionOnSet(g, C)
  <2>1. some \in SUBSET C /\ IsFiniteSet(some) /\ (\A i \in C : g[i] \in Int) /\ \A i \in C \ some : g[i] = 0
    <3>1. \A i \in C : g[i] \in Int /\ (i \notin some => g[i] = 0)
      BY <1>1
    <3>2. some \in SUBSET C
      OBVIOUS
    <3>. HIDE DEF some, g, C
    <3>. QED  BY <1>1, <3>1, <3>2, FS_Subset
  <2>2. \A i \in some : h[i] = g[i] /\ h[i] \in Int
    BY <1>1
  <2>. HIDE DEF g, h, some, C
  <2>3. SumFunctionOnSet(h, some) = SumFunctionOnSet(g, some)
    BY <2>1, <2>2, SumSame
  <2>4. SumFunctionOnSet(g, C) = SumFunctionOnSet(g, some)
    BY <1>1, <2>1, SumRest
  <2>. QED  BY <2>3, <2>4
<1>4. SumFunctionOnSet(left, short) = SumFunctionOnSet(rest, C)
  <2>1. \A i \in C : rest[i] \in Int /\ (i \notin short => rest[i] = 0)
    BY <1>1
  <2>2. short \in SUBSET C /\ IsFiniteSet(short)
    BY <1>1, FS_Subset
  <2>3. \A i \in short : left[i] = rest[i] /\ left[i] \in Int
    BY <1>1
  <2>. HIDE DEF rest, left, short, C
  <2>4. SumFunctionOnSet(left, short) = SumFunctionOnSet(rest, short)
    BY <2>2, <2>3, SumSame
  <2>5. SumFunctionOnSet(rest, C) = SumFunctionOnSet(rest, short)
    BY <1>1, <2>1, <2>2, SumRest
  <2>. QED  BY <2>4, <2>5
<1>5. SumFunctionOnSet(whole, C) = SumFunctionOnSet(g, C) + SumFunctionOnSet(rest, C)
  <2>1. \A i \in C : g[i] \in Int /\ rest[i] \in Int /\ whole[i] = g[i] + rest[i]
    BY <1>1
  <2>. HIDE DEF g, rest, whole, C
  <2>. QED  BY <1>1, <2>1, SumPlus
<1>6. Quantity(orders, C) = SumFunctionOnSet(whole, C)
  BY QuantityIs
<1>7. SumFunction(h) = SumFunctionOnSet(h, some)
  BY DEF SumFunction
<1>8. /\ some = {j \in C : Granted(orders, wip, j) > 0}
      /\ short = {j \in C : Granted(orders, wip, j) < orders[j].qty}
  OBVIOUS
<1>. HIDE DEF g, rest, whole
<1>9. /\ SumFunction(h) \in Nat /\ SumFunction(h) <= Capacity(orders, wip)
      /\ SumFunction(h) + SumFunctionOnSet(left, short) = Quantity(orders, C)
  BY <1>2, <1>3, <1>4, <1>5, <1>6, <1>7
<1>. QED  BY <1>8, <1>9

\* The exclusions add up to the unidentified rows, the lines with objections, what
\* the capacity cut off, and the residual.
LEMMA ExcludedUnits ==
  ASSUME NEW orders, OrdersTyped(orders), NEW wip \in Nat, NEW residual \in Nat
  PROVE  LET U == Repairs(orders) \ KnownRows(orders)
             B == LineRows(orders) \ Creditable(orders)
             short == {j \in Creditable(orders) : Granted(orders, wip, j) < orders[j].qty}
         IN  Total(ExclusionsOf(orders, wip, residual), LAMBDA x : x.qty)
               = Quantity(orders, U) + Quantity(orders, B)
                   + SumFunctionOnSet([i \in short |-> orders[i].qty - Granted(orders, wip, i)], short)
                   + residual
<1>. DEFINE U == Repairs(orders) \ KnownRows(orders)
            B == LineRows(orders) \ Creditable(orders)
            short == {j \in Creditable(orders) : Granted(orders, wip, j) < orders[j].qty}
            Z == IF residual > 0 THEN {Missing} ELSE {}
            N == U \cup B \cup short \cup Z
            left(i) == orders[i].qty - Granted(orders, wip, i)
            e == [i \in N |->
                    IF i \in U THEN Exclusion(i, orders[i].qty, IF orders[i].order = Missing
                                              THEN "missing_order_identity" ELSE "missing_line_identity")
                    ELSE IF i \in B THEN Exclusion(i, orders[i].qty, PrimaryReason(Objections(orders, i)))
                    ELSE IF i \in short THEN Exclusion(i, left(i), "aggregate_wip_cap")
                    ELSE Exclusion(Missing, residual, "unidentified_aggregate_residual")]
            k == [i \in N |-> e[i].qty]
            X == ExclusionsOf(orders, wip, residual)
            f == [x \in X |-> x.qty]
<1>1. /\ U \in SUBSET DOMAIN orders /\ B \in SUBSET DOMAIN orders /\ short \in SUBSET DOMAIN orders
      /\ U \cap B = {} /\ U \cap short = {} /\ B \cap short = {} /\ Missing \notin DOMAIN orders
  BY RepairSets, OrderNumbers DEF Missing
<1>2. U \cap Z = {} /\ B \cap Z = {} /\ short \cap Z = {} /\ \A i \in Z : i = Missing /\ residual > 0
  BY <1>1
<1>3. IsFiniteSet(U) /\ IsFiniteSet(B) /\ IsFiniteSet(short) /\ IsFiniteSet(Z)
  BY <1>1, FS_Subset, FS_EmptySet, FS_Singleton, OrderNumbers
<1>4. IsFiniteSet(N)
  BY <1>3, FS_Union
<1>5. \A i \in N : e[i].row = i
  BY <1>1, <1>2 DEF Exclusion
<1>6. X = {e[i] : i \in N}
  <2>. DEFINE X1 == {Exclusion(i, orders[i].qty, IF orders[i].order = Missing
                               THEN "missing_order_identity" ELSE "missing_line_identity") : i \in U}
              X2 == {Exclusion(i, orders[i].qty, PrimaryReason(Objections(orders, i))) : i \in B}
              X3 == {Exclusion(i, left(i), "aggregate_wip_cap") : i \in short}
              X4 == {Exclusion(Missing, residual, x) :
                       x \in {y \in {"unidentified_aggregate_residual"} : residual > 0}}
  <2>1. X = X1 \cup X2 \cup X3 \cup X4
    BY DEF ExclusionsOf
  <2>2. X1 = {e[i] : i \in U}
    OBVIOUS
  <2>3. X2 = {e[i] : i \in B}
    BY <1>1
  <2>4. X3 = {e[i] : i \in short}
    BY <1>1
  <2>5. X4 = {e[i] : i \in Z}
    BY <1>2
  <2>. HIDE DEF X, X1, X2, X3, X4, U, B, short, Z, e
  <2>. QED  BY <2>1, <2>2, <2>3, <2>4, <2>5
<1>7. /\ \A i \in U : k[i] = orders[i].qty
      /\ \A i \in B : k[i] = orders[i].qty
      /\ \A i \in short : k[i] = left(i)
      /\ \A i \in Z : k[i] = residual
  BY <1>1, <1>2 DEF Exclusion
<1>8. /\ \A i \in DOMAIN orders : orders[i].qty \in Int
      /\ \A i \in short : left(i) \in Int
  <2>1. \A i \in DOMAIN orders : orders[i].qty \in Int
    BY OrderNumbers
  <2>2. \A i \in short : Granted(orders, wip, i) \in Nat
    BY GrantWithinCapacity
  <2>. QED  BY <1>1, <2>1, <2>2
<1>9. \A i \in N : k[i] \in Int
  <2>. HIDE DEF k, left, U, B, short, Z
  <2>. QED  BY <1>1, <1>7, <1>8
<1>10. SumFunctionOnSet(f, X) = SumFunctionOnSet(k, N)
  <2>1. \A i \in N : k[i] = f[e[i]] /\ k[i] \in Int
    BY <1>6, <1>9
  <2>2. \A i, j \in N : e[i] = e[j] => i = j
    <3>. HIDE DEF e, N
    <3>. QED  BY <1>5
  <2>. HIDE DEF f, e, k, N, X
  <2>3. SumFunctionOnSet(f, {e[i] : i \in N}) = SumFunctionOnSet(k, N)
    BY <1>4, <2>1, <2>2, SumImage
  <2>. QED  BY <1>6, <2>3
<1>11. SumFunctionOnSet(k, N) = SumFunctionOnSet(k, U) + SumFunctionOnSet(k, B)
                                  + SumFunctionOnSet(k, short) + SumFunctionOnSet(k, Z)
  <2>. HIDE DEF k, U, B, short, Z
  <2>. QED  BY <1>1, <1>2, <1>3, <1>9, FourParts
<1>12. ASSUME NEW S \in SUBSET DOMAIN orders, S \in SUBSET N, \A i \in S : k[i] = orders[i].qty, IsFiniteSet(S)
       PROVE  SumFunctionOnSet(k, S) = Quantity(orders, S)
  <2>. DEFINE q == [i \in S |-> orders[i].qty]
  <2>1. \A i \in S : k[i] = q[i] /\ k[i] \in Int
    BY <1>9, <1>12
  <2>. HIDE DEF k, q
  <2>2. SumFunctionOnSet(k, S) = SumFunctionOnSet(q, S)
    BY <1>12, <2>1, SumSame
  <2>. QED  BY <2>2, QuantityIs DEF q
<1>13. SumFunctionOnSet(k, U) = Quantity(orders, U) /\ SumFunctionOnSet(k, B) = Quantity(orders, B)
  <2>1. U \in SUBSET N /\ B \in SUBSET N
    OBVIOUS
  <2>. HIDE DEF k, U, B, N
  <2>. QED  BY <1>1, <1>3, <1>7, <1>12, <2>1
<1>14. SumFunctionOnSet(k, short) = SumFunctionOnSet([i \in short |-> left(i)], short)
  <2>. DEFINE l == [i \in short |-> left(i)]
  <2>1. \A i \in short : k[i] = l[i] /\ k[i] \in Int
    BY <1>7, <1>9
  <2>. HIDE DEF k, l, short
  <2>2. SumFunctionOnSet(k, short) = SumFunctionOnSet(l, short)
    BY <1>3, <2>1, SumSame
  <2>. QED  BY <2>2 DEF l
<1>15. SumFunctionOnSet(k, Z) = residual
  <2>1. CASE residual > 0
    <3>1. Z = {Missing} /\ k[Missing] = residual
      BY <1>7, <2>1
    <3>. HIDE DEF k, Z
    <3>. QED  BY <3>1, SumOne
  <2>2. CASE residual = 0
    <3>1. Z = {}
      BY <2>2
    <3>. HIDE DEF k, Z
    <3>. QED  BY <2>2, <3>1, SumEmpty
  <2>. QED  BY <2>1, <2>2
<1>16. Total(X, LAMBDA x : x.qty) = SumFunctionOnSet(f, X)
  BY DEF Total, SumFunction
<1>. HIDE DEF k, f, X, U, B, N, Z, left
<1>. QED  BY <1>10, <1>11, <1>13, <1>14, <1>15, <1>16 DEF X, U, B, left

\* With a snapshot every unit is credited or excluded, once, within what the work in
\* progress leaves.
LEMMA KnownBalances ==
  ASSUME NEW orders, OrdersTyped(orders), NEW wip \in Nat
  PROVE  LET p == Known(orders, wip) IN
         /\ p.eligible + Total(p.exclusions, LAMBDA x : x.qty)
              = Most(p.wip, p.identified + p.unidentified)
         /\ p.eligible <= Most(0, p.wip - Quantity(orders, Ambiguous(orders)))
<1>. DEFINE p == Known(orders, wip)
            C == Creditable(orders)
            B == LineRows(orders) \ C
            U == Repairs(orders) \ KnownRows(orders)
            L == LineRows(orders)
            short == {j \in C : Granted(orders, wip, j) < orders[j].qty}
            left == SumFunctionOnSet([i \in short |-> orders[i].qty - Granted(orders, wip, i)], short)
            residual == Most(0, wip - (Quantity(orders, L) + Quantity(orders, U)))
<1>1. Quantity(orders, L) \in Nat /\ Quantity(orders, U) \in Nat
      /\ Quantity(orders, L) = Quantity(orders, C) + Quantity(orders, B)
      /\ Quantity(orders, C) \in Nat /\ Quantity(orders, B) \in Nat
  <2>1. L \in SUBSET Repairs(orders) /\ U \in SUBSET Repairs(orders) /\ C \in SUBSET L
        /\ C \in SUBSET Repairs(orders) /\ B \in SUBSET Repairs(orders) /\ B = L \ C
    BY RepairSets
  <2>. HIDE DEF L, U, C, B
  <2>. QED  BY <2>1, QuantityParts
<1>2. residual \in Nat
  <2>. DEFINE l == Quantity(orders, L)  u == Quantity(orders, U)
  <2>1. l \in Nat /\ u \in Nat
    BY <1>1
  <2>. HIDE DEF l, u
  <2>2. Most(0, wip - (l + u)) \in Nat
    BY <2>1 DEF Most
  <2>. QED  BY <2>2 DEF l, u
<1>3. /\ p.eligible \in Nat /\ p.eligible <= Capacity(orders, wip)
      /\ p.eligible + left = Quantity(orders, C)
  BY CreditedAndShort DEF Known
<1>4. /\ p.wip = wip /\ p.identified = Quantity(orders, L) /\ p.unidentified = Quantity(orders, U)
      /\ p.exclusions = ExclusionsOf(orders, wip, residual)
  BY DEF Known
<1>5. Total(p.exclusions, LAMBDA x : x.qty)
        = Quantity(orders, U) + Quantity(orders, B) + left + residual
  <2>1. Total(ExclusionsOf(orders, wip, residual), LAMBDA x : x.qty)
          = Quantity(orders, U) + Quantity(orders, B) + left + residual
    <3>. HIDE DEF residual
    <3>. QED  BY <1>2, ExcludedUnits
  <2>. HIDE DEF p
  <2>. QED  BY <1>4, <2>1
<1>6. p.eligible + Total(p.exclusions, LAMBDA x : x.qty) = Most(p.wip, p.identified + p.unidentified)
  <2>. DEFINE u == Quantity(orders, U)  b == Quantity(orders, B)  c == Quantity(orders, C)
              l == Quantity(orders, L)  el == p.eligible  tot == Total(p.exclusions, LAMBDA x : x.qty)
  <2>1. /\ u \in Nat /\ b \in Nat /\ c \in Nat /\ l = c + b /\ el \in Nat /\ el + left = c
        /\ tot = u + b + left + residual
    BY <1>1, <1>3, <1>5
  <2>2. left \in Int
    <3>1. left = SumFunctionOnSet([i \in short |-> orders[i].qty - Granted(orders, wip, i)], short)
      OBVIOUS
    <3>2. IsFiniteSet(short) /\ \A i \in short : orders[i].qty - Granted(orders, wip, i) \in Int
      <4>1. \A i \in C : orders[i].qty \in Nat /\ Granted(orders, wip, i) \in Nat
        BY RepairSets, GrantWithinCapacity
      <4>2. IsFiniteSet(C)
        BY RepairSets, FS_Subset
      <4>. QED  BY <4>1, <4>2, FS_Subset
    <3>. DEFINE f == [i \in short |-> orders[i].qty - Granted(orders, wip, i)]
    <3>3. \A i \in short : f[i] \in Int
      BY <3>2
    <3>. HIDE DEF f, short
    <3>4. SumFunctionOnSet(f, short) \in Int
      BY <3>2, <3>3, SumType
    <3>. QED  BY <3>4 DEF f, short
  <2>3. residual = Most(0, wip - (l + u))
    OBVIOUS
  <2>. HIDE DEF u, b, c, l, el, tot, left, residual
  <2>4. el + tot = Most(wip, l + u)
    BY <1>2, <2>1, <2>2, <2>3 DEF Most
  <2>. QED  BY <1>4, <2>4 DEF u, l, el, tot
<1>7. Capacity(orders, wip) = Most(0, p.wip - Quantity(orders, Ambiguous(orders)))
  BY <1>4 DEF Capacity
<1>. QED  BY <1>3, <1>6, <1>7

\* Without one, all the work in progress is excluded.
LEMMA UnknownBalances ==
  ASSUME NEW wip \in Nat
  PROVE  LET p == Unknown(wip) IN
         /\ p.eligible + Total(p.exclusions, LAMBDA x : x.qty)
              = Most(p.wip, p.identified + p.unidentified)
         /\ p.eligible = 0 /\ p.included = <<>>
<1>. DEFINE p == Unknown(wip)
            f == [x \in p.exclusions |-> x.qty]
            e == Exclusion(Missing, wip, "unidentified_aggregate_residual")
<1>1. Total(p.exclusions, LAMBDA x : x.qty) = SumFunctionOnSet(f, p.exclusions)
  BY DEF Total, SumFunction
<1>2. /\ p.eligible = 0 /\ p.included = <<>> /\ p.wip = wip /\ p.identified = 0 /\ p.unidentified = 0
      /\ p.exclusions = IF wip > 0 THEN {e} ELSE {}
  BY DEF Unknown
<1>3. SumFunctionOnSet(f, p.exclusions) = wip
  <2>1. CASE wip > 0
    <3>1. p.exclusions = {e} /\ f[e] = wip
      BY <1>2, <2>1 DEF Exclusion
    <3>. HIDE DEF f, p, e
    <3>. QED  BY <3>1, SumOne
  <2>2. CASE wip = 0
    <3>1. p.exclusions = {}
      BY <1>2, <2>2
    <3>. HIDE DEF f, p
    <3>. QED  BY <2>2, <3>1, SumEmpty
  <2>. QED  BY <2>1, <2>2
<1>. HIDE DEF p
<1>4. p.eligible + Total(p.exclusions, LAMBDA x : x.qty) = Most(p.wip, p.identified + p.unidentified)
  BY <1>1, <1>2, <1>3 DEF Most
<1>. QED  BY <1>2, <1>4 DEF p

\* No row shares its line or its serial with a credited one.
LEMMA CreditedIsUnique ==
  ASSUME NEW orders, OrdersTyped(orders), NEW i \in Creditable(orders),
         NEW j \in Repairs(orders) \ {i}
  PROVE  /\ <<orders[j].order, orders[j].line>> # <<orders[i].order, orders[i].line>>
         /\ orders[i].serial # Missing => orders[j].serial # orders[i].serial
<1>0. /\ i \in Repairs(orders) /\ i \in KnownRows(orders) /\ IsFiniteSet(Repairs(orders))
  BY RepairSets
<1>1. /\ ~(Cardinality(SameLine(orders, i)) > 1)
      /\ ~(orders[i].serial # Missing /\ Cardinality(SameSerial(orders, i)) > 1)
  <2>1. Objections(orders, i) = {}
    BY DEF Creditable
  <2>2. Cardinality(SameLine(orders, i)) > 1 => "duplicate_order_line" \in Objections(orders, i)
    BY DEF Objections
  <2>3. orders[i].serial # Missing /\ Cardinality(SameSerial(orders, i)) > 1
           => "duplicate_serial" \in Objections(orders, i)
    BY DEF Objections
  <2>. QED  BY <2>1, <2>2, <2>3
<1>2. ASSUME orders[j].order = orders[i].order, orders[j].line = orders[i].line
      PROVE  FALSE
  <2>1. j \in KnownRows(orders)
    BY <1>0, <1>2 DEF KnownRows, LineKnown
  <2>2. i \in SameLine(orders, i) /\ j \in SameLine(orders, i)
    BY <1>0, <1>2, <2>1 DEF SameLine
  <2>3. IsFiniteSet(SameLine(orders, i))
    BY <1>0, RepairSets, FS_Subset DEF SameLine
  <2>. QED  BY <1>1, <2>2, <2>3, SomeAreTwo
<1>3. ASSUME orders[i].serial # Missing, orders[j].serial = orders[i].serial
      PROVE  FALSE
  <2>1. i \in SameSerial(orders, i) /\ j \in SameSerial(orders, i)
    BY <1>0, <1>3 DEF SameSerial
  <2>2. IsFiniteSet(SameSerial(orders, i))
    BY <1>0, FS_Subset DEF SameSerial
  <2>. QED  BY <1>1, <1>3, <2>1, <2>2, SomeAreTwo
<1>. QED  BY <1>2, <1>3

\* repair_pipeline.py credits conservatively whatever the snapshot: each unit it or
\* the aggregate tells of is credited or excluded, and once; no more is credited than
\* is left of the work in progress; and no line or serial is credited that is there twice.
THEOREM RepairCredit ==
    AlgorithmSpec => []RepairCreditIsConservative
<1>1. Typed(case) /\ Answers => RepairCreditIsConservative
  <2>. SUFFICES ASSUME Typed(case), Answers, Computed("repair")
                PROVE  RepairCreditIsConservative
    BY DEF RepairCreditIsConservative
  <2>. DEFINE p == result.pipeline
              orders == case.snapshot.orders
              wip == Most(0, case.wip)
  <2>1. RepairTyped(case) /\ p = Pipeline(case.snapshot, case.wip)
    BY DEF Typed, Answers, Computed, Repair
  <2>2. OrdersTyped(orders)
    BY <2>1 DEF RepairTyped
  <2>3. wip \in Nat
    BY <2>1 DEF RepairTyped, Most
  <2>4. p = IF case.snapshot.absent THEN Unknown(wip) ELSE Known(orders, wip)
    BY <2>1 DEF Pipeline
  <2>. HIDE DEF p, orders, wip
  <2>5. /\ p.eligible + Total(p.exclusions, LAMBDA x : x.qty) = Most(p.wip, p.identified + p.unidentified)
        /\ p.eligible <= Most(0, p.wip - Quantity(orders, Ambiguous(orders)))
    <3>1. CASE ~case.snapshot.absent
      BY <2>2, <2>3, <2>4, <3>1, KnownBalances
    <3>2. CASE case.snapshot.absent
      <4>1. p = Unknown(wip) /\ p.wip = wip
        BY <2>4, <3>2 DEF Unknown
      <4>2. Ambiguous(orders) \in SUBSET Repairs(orders)
        BY <2>2, RepairSets DEF Ambiguous
      <4>3. Quantity(orders, Ambiguous(orders)) \in Nat
        BY <2>2, <4>2, QuantityParts
      <4>4. 0 <= Most(0, p.wip - Quantity(orders, Ambiguous(orders)))
        BY <2>3, <4>1, <4>3 DEF Most
      <4>. QED  BY <2>3, <4>1, <4>4, UnknownBalances
    <3>. QED  BY <3>1, <3>2
  <2>6. DOMAIN p.included \subseteq Creditable(orders)
    <3>1. CASE ~case.snapshot.absent
      BY <2>4, <3>1 DEF Known
    <3>2. CASE case.snapshot.absent
      <4>1. DOMAIN p.included = {}
        BY <2>4, <3>2 DEF Unknown
      <4>. QED  BY <4>1
    <3>. QED  BY <3>1, <3>2
  <2>7. \A i \in DOMAIN p.included : \A j \in Repairs(orders) \ {i} :
           /\ <<orders[j].order, orders[j].line>> # <<orders[i].order, orders[i].line>>
           /\ orders[i].serial # Missing => orders[j].serial # orders[i].serial
    BY <2>2, <2>6, CreditedIsUnique
  <2>. QED  BY <2>5, <2>7 DEF RepairCreditIsConservative, p, orders
<1>. QED  BY <1>1, AnswersAreComputed, PTL

-----------------------------------------------------------------------------
(* The replay of decisions: what came too late.                            *)

\* Whatever a side rests on that is known only after the decision is a violation of
\* the cutoff.
LEMMA LateIsAViolation ==
  ASSUME NEW r, NEW side \in Sides, NEW t \in KnownFrom(r, side), t > r.asof
  PROVE  CutoffViolations(r) # {}
<1>1. CASE t = r[side].selected
  <2>1. <<side, "planning_selection">> \in CutoffViolations(r)
    BY <1>1 DEF CutoffViolations
  <2>. QED  BY <2>1
<1>2. CASE \E k \in PolicyKinds : t = r[side].artifacts[k].available
  <2>1. PICK k \in PolicyKinds : t = r[side].artifacts[k].available
    BY <1>2
  <2>2. <<side, k>> \in CutoffViolations(r)
    BY <2>1 DEF CutoffViolations, Late
  <2>. QED  BY <2>2
<1>3. CASE \E k \in FactualKinds : t = r.factual[k].available
  <2>1. PICK k \in FactualKinds : t = r.factual[k].available
    BY <1>3
  <2>2. <<"factual", k>> \in CutoffViolations(r)
    BY <2>1 DEF CutoffViolations, Late
  <2>. QED  BY <2>2
<1>. QED  BY <1>1, <1>2, <1>3 DEF KnownFrom

\* A reviewer's exclusion keeps what identifies a record.
LEMMA ReviewedRecord ==
  ASSUME NEW c, PackageTyped(c), NEW i \in DOMAIN c.records
  PROVE  LET r == c.records[i]
             s == Reviewed(c).records[i]
         IN  /\ DOMAIN Reviewed(c).records = DOMAIN c.records
             /\ s = r \/ (/\ r.kind = "matched" /\ s.kind = "excluded"
                          /\ \E side \in Sides : \E t \in KnownFrom(r, side) : t > r.asof)
             /\ Decision(r) = Decision(s)
             /\ s # r => ExclusionOf(s) = ExclusionOf(r)
BY DEF Reviewed, PackageTyped, Decision, ExclusionOf

\* A package is worth what it is with the late records excluded by a reviewer.
LEMMA ReviewedAlike ==
  ASSUME NEW c, PackageTyped(c), SourceAccepted(c)
  PROVE  Evaluate(c) = Evaluate(Reviewed(c))
<1>. DEFINE d == Reviewed(c)
            seen(p) == {i \in DOMAIN p.records : /\ p.records[i].kind = "matched"
                                                 /\ CutoffViolations(p.records[i]) = {}}
<1>1. DOMAIN d.records = DOMAIN c.records
  BY DEF Reviewed, PackageTyped
<1>2. /\ d.tenant = c.tenant /\ d.currency = c.currency /\ d.rule = c.rule
      /\ d.tolerance = c.tolerance
  BY DEF Reviewed, PackageTyped
<1>3. \A i \in DOMAIN c.records :
         /\ d.records[i] = c.records[i] \/ (i \notin seen(c) /\ i \notin seen(d))
         /\ Decision(c.records[i]) = Decision(d.records[i])
         /\ d.records[i] # c.records[i] => ExclusionOf(d.records[i]) = ExclusionOf(c.records[i])
         /\ d.records[i].kind = "matched" => d.records[i] = c.records[i]
  <2>. TAKE i \in DOMAIN c.records
  <2>. DEFINE r == c.records[i]  s == d.records[i]
  <2>1. s = r \/ (/\ r.kind = "matched" /\ s.kind = "excluded"
                  /\ \E side \in Sides : \E t \in KnownFrom(r, side) : t > r.asof)
    BY ReviewedRecord
  <2>2. Decision(r) = Decision(s) /\ (s # r => ExclusionOf(s) = ExclusionOf(r))
    BY ReviewedRecord
  <2>3. ASSUME NEW side \in Sides, NEW t \in KnownFrom(r, side), t > r.asof
        PROVE  CutoffViolations(r) # {}
    BY <2>3, LateIsAViolation
  <2>. QED  BY <1>1, <2>1, <2>2, <2>3
<1>4. seen(d) = seen(c) /\ \A i \in seen(c) : d.records[i] = c.records[i]
  BY <1>1, <1>3
<1>5. SourceAccepted(d)
  BY <1>1, <1>3 DEF SourceAccepted
<1>6. /\ [i \in DOMAIN d.records |-> Decision(d.records[i])]
            = [i \in DOMAIN c.records |-> Decision(c.records[i])]
      /\ [i \in seen(d) |-> ObservationOf(d.records[i])]
            = [i \in seen(c) |-> ObservationOf(c.records[i])]
      /\ [i \in DOMAIN d.records \ seen(d) |-> ExclusionOf(d.records[i])]
            = [i \in DOMAIN c.records \ seen(c) |-> ExclusionOf(c.records[i])]
  BY <1>1, <1>3, <1>4
<1>7. Build(d) = Build(c)
  BY <1>1, <1>2, <1>6 DEF Build
<1>. HIDE DEF d
<1>8. Evaluate(d) = Evaluate(c)
  BY <1>5, <1>7 DEF Evaluate
<1>. QED  BY <1>8 DEF d

\* The request as the package gives it.
LEMMA ObservedOf ==
  ASSUME NEW c
  PROVE  LET q == Build(c) IN
         /\ DOMAIN q.observations =
               {i \in DOMAIN c.records : /\ c.records[i].kind = "matched"
                                         /\ CutoffViolations(c.records[i]) = {}}
         /\ \A i \in DOMAIN q.observations : q.observations[i] = ObservationOf(c.records[i])
         /\ DOMAIN q.exclusions = DOMAIN c.records \ DOMAIN q.observations
         /\ \A i \in DOMAIN q.exclusions : q.exclusions[i] = ExclusionOf(c.records[i])
         /\ DOMAIN q.universe = DOMAIN c.records
         /\ \A i \in DOMAIN c.records : q.universe[i] = Decision(c.records[i])
         /\ q.tenant = c.tenant /\ q.currency = c.currency
         /\ q.expected = Cardinality(DOMAIN c.records)
BY DEF Build

\* What is observed was decided on what was known, and is scored on what was not yet.
LEMMA ObservedInTime ==
  ASSUME NEW c, PackageTyped(c), SourceAccepted(c), RequestAccepted(Build(c)),
         NEW i \in DOMAIN Build(c).observations
  PROVE  LET r == c.records[i] IN
         /\ \A side \in Sides : \A t \in KnownFrom(r, side) : t <= r.asof
         /\ \A k \in OutcomeKinds : LET a == r.outcome.artifacts[k] IN
               a.status = "available" => r.asof < a.available
<1>. DEFINE r == c.records[i]
            o == Build(c).observations[i]
<1>1. /\ i \in DOMAIN c.records /\ r.kind = "matched" /\ CutoffViolations(r) = {}
      /\ o = ObservationOf(r)
  BY ObservedOf
<1>2. RecordTyped(r) /\ OutcomeLineageAccepted(r.outcome)
  BY <1>1 DEF PackageTyped, SourceAccepted, RecordAccepted
<1>3. ASSUME NEW side \in Sides, NEW t \in KnownFrom(r, side)
      PROVE  t <= r.asof
  <2>1. ~(t > r.asof)
    BY <1>1, LateIsAViolation
  <2>2. r.asof \in Int /\ t \in Int
    BY <1>2, <1>3 DEF KnownFrom, RecordTyped
  <2>. QED  BY <2>1, <2>2
<1>4. ASSUME NEW k \in OutcomeKinds, r.outcome.artifacts[k].status = "available"
      PROVE  r.asof < r.outcome.artifacts[k].available
  <2>. DEFINE a == r.outcome.artifacts[k]
  <2>1. MatchedObservationAccepted(o)
    BY DEF RequestAccepted
  <2>2. r.outcome.asof = r.asof
    <3>1. o.outcome = r.outcome /\ o.asof = r.asof
      BY <1>1 DEF ObservationOf
    <3>2. o.outcome.asof = o.asof
      <4>. HIDE DEF o
      <4>. QED  BY <2>1 DEF MatchedObservationAccepted
    <3>. QED  BY <3>1, <3>2
  <2>3. /\ r.outcome.asof < r.outcome.end /\ a.start = r.outcome.asof /\ a.end = r.outcome.end
        /\ a.end <= a.available
    BY <1>2, <1>4 DEF OutcomeLineageAccepted, OutcomeArtifactAccepted
  <2>. QED  BY <1>2, <2>2, <2>3 DEF RecordTyped
<1>. QED  BY <1>3, <1>4

\* build_matched_replay_request (replay/lineage.py) lets no late evidence through and
\* lets it spoil nothing: one late record does not refuse the package, and nothing that
\* was known only later, of facts, policies or outcomes, mixes with what was known then.
THEOREM LateEvidence ==
    AlgorithmSpec => []LateEvidenceIsExcluded
<1>1. Typed(case) /\ Answers => LateEvidenceIsExcluded
  <2>. SUFFICES ASSUME Typed(case), Answers, Computed("replay"), SourceAccepted(case)
                PROVE  /\ result = Evaluate(Reviewed(case))
                       /\ result.refused = "" =>
                          \A i \in DOMAIN result.request.observations :
                             LET r == case.records[i] IN
                             /\ \A side \in Sides : \A t \in KnownFrom(r, side) : t <= r.asof
                             /\ \A k \in OutcomeKinds : LET a == r.outcome.artifacts[k] IN
                                   a.status = "available" => r.asof < a.available
    BY DEF LateEvidenceIsExcluded
  <2>1. PackageTyped(case) /\ result = Evaluate(case)
    BY DEF Typed, Answers, Computed
  <2>2. result = Evaluate(Reviewed(case))
    BY <2>1, ReviewedAlike
  <2>3. result.refused = "" => RequestAccepted(Build(case)) /\ result.request = Build(case)
    BY <2>1 DEF Evaluate
  <2>. QED  BY <2>1, <2>2, <2>3, ObservedInTime
<1>. QED  BY <1>1, AnswersAreComputed, PTL

-----------------------------------------------------------------------------
(* The replay of decisions: the scorecard.                                 *)

\* An amount over rows is a sum over them.
LEMMA SumOfIs ==
  ASSUME NEW o, NEW rows, NEW side, NEW m
  PROVE  SumOf(o, rows, side, m) = SumFunctionOnSet([i \in rows |-> o[i][side].amount[m]], rows)
BY DEF SumOf, Total, SumFunction

\* Fill rates over one demand compare as what they fill, when anything is asked for.
LEMMA RatesOverOneDemand ==
  ASSUME NEW n \in Nat, NEW d \in Nat, NEW a \in Nat, NEW b \in Nat, a <= d, b <= d
  PROVE  /\ a <= b => RateAtMost(FillRate(n, a, d), FillRate(n, b, d))
         /\ n > 0 /\ RateAtMost(FillRate(n, a, d), FillRate(n, b, d)) => a <= b
<1>1. CASE n = 0
  BY <1>1 DEF RateAtMost, FillRate
<1>2. CASE n # 0 /\ d = 0
  BY <1>2 DEF RateAtMost, FillRate
<1>3. CASE n # 0 /\ d # 0
  <2>1. FillRate(n, a, d) = <<a, d>> /\ FillRate(n, b, d) = <<b, d>>
    BY <1>3 DEF FillRate
  <2>2. RateAtMost(<<a, d>>, <<b, d>>) <=> a * d <= b * d
    BY DEF RateAtMost
  <2>. QED  BY <1>3, <2>1, <2>2, TimesMonotone
<1>. QED  BY <1>1, <1>2, <1>3

\* What a scorecard is built on: a finite request whose metrics are counts, alike in
\* demand on the two sides, of rows that differ.
Scored(q) ==
    LET o == q.observations IN
    /\ IsFiniteSet(DOMAIN o)
    /\ \A i \in DOMAIN o : /\ \A side \in Sides : /\ MetricsTyped(o[i][side])
                                                  /\ MetricsAccepted(o[i][side])
                                                  /\ o[i][side].decisions = 1
                           /\ SameDemand(o[i])
    /\ \A i, j \in DOMAIN o : o[i].id = o[j].id => i = j

\* An aggregate over any rows is one the metrics' own validator accepts.
LEMMA Aggregates ==
  ASSUME NEW q, Scored(q), NEW rows \in SUBSET DOMAIN q.observations, NEW side \in Sides
  PROVE  LET a == Aggregate(q.observations, rows, side, q.currency)
             sum(m) == SumOf(q.observations, rows, side, m) IN
         /\ \A m \in Summed : a.amount[m] = sum(m) /\ sum(m) \in Nat
         /\ a.amount["backordered_units"] = sum("demanded_units") - sum("filled_units")
         /\ sum("filled_units") <= sum("demanded_units")
         /\ a.decisions = Cardinality(rows) /\ Cardinality(rows) \in Nat
         /\ a.rate = FillRate(Cardinality(rows), sum("filled_units"), sum("demanded_units"))
         /\ MetricsAccepted(a) /\ a.currency = q.currency
<1>. DEFINE o == q.observations
            a == Aggregate(o, rows, side, q.currency)
            sum(m) == SumOf(o, rows, side, m)
            f(m) == [i \in rows |-> o[i][side].amount[m]]
<1>0. IsFiniteSet(rows) /\ Cardinality(rows) \in Nat
  BY FS_Subset, FS_CardinalityType DEF Scored
<1>1. ASSUME NEW m \in Summed PROVE sum(m) \in Nat
  <2>1. \A i \in rows : f(m)[i] \in Nat
    BY DEF Scored, MetricsTyped, Amounts
  <2>2. SumFunctionOnSet(f(m), rows) \in Nat
    BY <1>0, <2>1, SumNat
  <2>. QED  BY <2>2, SumOfIs
<1>2. sum("filled_units") <= sum("demanded_units")
  <2>1. \A i \in rows : /\ f("filled_units")[i] \in Int /\ f("demanded_units")[i] \in Int
                        /\ f("filled_units")[i] <= f("demanded_units")[i]
    BY DEF Scored, MetricsTyped, MetricsAccepted, Amounts, Summed
  <2>2. SumFunctionOnSet(f("filled_units"), rows) <= SumFunctionOnSet(f("demanded_units"), rows)
    BY <1>0, <2>1, SumAtMost
  <2>. QED  BY <2>2, SumOfIs
<1>3. a.decisions = Cardinality(rows)
  <2>. DEFINE h == [i \in rows |-> o[i][side].decisions]
  <2>1. \A i \in rows : h[i] = 1
    BY DEF Scored
  <2>2. SumFunctionOnSet(h, rows) = Cardinality(rows)
    BY <1>0, <2>1, SumOnes
  <2>. QED  BY <2>2 DEF Aggregate, Total, SumFunction
<1>4. /\ \A m \in Summed : a.amount[m] = sum(m)
      /\ a.amount["backordered_units"] = sum("demanded_units") - sum("filled_units")
      /\ a.currency = q.currency
      /\ a.rate = FillRate(a.decisions, sum("filled_units"), sum("demanded_units"))
  BY DEF Aggregate, Amounts, Summed
<1>. HIDE DEF a, sum
<1>5. sum("filled_units") \in Nat /\ sum("demanded_units") \in Nat
  BY <1>1 DEF Summed
<1>6. /\ a.amount["filled_units"] = sum("filled_units")
      /\ a.amount["demanded_units"] = sum("demanded_units")
  BY <1>4 DEF Summed
<1>7. RateAtMost(a.rate, a.rate)
  BY <1>0, <1>2, <1>3, <1>4, <1>5, RatesOverOneDemand
<1>8. MetricsAccepted(a)
  BY <1>2, <1>4, <1>6, <1>7 DEF MetricsAccepted
<1>. QED  BY <1>0, <1>1, <1>2, <1>3, <1>4, <1>8 DEF a, sum

\* Over any rows the two sides meet one demand.
LEMMA OneDemand ==
  ASSUME NEW q, Scored(q), NEW rows \in SUBSET DOMAIN q.observations,
         NEW s \in Sides, NEW t \in Sides
  PROVE  SumOf(q.observations, rows, s, "demanded_units")
           = SumOf(q.observations, rows, t, "demanded_units")
<1>. DEFINE f(x) == [i \in rows |-> q.observations[i][x].amount["demanded_units"]]
<1>1. f(s) = f(t)
  BY DEF Scored, SameDemand, Sides
<1>. QED  BY <1>1, SumOfIs

\* An amount over all rows is that of the cohorts together.
LEMMA AmountByCohort ==
  ASSUME NEW q, Scored(q), NEW side \in Sides, NEW m \in Summed
  PROVE  LET rows == DOMAIN q.observations
             K == {CohortId(q.observations[i]) : i \in rows} IN
         /\ IsFiniteSet(K)
         /\ SumOf(q.observations, rows, side, m)
              = SumFunctionOnSet([k \in K |-> SumOf(q.observations, CohortRows(q, k), side, m)], K)
<1>. DEFINE o == q.observations
            rows == DOMAIN o
            K == {CohortId(o[i]) : i \in rows}
            f == [i \in rows |-> o[i][side].amount[m]]
            g == [i \in rows |-> CohortId(o[i])]
            part == [k \in K |-> SumFunctionOnSet(f, {i \in rows : g[i] = k})]
            sums == [k \in K |-> SumOf(o, CohortRows(q, k), side, m)]
<1>1. IsFiniteSet(rows) /\ \A i \in rows : f[i] \in Int
  BY DEF Scored, MetricsTyped, Amounts
<1>2. {g[i] : i \in rows} = K
  OBVIOUS
<1>3. IsFiniteSet(K)
  <2>1. IsFiniteSet({g[i] : i \in rows})
    BY <1>1, ImageFinite
  <2>. QED  BY <1>2, <2>1
<1>4. ASSUME NEW k \in K PROVE part[k] = sums[k]
  <2>. DEFINE C == CohortRows(q, k)
              h == [i \in C |-> o[i][side].amount[m]]
  <2>1. C = {i \in rows : g[i] = k} /\ C \in SUBSET rows
    BY DEF CohortRows
  <2>2. IsFiniteSet(C)
    BY <1>1, <2>1, FS_Subset
  <2>3. \A i \in C : f[i] = h[i] /\ f[i] \in Int
    BY <1>1, <2>1
  <2>. HIDE DEF C, h, f
  <2>4. SumFunctionOnSet(f, C) = SumFunctionOnSet(h, C)
    BY <2>2, <2>3, SumSame
  <2>5. SumOf(o, C, side, m) = SumFunctionOnSet(h, C)
    BY SumOfIs DEF h
  <2>. QED  BY <2>1, <2>4, <2>5 DEF C
<1>5. part = sums
  BY <1>4
<1>6. SumOf(o, rows, side, m) = SumFunctionOnSet(f, rows)
  BY SumOfIs
<1>. HIDE DEF f, g, rows
<1>7. SumFunctionOnSet(f, rows) = SumFunctionOnSet(part, K)
  <2>1. SumFunctionOnSet(f, rows)
          = SumFunctionOnSet([k \in {g[i] : i \in rows} |-> SumFunctionOnSet(f, {i \in rows : g[i] = k})],
                             {g[i] : i \in rows})
    BY <1>1, SumByGroup
  <2>. QED  BY <1>2, <2>1
<1>. QED  BY <1>3, <1>5, <1>6, <1>7 DEF rows

\* A request that its contract accepts is one a scorecard can be built on.
LEMMA AcceptedIsScored ==
  ASSUME NEW c, PackageTyped(c), SourceAccepted(c), RequestAccepted(Build(c))
  PROVE  /\ Scored(Build(c))
         /\ IsFiniteSet(DOMAIN Build(c).exclusions)
<1>. DEFINE q == Build(c)
            o == q.observations
<1>1. DOMAIN o \in SUBSET DOMAIN c.records /\ DOMAIN q.exclusions \in SUBSET DOMAIN c.records
  BY ObservedOf
<1>2. IsFiniteSet(DOMAIN o) /\ IsFiniteSet(DOMAIN q.exclusions)
  BY <1>1, FS_Subset DEF PackageTyped
<1>3. ASSUME NEW i \in DOMAIN o
      PROVE  /\ \A side \in Sides : /\ MetricsTyped(o[i][side])
                                    /\ MetricsAccepted(o[i][side])
                                    /\ o[i][side].decisions = 1
             /\ SameDemand(o[i])
  <2>. DEFINE r == c.records[i]
  <2>1. i \in DOMAIN c.records /\ r.kind = "matched" /\ o[i] = ObservationOf(r)
    BY ObservedOf
  <2>2. RecordTyped(r) /\ RecordAccepted(r)
    BY <2>1 DEF PackageTyped, SourceAccepted
  <2>3. \A side \in Sides : o[i][side] = r[side].metrics
    BY <2>1 DEF ObservationOf, Sides
  <2>4. MatchedObservationAccepted(o[i])
    BY DEF RequestAccepted
  <2>5. SameDemand(o[i]) /\ \A side \in Sides : o[i][side].decisions = 1
    BY <2>4 DEF MatchedObservationAccepted
  <2>. QED  BY <2>2, <2>3, <2>5 DEF RecordTyped, RecordAccepted
<1>4. ASSUME NEW i \in DOMAIN o, NEW j \in DOMAIN o, o[i].id = o[j].id
      PROVE  i = j
  <2>1. RowsDiffer(RequestRows(q))
    BY DEF RequestAccepted
  <2>2. /\ i \in DOMAIN RequestRows(q) /\ RequestRows(q)[i] = Decision(o[i])
        /\ j \in DOMAIN RequestRows(q) /\ RequestRows(q)[j] = Decision(o[j])
    BY DEF RequestRows
  <2>3. Decision(o[i]).id = Decision(o[j]).id
    BY <1>4 DEF Decision
  <2>. QED  BY <2>1, <2>2, <2>3 DEF RowsDiffer
<1>. QED  BY <1>2, <1>3, <1>4 DEF Scored

\* A policy that fills at least as much in every cohort does so over all of them: the
\* sides meet one demand, so that no mix of the cohorts can turn the comparison.
LEMMA NoReversal ==
  ASSUME NEW q, Scored(q), NEW s \in Sides, NEW t \in Sides,
         \A id \in {CohortId(q.observations[i]) : i \in DOMAIN q.observations} :
            RateAtMost(ResultOf(q, CohortRows(q, id))[s].rate,
                       ResultOf(q, CohortRows(q, id))[t].rate)
  PROVE  RateAtMost(ResultOf(q, DOMAIN q.observations)[s].rate,
                    ResultOf(q, DOMAIN q.observations)[t].rate)
<1>. DEFINE o == q.observations
            rows == DOMAIN o
            K == {CohortId(o[i]) : i \in rows}
            filled(x) == [k \in K |-> SumOf(o, CohortRows(q, k), x, "filled_units")]
<1>1. \A R : \A x \in Sides : ResultOf(q, R)[x] = Aggregate(o, R, x, q.currency)
  BY DEF ResultOf, Sides
<1>2. ASSUME NEW k \in K
      PROVE  /\ filled(s)[k] \in Int /\ filled(t)[k] \in Int
             /\ filled(s)[k] <= filled(t)[k]
  <2>. DEFINE R == CohortRows(q, k)
              sum(x, m) == SumOf(o, R, x, m)
              n == Cardinality(R)
  <2>1. PICK i \in rows : CohortId(o[i]) = k
    OBVIOUS
  <2>2. R \in SUBSET rows /\ i \in R /\ IsFiniteSet(R)
    BY <2>1, FS_Subset DEF CohortRows, Scored
  <2>3. n >= 1 /\ n \in Nat
    BY <2>2, SomeIsCounted, FS_CardinalityType
  <2>. HIDE DEF R
  <2>4. \A x \in Sides :
           /\ sum(x, "filled_units") \in Nat /\ sum(x, "demanded_units") \in Nat
           /\ sum(x, "filled_units") <= sum(x, "demanded_units")
           /\ Aggregate(o, R, x, q.currency).rate
                = FillRate(n, sum(x, "filled_units"), sum(x, "demanded_units"))
    BY <2>2, Aggregates DEF Summed
  <2>5. sum(s, "demanded_units") = sum(t, "demanded_units")
    BY <2>2, OneDemand
  <2>6. RateAtMost(Aggregate(o, R, s, q.currency).rate, Aggregate(o, R, t, q.currency).rate)
    BY <1>1 DEF R
  <2>. HIDE DEF sum, n
  <2>7. sum(s, "filled_units") <= sum(t, "filled_units")
    BY <2>3, <2>4, <2>5, <2>6, RatesOverOneDemand
  <2>8. filled(s)[k] = sum(s, "filled_units") /\ filled(t)[k] = sum(t, "filled_units")
    BY DEF sum, R
  <2>. QED  BY <2>4, <2>7, <2>8
<1>3. /\ IsFiniteSet(K)
      /\ SumOf(o, rows, s, "filled_units") = SumFunctionOnSet(filled(s), K)
      /\ SumOf(o, rows, t, "filled_units") = SumFunctionOnSet(filled(t), K)
  <2>1. "filled_units" \in Summed
    BY DEF Summed
  <2>. QED  BY <2>1, AmountByCohort
<1>4. SumFunctionOnSet(filled(s), K) <= SumFunctionOnSet(filled(t), K)
  <2>. DEFINE f == filled(s)  g == filled(t)
  <2>1. \A k \in K : f[k] \in Int /\ g[k] \in Int /\ f[k] <= g[k]
    BY <1>2
  <2>. HIDE DEF f, g, K
  <2>2. SumFunctionOnSet(f, K) <= SumFunctionOnSet(g, K)
    BY <1>3, <2>1, SumAtMost
  <2>. QED  BY <2>2 DEF f, g
<1>5. \A x \in Sides :
         /\ SumOf(o, rows, x, "filled_units") \in Nat /\ SumOf(o, rows, x, "demanded_units") \in Nat
         /\ SumOf(o, rows, x, "filled_units") <= SumOf(o, rows, x, "demanded_units")
         /\ Cardinality(rows) \in Nat
         /\ ResultOf(q, rows)[x].rate
              = FillRate(Cardinality(rows), SumOf(o, rows, x, "filled_units"),
                         SumOf(o, rows, x, "demanded_units"))
  BY <1>1, Aggregates DEF Summed
<1>6. SumOf(o, rows, s, "demanded_units") = SumOf(o, rows, t, "demanded_units")
  BY OneDemand
<1>. HIDE DEF filled
<1>. QED  BY <1>3, <1>4, <1>5, <1>6, RatesOverOneDemand

\* The result over any rows passes the validators of a result.
LEMMA ResultIsAccepted ==
  ASSUME NEW q, Scored(q), NEW rows \in SUBSET DOMAIN q.observations
  PROVE  ResultAccepted(ResultOf(q, rows), Cardinality(rows), q.currency)
<1>. DEFINE c == ResultOf(q, rows)
<1>1. \A side \in Sides : c[side] = Aggregate(q.observations, rows, side, q.currency)
  BY DEF ResultOf, Sides
<1>2. c.delta = Delta(c.current, c.challenger)
  BY DEF ResultOf
<1>3. \A side \in Sides : LET a == Aggregate(q.observations, rows, side, q.currency) IN
         MetricsAccepted(a) /\ a.currency = q.currency /\ a.decisions = Cardinality(rows)
  BY Aggregates
<1>. HIDE DEF c
<1>4. ResultAccepted(c, Cardinality(rows), q.currency)
  BY <1>1, <1>2, <1>3 DEF ResultAccepted
<1>. QED  BY <1>4 DEF c

\* The cohorts partition the observations and add up to the whole.
LEMMA CohortsAreAccepted ==
  ASSUME NEW q, Scored(q)
  PROVE  CohortsAccepted(ShadowScorecard(q))
<1>. DEFINE s == ShadowScorecard(q)
            o == q.observations
            rows == DOMAIN o
            K == {CohortId(o[i]) : i \in rows}
            R(k) == CohortRows(q, k)
<1>1. /\ DOMAIN s.cohorts = K /\ \A k \in K : s.cohorts[k] = ResultOf(q, R(k))
      /\ DOMAIN s.lineage = rows /\ s.currency = q.currency
      /\ \A i \in rows : /\ s.lineage[i].id = o[i].id /\ s.lineage[i].cohort = CohortId(o[i])
                         /\ s.lineage[i].manifest = o[i].outcome.manifest
      /\ s.all = ResultOf(q, rows) /\ s.count = Cardinality(rows)
  BY DEF ShadowScorecard, LineageRef
<1>2. \A k \in K : R(k) \in SUBSET rows /\ R(k) # {} /\ IsFiniteSet(R(k))
  BY FS_Subset DEF CohortRows, Scored
<1>3. \A T \in SUBSET rows : /\ ResultOf(q, T).count = Cardinality(T)
                             /\ ResultOf(q, T).ids = {o[i].id : i \in T}
                             /\ \A side \in Sides :
                                   /\ ResultOf(q, T)[side] = Aggregate(o, T, side, q.currency)
                                   /\ ResultOf(q, T)[side].manifest
                                        = {<<o[i].id, o[i].outcome.manifest>> : i \in T}
  <2>. TAKE T \in SUBSET rows
  <2>1. ResultOf(q, T).count = Cardinality(T) /\ ResultOf(q, T).ids = {o[i].id : i \in T}
    BY DEF ResultOf
  <2>2. \A side \in Sides : ResultOf(q, T)[side] = Aggregate(o, T, side, q.currency)
    BY DEF ResultOf, Sides
  <2>3. \A side \in Sides : Aggregate(o, T, side, q.currency).manifest
                              = {<<o[i].id, o[i].outcome.manifest>> : i \in T}
    BY DEF Aggregate, OutcomesOf
  <2>. QED  BY <2>1, <2>2, <2>3
<1>. HIDE DEF s
<1>4. ASSUME NEW k \in K
      PROVE  LET c == s.cohorts[k]
                 members == {i \in rows : s.lineage[i].id \in c.ids}
             IN  /\ ResultAccepted(c, c.count, s.currency)
                 /\ c.count >= 1 /\ Cardinality(c.ids) = c.count
                 /\ \A i \in members : s.lineage[i].cohort = k
                 /\ \A side \in Sides :
                       c[side].manifest = {<<s.lineage[i].id, s.lineage[i].manifest>> : i \in members}
  <2>. DEFINE c == s.cohorts[k]
              members == {i \in rows : s.lineage[i].id \in c.ids}
  <2>1. c = ResultOf(q, R(k)) /\ R(k) \in SUBSET rows /\ R(k) # {} /\ IsFiniteSet(R(k))
    BY <1>1, <1>2
  <2>2. c.count = Cardinality(R(k)) /\ c.ids = {o[i].id : i \in R(k)}
    BY <1>3, <2>1
  <2>3. \A i, j \in rows : o[i].id = o[j].id => i = j
    BY DEF Scored
  <2>4. members = R(k)
    BY <1>1, <2>1, <2>2, <2>3
  <2>5. ResultAccepted(c, c.count, s.currency)
    BY <1>1, <2>1, <2>2, ResultIsAccepted
  <2>6. c.count >= 1
    BY <2>1, <2>2, SomeIsCounted
  <2>7. Cardinality(c.ids) = c.count
    <3>. DEFINE f == [i \in R(k) |-> o[i].id]
    <3>1. c.ids = {f[i] : i \in R(k)} /\ \A i, j \in R(k) : f[i] = f[j] => i = j
      BY <2>1, <2>2, <2>3
    <3>. HIDE DEF f, R
    <3>2. Cardinality({f[i] : i \in R(k)}) = Cardinality(R(k))
      BY <2>1, <3>1, CardinalityOfDistinct
    <3>. QED  BY <2>2, <3>1, <3>2
  <2>8. \A i \in members : s.lineage[i].cohort = k
    BY <1>1, <2>1, <2>4 DEF CohortRows
  <2>9. \A side \in Sides :
           c[side].manifest = {<<s.lineage[i].id, s.lineage[i].manifest>> : i \in members}
    <3>. TAKE side \in Sides
    <3>1. c[side].manifest = {<<o[i].id, o[i].outcome.manifest>> : i \in R(k)}
      BY <1>3, <2>1
    <3>2. \A i \in R(k) : <<o[i].id, o[i].outcome.manifest>> = <<s.lineage[i].id, s.lineage[i].manifest>>
      BY <1>1, <2>1
    <3>. QED  BY <3>1, <3>2, <2>4
  <2>. QED  BY <2>5, <2>6, <2>7, <2>8, <2>9
<1>5. ASSUME NEW d \in K, NEW e \in K, d # e
      PROVE  s.cohorts[d].ids \cap s.cohorts[e].ids = {}
  <2>1. s.cohorts[d].ids = {o[i].id : i \in R(d)} /\ s.cohorts[e].ids = {o[i].id : i \in R(e)}
    BY <1>1, <1>2, <1>3
  <2>2. \A i, j \in rows : o[i].id = o[j].id => i = j
    BY DEF Scored
  <2>. QED  BY <1>5, <2>1, <2>2 DEF CohortRows
<1>6. UNION {s.cohorts[id].ids : id \in K} = {s.lineage[i].id : i \in rows}
  <2>1. \A k \in K : s.cohorts[k].ids = {o[i].id : i \in R(k)}
    BY <1>1, <1>2, <1>3
  <2>2. \A i \in rows : CohortId(o[i]) \in K /\ i \in R(CohortId(o[i]))
    BY DEF CohortRows
  <2>3. \A k \in K : R(k) \in SUBSET rows
    BY <1>2
  <2>4. {s.lineage[i].id : i \in rows} = {o[i].id : i \in rows}
    BY <1>1
  <2>. HIDE DEF K, R
  <2>5. UNION {s.cohorts[id].ids : id \in K} = {o[i].id : i \in rows}
    BY <2>1, <2>2, <2>3
  <2>. QED  BY <2>4, <2>5
<1>7. Total(K, LAMBDA id : s.cohorts[id].count) = s.count
  <2>. DEFINE g == [i \in rows |-> CohortId(o[i])]
              f == [k \in K |-> s.cohorts[k].count]
              h == [k \in {g[i] : i \in rows} |-> Cardinality({i \in rows : g[i] = k})]
  <2>1. IsFiniteSet(rows)
    BY DEF Scored
  <2>2. {g[i] : i \in rows} = K /\ \A k \in K : R(k) = {i \in rows : g[i] = k}
    BY DEF CohortRows
  <2>3. f = h
    <3>1. \A k \in K : s.cohorts[k].count = Cardinality(R(k))
      BY <1>1, <1>2, <1>3
    <3>. HIDE DEF K, R, g
    <3>2. f = [k \in K |-> Cardinality(R(k))]
      BY <3>1
    <3>3. h = [k \in K |-> Cardinality(R(k))]
      BY <2>2
    <3>. QED  BY <3>2, <3>3
  <2>. HIDE DEF g
  <2>4. Cardinality(rows) = SumFunctionOnSet(h, {g[i] : i \in rows})
    BY <2>1, CountByGroup
  <2>5. Cardinality(rows) = SumFunctionOnSet(f, K)
    BY <2>2, <2>3, <2>4
  <2>. QED  BY <1>1, <2>5 DEF Total, SumFunction
<1>8. ASSUME NEW side \in Sides, NEW m \in Amounts
      PROVE  Total(K, LAMBDA id : s.cohorts[id][side].amount[m]) = s.all[side].amount[m]
  <2>. DEFINE f(x) == [k \in K |-> s.cohorts[k][side].amount[x]]
              sum(T, x) == SumOf(o, T, side, x)
              D == "demanded_units"  F == "filled_units"  B == "backordered_units"
  <2>0. /\ \A k \in K : s.cohorts[k][side] = Aggregate(o, R(k), side, q.currency)
        /\ s.all[side] = Aggregate(o, rows, side, q.currency)
    BY <1>1, <1>2, <1>3
  <2>1. ASSUME NEW T \in SUBSET rows
        PROVE  /\ \A x \in Summed : /\ Aggregate(o, T, side, q.currency).amount[x] = sum(T, x)
                                    /\ sum(T, x) \in Nat
               /\ Aggregate(o, T, side, q.currency).amount[B] = sum(T, D) - sum(T, F)
    BY Aggregates
  <2>2. ASSUME NEW x \in Summed
        PROVE  SumFunctionOnSet(f(x), K) = sum(rows, x) /\ \A k \in K : f(x)[k] \in Int
    <3>1. f(x) = [k \in K |-> SumOf(o, CohortRows(q, k), side, x)]
      BY <1>2, <2>0, <2>1
    <3>2. sum(rows, x) = SumFunctionOnSet([k \in K |-> SumOf(o, CohortRows(q, k), side, x)], K)
      BY AmountByCohort
    <3>3. \A k \in K : f(x)[k] \in Int
      BY <1>2, <2>0, <2>1
    <3>. QED  BY <3>1, <3>2, <3>3
  <2>3. CASE m \in Summed
    BY <2>0, <2>1, <2>2, <2>3 DEF Total, SumFunction
  <2>4. CASE m = B
    <3>1. D \in Summed /\ F \in Summed
      BY DEF Summed
    <3>2. IsFiniteSet(K)
      BY <3>1, AmountByCohort
    <3>3. \A k \in K : f(D)[k] - f(F)[k] = f(B)[k]
      BY <1>2, <2>0, <2>1, <3>1
    <3>4. \A k \in K : f(B)[k] \in Int /\ f(F)[k] \in Int /\ f(D)[k] = f(B)[k] + f(F)[k]
      <4>. TAKE k \in K
      <4>1. f(D)[k] \in Int /\ f(F)[k] \in Int
        BY <2>2, <3>1
      <4>2. f(D)[k] - f(F)[k] = f(B)[k]
        BY <3>3
      <4>. DEFINE u == f(D)[k]  v == f(F)[k]  w == f(B)[k]
      <4>. HIDE DEF u, v, w
      <4>3. u \in Int /\ v \in Int /\ u - v = w => w \in Int /\ u = w + v
        OBVIOUS
      <4>. QED  BY <4>1, <4>2, <4>3 DEF u, v, w
    <3>5. SumFunctionOnSet(f(D), K) = sum(rows, D) /\ SumFunctionOnSet(f(F), K) = sum(rows, F)
      BY <2>2, <3>1
    <3>6. s.all[side].amount[B] = sum(rows, D) - sum(rows, F) /\ sum(rows, D) \in Nat /\ sum(rows, F) \in Nat
      BY <2>0, <2>1, <3>1
    <3>7. Total(K, LAMBDA id : s.cohorts[id][side].amount[B]) = SumFunctionOnSet(f(B), K)
      BY DEF Total, SumFunction
    <3>. DEFINE fb == f(B)  ff == f(F)  fd == f(D)
    <3>8. \A k \in K : fb[k] \in Int /\ ff[k] \in Int /\ fd[k] = fb[k] + ff[k]
      BY <3>4
    <3>. HIDE DEF f, K, sum, fb, ff, fd
    <3>9. SumFunctionOnSet(fd, K) = SumFunctionOnSet(fb, K) + SumFunctionOnSet(ff, K)
      BY <3>2, <3>8, SumPlus
    <3>10. SumFunctionOnSet(fb, K) \in Int
      BY <3>2, <3>8, SumType
    <3>11. SumFunctionOnSet(fb, K) = sum(rows, D) - sum(rows, F)
      BY <3>5, <3>6, <3>9, <3>10 DEF fb, ff, fd
    <3>. QED  BY <2>4, <3>6, <3>7, <3>11 DEF fb
  <2>. QED  BY <2>3, <2>4 DEF Amounts
<1>9. \A d, e \in DOMAIN s.cohorts : d # e => s.cohorts[d].ids \cap s.cohorts[e].ids = {}
  BY <1>1, <1>5
<1>. HIDE DEF K, R, rows, s
<1>10. CohortsAccepted(s)
  <2>1. /\ \A d, e \in DOMAIN s.cohorts : d # e => s.cohorts[d].ids \cap s.cohorts[e].ids = {}
        /\ UNION {s.cohorts[id].ids : id \in DOMAIN s.cohorts}
             = {s.lineage[i].id : i \in DOMAIN s.lineage}
        /\ Total(DOMAIN s.cohorts, LAMBDA id : s.cohorts[id].count) = s.count
    BY <1>1, <1>6, <1>7, <1>9
  <2>2. \A side \in Sides : \A m \in Amounts :
           Total(DOMAIN s.cohorts, LAMBDA id : s.cohorts[id][side].amount[m]) = s.all[side].amount[m]
    BY <1>1, <1>8
  <2>3. DOMAIN s.cohorts = K /\ DOMAIN s.lineage = rows
    BY <1>1
  <2>4. \A id \in DOMAIN s.cohorts :
           LET c == s.cohorts[id]
               members == {i \in DOMAIN s.lineage : s.lineage[i].id \in c.ids}
           IN  /\ ResultAccepted(c, c.count, s.currency)
               /\ c.count >= 1 /\ Cardinality(c.ids) = c.count
               /\ \A i \in members : s.lineage[i].cohort = id
               /\ \A side \in Sides :
                     c[side].manifest = {<<s.lineage[i].id, s.lineage[i].manifest>> : i \in members}
    BY <1>4, <2>3
  <2>. QED  BY <2>1, <2>2, <2>4 DEF CohortsAccepted
<1>. QED  BY <1>10 DEF s

\* Every decision of the universe is scored or excluded, and once.
LEMMA LedgerIsAccepted ==
  ASSUME NEW c, RequestAccepted(Build(c)), IsFiniteSet(DOMAIN Build(c).exclusions), Scored(Build(c))
  PROVE  LedgerAccepted(ShadowScorecard(Build(c)))
<1>. DEFINE q == Build(c)
            s == ShadowScorecard(q)
            o == q.observations
            x == q.exclusions
<1>1. /\ DOMAIN s.lineage = DOMAIN o /\ \A i \in DOMAIN o : s.lineage[i] = LineageRef(o[i])
      /\ s.count = Cardinality(DOMAIN o) /\ s.total = q.expected
      /\ s.universe = q.universe /\ s.exclusions = x /\ s.tenant = q.tenant
      /\ s.excluded = Cardinality(DOMAIN x)
      /\ s.reasons = [r \in {x[i].reason : i \in DOMAIN x} |->
                        Cardinality({i \in DOMAIN x : x[i].reason = r})]
  BY DEF ShadowScorecard
<1>2. /\ DOMAIN o \cap DOMAIN x = {}
      /\ \A i \in DOMAIN q.universe : \E r : q.universe[i] = Decision(r)
  BY ObservedOf
<1>. HIDE DEF q, s
<1>3. /\ \A i \in DOMAIN o : MatchedObservationAccepted(o[i])
      /\ Cardinality(DOMAIN q.universe) = q.expected
      /\ Cardinality(DOMAIN o) + Cardinality(DOMAIN x) = q.expected
      /\ RowsDiffer(RequestRows(q))
      /\ {RequestRows(q)[i] : i \in DOMAIN RequestRows(q)} = {q.universe[i] : i \in DOMAIN q.universe}
      /\ \A i \in DOMAIN q.universe : q.universe[i].tenant = q.tenant
  BY DEF RequestAccepted, q
<1>4. /\ DOMAIN RequestRows(q) = DOMAIN o \cup DOMAIN x
      /\ \A i \in DOMAIN o : RequestRows(q)[i] = Decision(o[i])
      /\ \A i \in DOMAIN x : RequestRows(q)[i] = Decision(x[i])
  BY <1>2 DEF RequestRows
<1>5. \A r : Decision(Decision(r)) = Decision(r) /\ Decision(r).id = r.id
             /\ Decision(r).tenant = r.tenant
  BY DEF Decision
<1>r. \A i \in DOMAIN o :
         /\ s.lineage[i].id = o[i].id /\ s.lineage[i].key = o[i].key
         /\ s.lineage[i].asof = o[i].asof /\ s.lineage[i].end = o[i].end
         /\ s.lineage[i].keys = {o[i].lineage[side].key : side \in Sides}
  <2>. TAKE i \in DOMAIN o
  <2>. DEFINE y == o[i]
  <2>. HIDE DEF y
  <2>1. /\ LineageRef(y).id = y.id /\ LineageRef(y).key = y.key
        /\ LineageRef(y).asof = y.asof /\ LineageRef(y).end = y.end
        /\ LineageRef(y).keys = {y.lineage[side].key : side \in Sides}
    BY DEF LineageRef
  <2>. QED  BY <1>1, <2>1 DEF y
<1>6. \A i \in DOMAIN s.lineage : /\ s.lineage[i].asof < s.lineage[i].end
                                  /\ s.lineage[i].keys = {s.lineage[i].key}
  <2>. TAKE i \in DOMAIN s.lineage
  <2>1. i \in DOMAIN o
    BY <1>1
  <2>2. o[i].asof < o[i].end /\ \A side \in Sides : o[i].lineage[side].key = o[i].key
    BY <1>3, <2>1 DEF MatchedObservationAccepted
  <2>3. "current" \in Sides
    BY DEF Sides
  <2>. QED  BY <1>r, <2>1, <2>2, <2>3
<1>7. SumFunction(s.reasons) = s.excluded
  <2>. DEFINE S == DOMAIN x
              g == [i \in S |-> x[i].reason]
              K == {g[i] : i \in S}
              h == [r \in K |-> Cardinality({i \in S : g[i] = r})]
  <2>1. s.reasons = h /\ DOMAIN h = K
    <3>1. K = {x[i].reason : i \in DOMAIN x}
      OBVIOUS
    <3>2. \A r \in K : {i \in S : g[i] = r} = {i \in DOMAIN x : x[i].reason = r}
      OBVIOUS
    <3>. HIDE DEF g, S, K
    <3>3. h = [r \in {x[i].reason : i \in DOMAIN x} |-> Cardinality({i \in DOMAIN x : x[i].reason = r})]
      BY <3>1, <3>2
    <3>. QED  BY <1>1, <3>3
  <2>2. IsFiniteSet(S)
    BY DEF q
  <2>. HIDE DEF g, S
  <2>3. Cardinality(S) = SumFunctionOnSet(h, K)
    BY <2>2, CountByGroup
  <2>4. SumFunction(s.reasons) = SumFunctionOnSet(h, K)
    BY <2>1 DEF SumFunction
  <2>. QED  BY <1>1, <2>3, <2>4 DEF S
<1>8. \A i, j \in DOMAIN s.lineage : s.lineage[i].id = s.lineage[j].id => i = j
  <2>. TAKE i, j \in DOMAIN s.lineage
  <2>. HAVE s.lineage[i].id = s.lineage[j].id
  <2>1. i \in DOMAIN o /\ j \in DOMAIN o /\ o[i].id = o[j].id
    BY <1>1, <1>r
  <2>. QED  BY <2>1 DEF Scored, q
<1>9. \A i, j \in DOMAIN s.exclusions : Decision(s.exclusions[i]) = Decision(s.exclusions[j]) => i = j
  BY <1>1, <1>3, <1>4 DEF RowsDiffer
<1>10. \A i \in DOMAIN o : o[i].tenant = q.tenant
  <2>. TAKE i \in DOMAIN o
  <2>1. PICK j \in DOMAIN q.universe : Decision(o[i]) = q.universe[j]
    BY <1>3, <1>4
  <2>2. Decision(o[i]).tenant = o[i].tenant
    BY DEF Decision
  <2>. QED  BY <1>3, <2>1, <2>2
<1>11. \A i \in DOMAIN o :
          [id |-> s.lineage[i].id, tenant |-> s.tenant, key |-> s.lineage[i].key,
           asof |-> s.lineage[i].asof, end |-> s.lineage[i].end] = Decision(o[i])
  BY <1>1, <1>r, <1>10 DEF Decision
<1>12. {Decision(o[i]) : i \in DOMAIN o} \cup {Decision(x[i]) : i \in DOMAIN x}
         = {q.universe[i] : i \in DOMAIN q.universe}
  <2>. DEFINE rows == RequestRows(q)
  <2>. HIDE DEF rows
  <2>1. /\ DOMAIN rows = DOMAIN o \cup DOMAIN x
        /\ \A i \in DOMAIN o : rows[i] = Decision(o[i])
        /\ \A i \in DOMAIN x : rows[i] = Decision(x[i])
    BY <1>4 DEF rows
  <2>2. {rows[i] : i \in DOMAIN o} = {Decision(o[i]) : i \in DOMAIN o}
    BY <2>1
  <2>3. {rows[i] : i \in DOMAIN x} = {Decision(x[i]) : i \in DOMAIN x}
    BY <2>1
  <2>4. {rows[i] : i \in DOMAIN rows} = {rows[i] : i \in DOMAIN o} \cup {rows[i] : i \in DOMAIN x}
    BY <2>1
  <2>. QED  BY <1>3, <2>2, <2>3, <2>4 DEF rows
<1>13. {[id |-> s.lineage[i].id, tenant |-> s.tenant, key |-> s.lineage[i].key,
         asof |-> s.lineage[i].asof, end |-> s.lineage[i].end] : i \in DOMAIN s.lineage}
          \cup {Decision(s.exclusions[i]) : i \in DOMAIN s.exclusions}
       = {Decision(s.universe[i]) : i \in DOMAIN s.universe}
  <2>1. {Decision(s.universe[i]) : i \in DOMAIN s.universe} = {q.universe[i] : i \in DOMAIN q.universe}
    BY <1>1, <1>2, <1>5
  <2>2. {[id |-> s.lineage[i].id, tenant |-> s.tenant, key |-> s.lineage[i].key,
          asof |-> s.lineage[i].asof, end |-> s.lineage[i].end] : i \in DOMAIN s.lineage}
        = {Decision(o[i]) : i \in DOMAIN o}
    <3>. DEFINE row(i) == [id |-> s.lineage[i].id, tenant |-> s.tenant, key |-> s.lineage[i].key,
                           asof |-> s.lineage[i].asof, end |-> s.lineage[i].end]
    <3>1. \A i \in DOMAIN o : row(i) = Decision(o[i])
      BY <1>11
    <3>. HIDE DEF row
    <3>2. {row(i) : i \in DOMAIN s.lineage} = {Decision(o[i]) : i \in DOMAIN o}
      BY <1>1, <3>1
    <3>. QED  BY <3>2 DEF row
  <2>. DEFINE told == {[id |-> s.lineage[i].id, tenant |-> s.tenant, key |-> s.lineage[i].key,
                        asof |-> s.lineage[i].asof, end |-> s.lineage[i].end] : i \in DOMAIN s.lineage}
  <2>3. {Decision(s.exclusions[i]) : i \in DOMAIN s.exclusions} = {Decision(x[i]) : i \in DOMAIN x}
    BY <1>1
  <2>. HIDE DEF told
  <2>. SUFFICES told \cup {Decision(s.exclusions[i]) : i \in DOMAIN s.exclusions}
                  = {Decision(s.universe[i]) : i \in DOMAIN s.universe}
    BY DEF told
  <2>4. told = {Decision(o[i]) : i \in DOMAIN o}
    BY <2>2 DEF told
  <2>. QED  BY <1>12, <2>1, <2>3, <2>4
<1>14. \A r \in DOMAIN s.reasons :
          s.reasons[r] = Cardinality({i \in DOMAIN s.exclusions : s.exclusions[i].reason = r})
  BY <1>1
<1>15. LedgerAccepted(s)
  BY <1>1, <1>3, <1>6, <1>7, <1>8, <1>9, <1>13, <1>14 DEF LedgerAccepted
<1>. QED  BY <1>15 DEF s, q

\* A scorecard built on an accepted request passes all its validators.
LEMMA ScorecardIsAccepted ==
  ASSUME NEW c, PackageTyped(c), SourceAccepted(c), RequestAccepted(Build(c))
  PROVE  ScorecardAccepted(ShadowScorecard(Build(c)))
<1>. DEFINE q == Build(c)
            s == ShadowScorecard(q)
            rows == DOMAIN q.observations
<1>1. Scored(q) /\ IsFiniteSet(DOMAIN q.exclusions)
  BY AcceptedIsScored
<1>2. LedgerAccepted(s)
  BY <1>1, LedgerIsAccepted
<1>3. CohortsAccepted(s)
  BY <1>1, CohortsAreAccepted
<1>4. /\ s.all = ResultOf(q, rows) /\ s.count = Cardinality(rows) /\ s.currency = q.currency
      /\ DOMAIN s.lineage = rows
      /\ \A i \in rows : s.lineage[i].id = q.observations[i].id
                         /\ s.lineage[i].manifest = q.observations[i].outcome.manifest
      /\ s.snapshots = {s.lineage[i].snapshot : i \in rows}
      /\ s.fingerprints = UNION {s.lineage[i].fingerprints : i \in rows}
  BY DEF ShadowScorecard, LineageRef
<1>5. ResultAccepted(s.all, s.count, s.currency)
  BY <1>1, <1>4, ResultIsAccepted
<1>6. ASSUME NEW side \in Sides
      PROVE  s.all[side].manifest = {<<s.lineage[i].id, s.lineage[i].manifest>> : i \in rows}
  <2>1. s.all[side] = Aggregate(q.observations, rows, side, q.currency)
    BY <1>4 DEF ResultOf, Sides
  <2>2. s.all[side].manifest
          = {<<q.observations[i].id, q.observations[i].outcome.manifest>> : i \in rows}
    BY <2>1 DEF Aggregate, OutcomesOf
  <2>. HIDE DEF s
  <2>. QED  BY <1>4, <2>2
<1>. HIDE DEF s
<1>7. ScorecardAccepted(s)
  BY <1>2, <1>3, <1>4, <1>5, <1>6 DEF ScorecardAccepted
<1>. QED  BY <1>7 DEF s

\* build_shadow_scorecard (replay/scorecard.py) never builds a scorecard that its own
\* contract refuses, and no ranking of the two policies that holds in every cohort is
\* reversed over all.
THEOREM Scorecards ==
    AlgorithmSpec => []ScorecardHolds
<1>1. Typed(case) /\ Answers => ScorecardHolds
  <2>. SUFFICES ASSUME Typed(case), Answers, Computed("replay")
                PROVE  /\ result.refused # "scorecard"
                       /\ result.refused = "" =>
                          \A s, t \in Sides :
                             (\A id \in DOMAIN result.card.cohorts :
                                 RateAtMost(result.card.cohorts[id][s].rate,
                                            result.card.cohorts[id][t].rate))
                             => RateAtMost(result.card.all[s].rate, result.card.all[t].rate)
    BY DEF ScorecardHolds
  <2>. DEFINE q == Build(case)
              card == ShadowScorecard(q)
  <2>1. PackageTyped(case) /\ result = Evaluate(case)
    BY DEF Typed, Answers, Computed
  <2>2. result.refused # "scorecard"
    BY <2>1, ScorecardIsAccepted DEF Evaluate
  <2>3. ASSUME result.refused = ""
        PROVE  /\ result.card = card
               /\ SourceAccepted(case) /\ RequestAccepted(q)
    BY <2>1, <2>3 DEF Evaluate
  <2>4. /\ DOMAIN card.cohorts = {CohortId(q.observations[i]) : i \in DOMAIN q.observations}
        /\ \A id \in DOMAIN card.cohorts : card.cohorts[id] = ResultOf(q, CohortRows(q, id))
        /\ card.all = ResultOf(q, DOMAIN q.observations)
    BY DEF ShadowScorecard
  <2>. HIDE DEF card
  <2>5. ASSUME result.refused = "", NEW s \in Sides, NEW t \in Sides,
               \A id \in DOMAIN card.cohorts :
                  RateAtMost(card.cohorts[id][s].rate, card.cohorts[id][t].rate)
        PROVE  RateAtMost(card.all[s].rate, card.all[t].rate)
    <3>1. Scored(q)
      BY <2>1, <2>3, <2>5, AcceptedIsScored
    <3>. QED  BY <2>4, <2>5, <3>1, NoReversal
  <2>. QED  BY <2>2, <2>3, <2>5
<1>. QED  BY <1>1, AnswersAreComputed, PTL

-----------------------------------------------------------------------------
(* The options of a portfolio, and what pruning them keeps.                 *)

\* The dimensions two options are compared in.
LEMMA Dimensions ==
  ASSUME NEW c, NumbersTyped(c)
  PROVE  LET d == OptimizerDimensions(c) IN
         /\ DOMAIN d = 1..13
         /\ \A n \in 1..13 : d[n] \in Int
         /\ d[1] = c.cash /\ d[6] = c.holding /\ d[7] = c.ordering /\ d[9] = c.shortage
         /\ d[11] = c.aog /\ d[12] = -Service(c)
         /\ Service(c) \in Int
<1>1. Service(c) \in Int
  BY DEF Service, Most, NumbersTyped
<1>2. /\ c.cash \in Int /\ c.purchase \in Int /\ c.transfer \in Int /\ c.outbound \in Int
      /\ c.moved \in Int /\ c.holding \in Int /\ c.ordering \in Int /\ c.shortageCost \in Int
      /\ c.shortage \in Int /\ c.excess \in Int /\ c.aog \in Int /\ c.confidence \in Int
  BY DEF NumbersTyped
<1>. DEFINE d == OptimizerDimensions(c)  s == Service(c)
<1>3. d = <<c.cash, c.purchase, c.transfer, c.outbound, c.moved, c.holding, c.ordering,
            c.shortageCost, c.shortage, c.excess, c.aog, -s, -c.confidence>>
  BY DEF OptimizerDimensions
<1>. HIDE DEF s, d
<1>4. /\ DOMAIN d = 1..13
      /\ d[1] = c.cash /\ d[6] = c.holding /\ d[7] = c.ordering /\ d[9] = c.shortage
      /\ d[11] = c.aog /\ d[12] = -s
      /\ d[2] = c.purchase /\ d[3] = c.transfer /\ d[4] = c.outbound /\ d[5] = c.moved
      /\ d[8] = c.shortageCost /\ d[10] = c.excess /\ d[13] = -c.confidence
  BY <1>3
<1>5. -s \in Int /\ -c.confidence \in Int
  BY <1>1, <1>2 DEF s
<1>6. ASSUME NEW n \in 1..13 PROVE d[n] \in Int
  <2>1. n \in {1, 2, 3, 4, 5, 6, 7, 8, 9, 10, 11, 12, 13}
    OBVIOUS
  <2>. QED  BY <1>2, <1>4, <1>5, <2>1
<1>. QED  BY <1>1, <1>4, <1>6 DEF d, s

\* To be dominated is a strict order.
LEMMA DominanceIsStrict ==
  ASSUME NEW x, NEW y, NEW z, NumbersTyped(x), NumbersTyped(y), NumbersTyped(z)
  PROVE  /\ ~Dominates(x, x)
         /\ Dominates(x, y) /\ Dominates(y, z) => Dominates(x, z)
<1>. DEFINE l == OptimizerDimensions(x)  m == OptimizerDimensions(y)  n == OptimizerDimensions(z)
<1>1. /\ DOMAIN l = 1..13 /\ DOMAIN m = 1..13 /\ DOMAIN n = 1..13
      /\ \A i \in 1..13 : l[i] \in Int /\ m[i] \in Int /\ n[i] \in Int
  BY Dimensions
<1>. HIDE DEF l, m, n
<1>2. ~Dominates(x, x)
  BY <1>1 DEF Dominates, l
<1>3. ASSUME Dominates(x, y), Dominates(y, z) PROVE Dominates(x, z)
  <2>1. /\ \A i \in 1..13 : l[i] <= m[i] /\ m[i] <= n[i]
        /\ x.feasible /\ z.feasible
    BY <1>1, <1>3 DEF Dominates, l, m, n
  <2>2. PICK i \in 1..13 : l[i] < m[i]
    BY <1>1, <1>3 DEF Dominates, l, m
  <2>3. /\ \A j \in 1..13 : l[j] <= n[j]
        /\ l[i] < n[i]
    BY <1>1, <2>1, <2>2
  <2>. QED  BY <1>1, <2>1, <2>3 DEF Dominates, l, n
<1>. QED  BY <1>2, <1>3

\* What an option costs and what it is worth are whole numbers.
LEMMA CashTyped ==
  ASSUME NEW menu, MenuTyped(menu), NEW i \in DOMAIN menu.options
  PROVE  Cash(menu, i) \in Int /\ ObjectiveOf(menu, i) \in Int
<1>. DEFINE c == menu.options[i]  b == menu.options[Baseline(menu)]
            w == CriticalityWeights[menu.tier]
<1>1. NumbersTyped(c)
  BY DEF MenuTyped, OptionTyped
<1>2. NumbersTyped(b)
  <2>1. \E k \in DOMAIN menu.options : IsNoChange(menu.options[k])
    BY DEF MenuTyped
  <2>2. Baseline(menu) \in DOMAIN menu.options
    BY <2>1 DEF Baseline
  <2>. QED  BY <2>2 DEF MenuTyped, OptionTyped
<1>3. w \in {1, 2, 3, 5}
  <2>1. menu.tier \in {1, 2, 3, 4, 5}
    BY DEF MenuTyped
  <2>2. /\ CriticalityWeights[1] = 5 /\ CriticalityWeights[2] = 3 /\ CriticalityWeights[3] = 2
        /\ CriticalityWeights[4] = 1 /\ CriticalityWeights[5] = 1
    BY DEF CriticalityWeights
  <2>. QED  BY <2>1, <2>2
<1>4. /\ c.cash \in Int /\ c.holding \in Int /\ c.ordering \in Int /\ c.shortage \in Int /\ c.aog \in Int
      /\ b.holding \in Int /\ b.ordering \in Int /\ b.shortage \in Int /\ b.aog \in Int
  BY <1>1, <1>2 DEF NumbersTyped
<1>. DEFINE u == 100 * (b.shortage - c.shortage) + 2500 * (b.aog - c.aog)
<1>5. u \in Int
  BY <1>4
<1>6. ObjectiveOf(menu, i) = w * u - (c.holding - b.holding) - (c.ordering - b.ordering)
  BY DEF ObjectiveOf
<1>. HIDE DEF u, w
<1>7. w * u \in Int
  BY <1>3, <1>5
<1>. HIDE DEF b, c
<1>8. ObjectiveOf(menu, i) \in Int
  BY <1>4, <1>6, <1>7
<1>. QED  BY <1>4, <1>8 DEF Cash, c

\* An option that dominates another costs no more, is worth no less and meets every
\* floor the other meets.
LEMMA BetterOption ==
  ASSUME NEW menu, MenuTyped(menu), NEW i \in DOMAIN menu.options, NEW j \in DOMAIN menu.options,
         Dominates(menu.options[j], menu.options[i])
  PROVE  /\ Cash(menu, j) <= Cash(menu, i)
         /\ ObjectiveOf(menu, i) <= ObjectiveOf(menu, j)
         /\ Unsatisfied(menu, i) = {} => Unsatisfied(menu, j) = {}
<1>. DEFINE c == menu.options[i]  d == menu.options[j]  b == menu.options[Baseline(menu)]
            w == CriticalityWeights[menu.tier]
<1>0. NumbersTyped(c) /\ NumbersTyped(d) /\ c.demand = d.demand
  BY DEF MenuTyped, OptionTyped
<1>1. /\ d.cash <= c.cash /\ d.holding <= c.holding /\ d.ordering <= c.ordering
      /\ d.shortage <= c.shortage /\ d.aog <= c.aog /\ Service(c) <= Service(d)
      /\ Service(c) \in Int /\ Service(d) \in Int
  <2>. DEFINE l == OptimizerDimensions(d)  r == OptimizerDimensions(c)
  <2>1. /\ DOMAIN l = 1..13
        /\ \A n \in 1..13 : l[n] \in Int
        /\ l[1] = d.cash /\ l[6] = d.holding /\ l[7] = d.ordering /\ l[9] = d.shortage
        /\ l[11] = d.aog /\ l[12] = -Service(d) /\ Service(d) \in Int
    BY <1>0, Dimensions
  <2>2. /\ r[1] = c.cash /\ r[6] = c.holding /\ r[7] = c.ordering /\ r[9] = c.shortage
        /\ r[11] = c.aog /\ r[12] = -Service(c) /\ Service(c) \in Int
    BY <1>0, Dimensions
  <2>3. \A n \in DOMAIN l : l[n] <= r[n]
    BY DEF Dominates
  <2>. HIDE DEF l, r
  <2>. QED  BY <2>1, <2>2, <2>3
<1>2. /\ c.cash \in Int /\ d.cash \in Int /\ c.holding \in Int /\ d.holding \in Int
      /\ c.ordering \in Int /\ d.ordering \in Int /\ c.shortage \in Int /\ d.shortage \in Int
      /\ c.aog \in Int /\ d.aog \in Int /\ c.demand \in Int
  BY <1>0 DEF NumbersTyped
<1>3. b.shortage \in Int /\ b.aog \in Int /\ b.holding \in Int /\ b.ordering \in Int
  <2>1. \E k \in DOMAIN menu.options : IsNoChange(menu.options[k])
    BY DEF MenuTyped
  <2>2. Baseline(menu) \in DOMAIN menu.options
    BY <2>1 DEF Baseline
  <2>3. NumbersTyped(b)
    BY <2>2 DEF MenuTyped, OptionTyped
  <2>. QED  BY <2>3 DEF NumbersTyped
<1>4. w \in {1, 2, 3, 5}
  <2>1. menu.tier \in {1, 2, 3, 4, 5}
    BY DEF MenuTyped
  <2>2. /\ CriticalityWeights[1] = 5 /\ CriticalityWeights[2] = 3 /\ CriticalityWeights[3] = 2
        /\ CriticalityWeights[4] = 1 /\ CriticalityWeights[5] = 1
    BY DEF CriticalityWeights
  <2>. QED  BY <2>1, <2>2
<1>5. Unsatisfied(menu, i) = {} => Unsatisfied(menu, j) = {}
  <2>. SUFFICES ASSUME NEW f \in menu.floors, SatisfiedBy(f, c) PROVE SatisfiedBy(f, d)
    <3>1. Unsatisfied(menu, i) = {} => \A f \in menu.floors : SatisfiedBy(f, c)
      BY DEF Unsatisfied
    <3>2. (\A f \in menu.floors : SatisfiedBy(f, d)) => Unsatisfied(menu, j) = {}
      BY DEF Unsatisfied
    <3>. HIDE DEF c, d
    <3>. QED  BY <3>1, <3>2
  <2>1. f.service \in Int /\ f.shortage \in Int /\ f.aog \in Int
    BY DEF MenuTyped
  <2>. DEFINE s == Service(c)  t == Service(d)  n == f.service * c.demand
  <2>2. n \in Int
    BY <1>2, <2>1
  <2>3. f.service # None => c.demand = 0 \/ 100 * s >= n
    BY DEF SatisfiedBy
  <2>. HIDE DEF s, t, n
  <2>4. f.service # None => d.demand = 0 \/ 100 * t >= n
    BY <1>0, <1>1, <2>2, <2>3 DEF s, t
  <2>5. /\ f.shortage # None => d.shortage <= f.shortage
        /\ f.aog # None => d.aog <= f.aog
    BY <1>1, <1>2, <2>1 DEF SatisfiedBy
  <2>. QED  BY <1>0, <2>4, <2>5 DEF SatisfiedBy, t, n
<1>6. ObjectiveOf(menu, i) <= ObjectiveOf(menu, j)
  <2>. DEFINE u == 100 * (b.shortage - c.shortage) + 2500 * (b.aog - c.aog)
              v == 100 * (b.shortage - d.shortage) + 2500 * (b.aog - d.aog)
  <2>1. u \in Int /\ v \in Int /\ u <= v
    BY <1>1, <1>2, <1>3
  <2>2. /\ ObjectiveOf(menu, i) = w * u - (c.holding - b.holding) - (c.ordering - b.ordering)
        /\ ObjectiveOf(menu, j) = w * v - (d.holding - b.holding) - (d.ordering - b.ordering)
    BY DEF ObjectiveOf
  <2>. HIDE DEF u, v, w
  <2>3. w * u <= w * v /\ w * u \in Int /\ w * v \in Int
    BY <1>4, <2>1
  <2>. HIDE DEF b, c, d
  <2>. QED  BY <1>1, <1>2, <1>3, <2>2, <2>3
<1>. QED  BY <1>1, <1>5, <1>6 DEF Cash

\* For every option that is feasible and meets the floors there is an eligible one,
\* on the frontier, that costs no more and is worth no less: a maximal one of those
\* that dominate it, which pruning keeps.
LEMMA EligibleIsAsGood ==
  ASSUME NEW menu, MenuTyped(menu), NEW i \in DOMAIN menu.options, menu.options[i].feasible,
         Unsatisfied(menu, i) = {}
  PROVE  \E j \in Eligible(menu) : Cash(menu, j) <= Cash(menu, i)
                                   /\ ObjectiveOf(menu, i) <= ObjectiveOf(menu, j)
<1>. DEFINE O == menu.options
            c == O[i]
            S == {j \in DOMAIN O : O[j].feasible /\ (O[j] = c \/ Dominates(O[j], c))}
            R == {p \in S \X S : Dominates(O[p[2]], O[p[1]])}
<1>1. \A j \in DOMAIN O : OptionTyped(O[j]) /\ NumbersTyped(O[j])
  BY DEF MenuTyped, OptionTyped
<1>2. IsFiniteSet(S) /\ S # {} /\ S \subseteq DOMAIN O
  <2>1. i \in S
    OBVIOUS
  <2>2. IsFiniteSet(DOMAIN O) /\ S \subseteq DOMAIN O
    BY DEF MenuTyped
  <2>. QED  BY <2>1, <2>2, FS_Subset
<1>3. PICK m \in S : \A x \in S : <<m, x>> \notin R
  <2>1. \A x, y, z \in S : <<x, y>> \in R /\ <<y, z>> \in R => <<x, z>> \in R
    <3>. SUFFICES ASSUME NEW x \in S, NEW y \in S, NEW z \in S,
                         Dominates(O[y], O[x]), Dominates(O[z], O[y])
                  PROVE  Dominates(O[z], O[x])
      OBVIOUS
    <3>1. x \in DOMAIN O /\ y \in DOMAIN O /\ z \in DOMAIN O
      BY <1>2
    <3>. HIDE DEF S, R, O
    <3>. QED  BY <1>1, <3>1, DominanceIsStrict
  <2>2. \A x \in S : <<x, x>> \notin R
    <3>. SUFFICES ASSUME NEW x \in S, Dominates(O[x], O[x]) PROVE FALSE
      OBVIOUS
    <3>1. x \in DOMAIN O
      BY <1>2
    <3>. HIDE DEF S, R, O
    <3>. QED  BY <1>1, <3>1, DominanceIsStrict
  <2>. HIDE DEF S, R
  <2>. QED  BY <1>2, <2>1, <2>2, FiniteHasMaximal
<1>4. m \in DOMAIN O /\ O[m].feasible /\ (O[m] = c \/ Dominates(O[m], c))
  OBVIOUS
<1>5. m \in OnFrontier(menu)
  <2>. DEFINE all == {O[x] : x \in DOMAIN O}
  <2>1. \A other \in all : ~Dominates(other, O[m])
    <3>. SUFFICES ASSUME NEW x \in DOMAIN O, Dominates(O[x], O[m]) PROVE FALSE
      OBVIOUS
    <3>1. O[x].feasible
      BY DEF Dominates
    <3>2. Dominates(O[x], c)
      <4>. HIDE DEF O, c
      <4>1. c = O[i] /\ i \in DOMAIN O
        BY DEF c, O
      <4>. QED  BY <1>1, <1>4, <4>1, DominanceIsStrict
    <3>3. x \in S
      BY <3>1, <3>2
    <3>. QED  BY <1>3, <3>3
  <2>2. O[m] \in PruneDominated(all)
    <3>1. O[m] \in all
      BY <1>4
    <3>. HIDE DEF all, O
    <3>. QED  BY <2>1, <3>1 DEF PruneDominated
  <2>. QED  BY <1>4, <2>2 DEF OnFrontier
<1>6. /\ Unsatisfied(menu, m) = {} /\ Cash(menu, m) <= Cash(menu, i)
      /\ ObjectiveOf(menu, i) <= ObjectiveOf(menu, m)
  <2>1. CASE O[m] = c
    <3>1. Cash(menu, i) \in Int /\ ObjectiveOf(menu, i) \in Int
      BY CashTyped
    <3>2. Unsatisfied(menu, m) = Unsatisfied(menu, i) /\ Cash(menu, m) = Cash(menu, i)
          /\ ObjectiveOf(menu, m) = ObjectiveOf(menu, i)
      BY <2>1 DEF Unsatisfied, Cash, ObjectiveOf
    <3>. QED  BY <3>1, <3>2
  <2>2. CASE Dominates(O[m], c)
    BY <1>4, <2>2, BetterOption
  <2>. QED  BY <1>4, <2>1, <2>2
<1>7. O[m].hard = {}
  BY <1>1, <1>4 DEF OptionTyped
<1>8. m \in Eligible(menu)
  BY <1>4, <1>5, <1>6, <1>7 DEF Eligible
<1>. QED  BY <1>6, <1>8

\* The eligible options are some of the options that are feasible and meet the floors.
LEMMA EligibleIs ==
  ASSUME NEW menu, MenuTyped(menu)
  PROVE  /\ IsFiniteSet(Eligible(menu)) /\ Eligible(menu) \subseteq DOMAIN menu.options
         /\ \A i \in Eligible(menu) : menu.options[i].feasible /\ Unsatisfied(menu, i) = {}
<1>1. IsFiniteSet(DOMAIN menu.options)
  BY DEF MenuTyped
<1>2. Eligible(menu) \subseteq DOMAIN menu.options
  BY DEF Eligible, OnFrontier
<1>3. IsFiniteSet(Eligible(menu))
  BY <1>1, <1>2, FS_Subset
<1>4. ASSUME NEW i \in Eligible(menu)
      PROVE  menu.options[i].feasible /\ Unsatisfied(menu, i) = {}
  BY <1>4 DEF Eligible
<1>. QED  BY <1>2, <1>3, <1>4

\* The least cash of a menu is that of an eligible option, and of none more.
LEMMA LeastCashIs ==
  ASSUME NEW menu, MenuTyped(menu), Eligible(menu) # {}
  PROVE  /\ LeastCash(menu) \in Int
         /\ \E i \in Eligible(menu) : Cash(menu, i) = LeastCash(menu)
         /\ \A i \in Eligible(menu) : LeastCash(menu) <= Cash(menu, i)
<1>. DEFINE S == Eligible(menu)  f == [i \in S |-> Cash(menu, i)]
            C == {Cash(menu, i) : i \in S}
<1>1. IsFiniteSet(S) /\ \A i \in S : Cash(menu, i) \in Int
  BY EligibleIs, CashTyped
<1>2. PICK m \in S : \A x \in S : Cash(menu, m) <= Cash(menu, x)
  <2>1. \A x \in S : f[x] = Cash(menu, x)
    OBVIOUS
  <2>. HIDE DEF S, f
  <2>2. S # {}
    BY DEF S
  <2>3. \E m \in S : \A x \in S : f[m] <= f[x]
    BY <1>1, <2>1, <2>2, LeastOfFinite
  <2>. QED  BY <2>1, <2>3
<1>. HIDE DEF S
<1>3. \E x \in C : \A y \in C : x <= y
  BY <1>2
<1>4. Min(C) \in C /\ \A y \in C : Min(C) <= y
  BY <1>3 DEF Min
<1>5. LeastCash(menu) = Min(C)
  BY DEF LeastCash, S
<1>. HIDE DEF C
<1>6. \E i \in S : Cash(menu, i) = Min(C)
  BY <1>4 DEF C
<1>7. \A i \in S : Min(C) <= Cash(menu, i)
  BY <1>4 DEF C
<1>. QED  BY <1>1, <1>5, <1>6, <1>7 DEF S

-----------------------------------------------------------------------------
(* The plans of a portfolio.                                                *)

\* A choice of one of the options of every menu.
Choice(q, f) == /\ DOMAIN f = DOMAIN q.menus
                /\ \A k \in DOMAIN q.menus : f[k] \in DOMAIN q.menus[k].options

\* What a choice costs and what it is worth are sums over the menus.
LEMMA OverIs ==
  ASSUME NEW q, NEW f, DOMAIN f = DOMAIN q.menus
  PROVE  /\ Spend(q, f) = SumFunctionOnSet([k \in DOMAIN q.menus |-> Cash(q.menus[k], f[k])], DOMAIN q.menus)
         /\ Objective(q, f)
              = SumFunctionOnSet([k \in DOMAIN q.menus |-> ObjectiveOf(q.menus[k], f[k])], DOMAIN q.menus)
<1>. DEFINE M == DOMAIN q.menus
            a == [k \in M |-> Cash(q.menus[k], f[k])]
            b == [k \in M |-> ObjectiveOf(q.menus[k], f[k])]
<1>1. Spend(q, f) = Over(q, a) /\ Objective(q, f) = Over(q, b)
  BY DEF Spend, Objective
<1>2. [k \in M |-> a[k]] = a /\ [k \in M |-> b[k]] = b /\ DOMAIN a = M /\ DOMAIN b = M
  OBVIOUS
<1>. HIDE DEF a, b
<1>3. Over(q, a) = SumFunctionOnSet(a, M) /\ Over(q, b) = SumFunctionOnSet(b, M)
  BY <1>2 DEF Over, Total, SumFunction
<1>. QED  BY <1>1, <1>3 DEF a, b

\* They are whole numbers.
LEMMA OverTyped ==
  ASSUME NEW q, RequestTyped(q), NEW f, Choice(q, f)
  PROVE  /\ Spend(q, f) \in Int /\ Objective(q, f) \in Int
         /\ \A k \in DOMAIN q.menus : /\ Cash(q.menus[k], f[k]) \in Int
                                      /\ ObjectiveOf(q.menus[k], f[k]) \in Int
<1>. DEFINE M == DOMAIN q.menus
            a == [k \in M |-> Cash(q.menus[k], f[k])]
            b == [k \in M |-> ObjectiveOf(q.menus[k], f[k])]
<1>1. \A k \in M : Cash(q.menus[k], f[k]) \in Int /\ ObjectiveOf(q.menus[k], f[k]) \in Int
  BY CashTyped DEF RequestTyped, Choice
<1>2. IsFiniteSet(M) /\ \A k \in M : a[k] \in Int /\ b[k] \in Int
  BY <1>1 DEF RequestTyped
<1>3. Spend(q, f) = SumFunctionOnSet(a, M) /\ Objective(q, f) = SumFunctionOnSet(b, M)
  BY OverIs DEF Choice
<1>. HIDE DEF a, b
<1>4. SumFunctionOnSet(a, M) \in Int /\ SumFunctionOnSet(b, M) \in Int
  BY <1>2, SumType
<1>. QED  BY <1>1, <1>3, <1>4

\* A choice that costs no more in every menu costs no more, and so for its worth.
LEMMA ChoicesCompare ==
  ASSUME NEW q, RequestTyped(q), NEW f, Choice(q, f), NEW g, Choice(q, g)
  PROVE  /\ (\A k \in DOMAIN q.menus : Cash(q.menus[k], f[k]) <= Cash(q.menus[k], g[k]))
               => Spend(q, f) <= Spend(q, g)
         /\ (\A k \in DOMAIN q.menus : ObjectiveOf(q.menus[k], f[k]) <= ObjectiveOf(q.menus[k], g[k]))
               => Objective(q, f) <= Objective(q, g)
<1>. DEFINE M == DOMAIN q.menus
            a == [k \in M |-> Cash(q.menus[k], f[k])]
            b == [k \in M |-> ObjectiveOf(q.menus[k], f[k])]
            c == [k \in M |-> Cash(q.menus[k], g[k])]
            d == [k \in M |-> ObjectiveOf(q.menus[k], g[k])]
<1>1. /\ IsFiniteSet(M)
      /\ \A k \in M : a[k] \in Int /\ b[k] \in Int /\ c[k] \in Int /\ d[k] \in Int
  BY OverTyped DEF RequestTyped
<1>2. /\ Spend(q, f) = SumFunctionOnSet(a, M) /\ Objective(q, f) = SumFunctionOnSet(b, M)
      /\ Spend(q, g) = SumFunctionOnSet(c, M) /\ Objective(q, g) = SumFunctionOnSet(d, M)
  BY OverIs DEF Choice
<1>3. ASSUME \A k \in M : Cash(q.menus[k], f[k]) <= Cash(q.menus[k], g[k])
      PROVE  Spend(q, f) <= Spend(q, g)
  <2>1. \A k \in M : a[k] <= c[k]
    BY <1>3
  <2>. HIDE DEF a, c
  <2>2. SumFunctionOnSet(a, M) <= SumFunctionOnSet(c, M)
    BY <1>1, <2>1, SumAtMost
  <2>. QED  BY <1>2, <2>2
<1>4. ASSUME \A k \in M : ObjectiveOf(q.menus[k], f[k]) <= ObjectiveOf(q.menus[k], g[k])
      PROVE  Objective(q, f) <= Objective(q, g)
  <2>1. \A k \in M : b[k] <= d[k]
    BY <1>4
  <2>. HIDE DEF b, d
  <2>2. SumFunctionOnSet(b, M) <= SumFunctionOnSet(d, M)
    BY <1>1, <2>1, SumAtMost
  <2>. QED  BY <1>2, <2>2
<1>. QED  BY <1>3, <1>4

\* The plans of the program are choices of eligible options within the budget.
LEMMA PlansAre ==
  ASSUME NEW q, RequestTyped(q)
  PROVE  \A f \in Plans(q) : /\ Choice(q, f) /\ Spend(q, f) <= q.budget
                             /\ \A k \in DOMAIN q.menus : f[k] \in Eligible(q.menus[k])
<1>. SUFFICES ASSUME NEW f \in Plans(q)
              PROVE  /\ Choice(q, f) /\ Spend(q, f) <= q.budget
                     /\ \A k \in DOMAIN q.menus : f[k] \in Eligible(q.menus[k])
  OBVIOUS
<1>1. /\ DOMAIN f = DOMAIN q.menus /\ Spend(q, f) <= q.budget
      /\ \A k \in DOMAIN q.menus : f[k] \in Eligible(q.menus[k])
  BY DEF Plans
<1>2. \A k \in DOMAIN q.menus : f[k] \in DOMAIN q.menus[k].options
  BY <1>1, EligibleIs DEF RequestTyped
<1>. QED  BY <1>1, <1>2 DEF Choice

\* And every such choice is one.
LEMMA IsAPlan ==
  ASSUME NEW q, RequestTyped(q), NEW g,
         \A k \in DOMAIN q.menus : g[k] \in Eligible(q.menus[k])
  PROVE  LET f == [k \in DOMAIN q.menus |-> g[k]] IN
         /\ Choice(q, f)
         /\ Spend(q, f) <= q.budget => f \in Plans(q)
<1>. DEFINE M == DOMAIN q.menus
            eligible == [k \in M |-> Eligible(q.menus[k])]
            f == [k \in M |-> g[k]]
<1>1. Choice(q, f)
  BY EligibleIs DEF RequestTyped, Choice
<1>2. \A k \in M : f[k] \in eligible[k]
  OBVIOUS
<1>3. f \in [M -> UNION {eligible[k] : k \in M}]
  BY <1>2
<1>4. Spend(q, f) <= q.budget => f \in Plans(q)
  <2>1. DOMAIN f = M
    OBVIOUS
  <2>. HIDE DEF f
  <2>. QED  BY <1>2, <1>3, <2>1 DEF Plans
<1>. QED  BY <1>1, <1>4

\* The choices from all the options that are feasible, meet the floors and are within
\* the budget.
LEMMA UnprunedAre ==
  ASSUME NEW q, RequestTyped(q), NEW x \in Unpruned(q)
  PROVE  /\ Choice(q, x) /\ Spend(q, x) <= q.budget
         /\ \A k \in DOMAIN q.menus : /\ q.menus[k].options[x[k]].feasible
                                      /\ Unsatisfied(q.menus[k], x[k]) = {}
<1>1. DOMAIN x = DOMAIN q.menus /\ Spend(q, x) <= q.budget
  BY DEF Unpruned
<1>2. \A k \in DOMAIN x : /\ x[k] \in DOMAIN q.menus[k].options
                          /\ q.menus[k].options[x[k]].feasible
                          /\ Unsatisfied(q.menus[k], x[k]) = {}
  BY DEF Unpruned
<1>. QED  BY <1>1, <1>2 DEF Choice

\* Pruning loses nothing: for every such choice there is a plan that is as good.
LEMMA PlanIsAsGood ==
  ASSUME NEW q, RequestTyped(q), NEW x \in Unpruned(q)
  PROVE  \E y \in Plans(q) : Spend(q, y) <= Spend(q, x) /\ Objective(q, x) <= Objective(q, y)
<1>. DEFINE M == DOMAIN q.menus
            good(k, j) == /\ j \in Eligible(q.menus[k])
                          /\ Cash(q.menus[k], j) <= Cash(q.menus[k], x[k])
                          /\ ObjectiveOf(q.menus[k], x[k]) <= ObjectiveOf(q.menus[k], j)
            g == [k \in M |-> CHOOSE j : good(k, j)]
<1>1. /\ Choice(q, x) /\ Spend(q, x) <= q.budget
      /\ \A k \in M : /\ x[k] \in DOMAIN q.menus[k].options
                      /\ q.menus[k].options[x[k]].feasible /\ Unsatisfied(q.menus[k], x[k]) = {}
  BY UnprunedAre DEF Choice
<1>2. \A k \in M : good(k, g[k])
  <2>. SUFFICES ASSUME NEW k \in M PROVE good(k, g[k])
    OBVIOUS
  <2>1. \E j : good(k, j)
    <3>1. MenuTyped(q.menus[k])
      BY DEF RequestTyped
    <3>. QED  BY <1>1, <3>1, EligibleIsAsGood
  <2>2. g[k] = CHOOSE j : good(k, j)
    OBVIOUS
  <2>. HIDE DEF good, g
  <2>. QED  BY <2>1, <2>2
<1>. DEFINE y == [k \in M |-> g[k]]
<1>3. \A k \in M : y[k] = g[k]
  OBVIOUS
<1>. HIDE DEF g
<1>4. Choice(q, y) /\ (Spend(q, y) <= q.budget => y \in Plans(q))
  BY <1>2, IsAPlan
<1>. HIDE DEF y
<1>5. Spend(q, y) <= Spend(q, x) /\ Objective(q, x) <= Objective(q, y)
  BY <1>1, <1>2, <1>3, <1>4, ChoicesCompare
<1>6. Spend(q, x) \in Int /\ Spend(q, y) \in Int /\ q.budget \in Int
  BY <1>1, <1>4, OverTyped DEF RequestTyped
<1>7. y \in Plans(q)
  BY <1>1, <1>4, <1>5, <1>6
<1>. QED  BY <1>5, <1>7

\* And it adds nothing.
LEMMA PlansAreUnpruned ==
  ASSUME NEW q, RequestTyped(q)
  PROVE  Plans(q) \subseteq Unpruned(q)
<1>. SUFFICES ASSUME NEW f \in Plans(q) PROVE f \in Unpruned(q)
  OBVIOUS
<1>1. /\ Choice(q, f) /\ Spend(q, f) <= q.budget
      /\ \A k \in DOMAIN q.menus : f[k] \in Eligible(q.menus[k])
  BY PlansAre
<1>2. \A k \in DOMAIN q.menus : /\ f[k] \in DOMAIN q.menus[k].options
                                /\ q.menus[k].options[f[k]].feasible
                                /\ Unsatisfied(q.menus[k], f[k]) = {}
  <2>. SUFFICES ASSUME NEW k \in DOMAIN q.menus
                PROVE  /\ f[k] \in DOMAIN q.menus[k].options
                       /\ q.menus[k].options[f[k]].feasible
                       /\ Unsatisfied(q.menus[k], f[k]) = {}
    OBVIOUS
  <2>1. MenuTyped(q.menus[k])
    BY DEF RequestTyped
  <2>. QED  BY <1>1, <2>1, EligibleIs
<1>3. f \in [DOMAIN q.menus -> UNION {DOMAIN q.menus[k].options : k \in DOMAIN q.menus}]
  <2>1. f = [k \in DOMAIN q.menus |-> f[k]]
    BY DEF Plans
  <2>. QED  BY <1>2, <2>1
<1>4. DOMAIN f = DOMAIN q.menus
  BY <1>1 DEF Choice
<1>. QED  BY <1>1, <1>2, <1>3, <1>4 DEF Unpruned

\* The minimum budget is the sum of the least cash of every menu.
LEMMA MinimumIs ==
  ASSUME NEW q, RequestTyped(q), Stuck(q) = {}
  PROVE  /\ MinimumBudget(q)
              = SumFunctionOnSet([k \in DOMAIN q.menus |-> LeastCash(q.menus[k])], DOMAIN q.menus)
         /\ MinimumBudget(q) \in Int
         /\ \A k \in DOMAIN q.menus : /\ LeastCash(q.menus[k]) \in Int
                                      /\ \E i \in Eligible(q.menus[k]) :
                                            Cash(q.menus[k], i) = LeastCash(q.menus[k])
                                      /\ \A i \in Eligible(q.menus[k]) :
                                            LeastCash(q.menus[k]) <= Cash(q.menus[k], i)
<1>. DEFINE M == DOMAIN q.menus
            a == [k \in M |-> LeastCash(q.menus[k])]
<1>1. \A k \in M : /\ LeastCash(q.menus[k]) \in Int
                   /\ \E i \in Eligible(q.menus[k]) : Cash(q.menus[k], i) = LeastCash(q.menus[k])
                   /\ \A i \in Eligible(q.menus[k]) : LeastCash(q.menus[k]) <= Cash(q.menus[k], i)
  <2>1. \A k \in M : MenuTyped(q.menus[k]) /\ Eligible(q.menus[k]) # {}
    BY DEF RequestTyped, Stuck
  <2>. QED  BY <2>1, LeastCashIs
<1>2. MinimumBudget(q) = SumFunctionOnSet(a, M)
  <2>1. M \ Stuck(q) = M
    OBVIOUS
  <2>. QED  BY <2>1 DEF MinimumBudget, Total, SumFunction
<1>3. IsFiniteSet(M) /\ \A k \in M : a[k] \in Int
  BY <1>1 DEF RequestTyped
<1>. HIDE DEF a
<1>4. SumFunctionOnSet(a, M) \in Int
  BY <1>3, SumType
<1>. QED  BY <1>1, <1>2, <1>4 DEF a

\* With one option fixed there is a choice of eligible ones at the least it can cost,
\* what an alternative is held against.
LEMMA CheapestWith ==
  ASSUME NEW q, RequestTyped(q), Stuck(q) = {}, NEW l \in DOMAIN q.menus,
         NEW i \in Eligible(q.menus[l])
  PROVE  LET least == MinimumBudget(q) - LeastCash(q.menus[l]) + Cash(q.menus[l], i) IN
         /\ \E g : /\ \A k \in DOMAIN q.menus : g[k] \in Eligible(q.menus[k])
                   /\ g[l] = i /\ Choice(q, g) /\ Spend(q, g) = least
                   /\ Spend(q, g) <= q.budget => g \in Plans(q)
         /\ \A f : /\ Choice(q, f) /\ f[l] = i
                   /\ \A k \in DOMAIN q.menus : f[k] \in Eligible(q.menus[k])
                   => least <= Spend(q, f)
<1>. DEFINE M == DOMAIN q.menus
            a == [k \in M |-> LeastCash(q.menus[k])]
            cheap(k, j) == j \in Eligible(q.menus[k]) /\ Cash(q.menus[k], j) = LeastCash(q.menus[k])
            h == [k \in M |-> IF k = l THEN i ELSE CHOOSE j : cheap(k, j)]
            g == [k \in M |-> h[k]]
            b == [k \in M |-> Cash(q.menus[k], g[k])]
            rest == M \ {l}
<1>1. /\ MinimumBudget(q) = SumFunctionOnSet(a, M) /\ MinimumBudget(q) \in Int
      /\ \A k \in M : /\ LeastCash(q.menus[k]) \in Int
                      /\ \E j \in Eligible(q.menus[k]) : Cash(q.menus[k], j) = LeastCash(q.menus[k])
                      /\ \A j \in Eligible(q.menus[k]) : LeastCash(q.menus[k]) <= Cash(q.menus[k], j)
  BY MinimumIs
<1>2. \A k \in M : k # l => cheap(k, h[k])
  <2>. SUFFICES ASSUME NEW k \in M, k # l PROVE cheap(k, h[k])
    OBVIOUS
  <2>1. \E j : cheap(k, j)
    BY <1>1
  <2>2. h[k] = CHOOSE j : cheap(k, j)
    OBVIOUS
  <2>. HIDE DEF cheap, h
  <2>. QED  BY <2>1, <2>2
<1>3. h[l] = i
  OBVIOUS
<1>. HIDE DEF h
<1>4. \A k \in M : h[k] \in Eligible(q.menus[k])
  BY <1>2, <1>3
<1>5. /\ Choice(q, g) /\ (Spend(q, g) <= q.budget => g \in Plans(q))
  BY <1>4, IsAPlan
<1>6. \A k \in M : g[k] = h[k]
  OBVIOUS
<1>. HIDE DEF g
<1>7. IsFiniteSet(M) /\ IsFiniteSet(rest) /\ l \in M /\ \A k \in rest : k \in M /\ k # l
  BY FS_Subset DEF RequestTyped
<1>8. Spend(q, g) = SumFunctionOnSet(b, M)
  BY <1>5, OverIs DEF Choice
<1>9. \A k \in M : a[k] \in Int /\ b[k] \in Int /\ b[k] = Cash(q.menus[k], g[k]) /\ a[k] = LeastCash(q.menus[k])
  BY <1>1, <1>5, OverTyped
<1>10. \A k \in rest : b[k] = a[k]
  BY <1>2, <1>6, <1>7, <1>9
<1>. HIDE DEF a, b
<1>11. /\ SumFunctionOnSet(a, M) = a[l] + SumFunctionOnSet(a, rest)
       /\ SumFunctionOnSet(b, M) = b[l] + SumFunctionOnSet(b, rest)
  BY <1>7, <1>9, SumPick
<1>12. SumFunctionOnSet(b, rest) = SumFunctionOnSet(a, rest) /\ SumFunctionOnSet(a, rest) \in Int
  BY <1>7, <1>9, <1>10, SumSame, SumType
<1>13. a[l] = LeastCash(q.menus[l]) /\ b[l] = Cash(q.menus[l], i) /\ a[l] \in Int /\ b[l] \in Int
  BY <1>3, <1>6, <1>7, <1>9
<1>. DEFINE least == MinimumBudget(q) - LeastCash(q.menus[l]) + Cash(q.menus[l], i)
<1>14. Spend(q, g) = least /\ least \in Int
  BY <1>1, <1>8, <1>11, <1>12, <1>13
<1>. HIDE DEF least
<1>15. ASSUME NEW f, Choice(q, f), f[l] = i, \A k \in M : f[k] \in Eligible(q.menus[k])
       PROVE  least <= Spend(q, f)
  <2>1. \A k \in M : Cash(q.menus[k], g[k]) <= Cash(q.menus[k], f[k])
    <3>. SUFFICES ASSUME NEW k \in M PROVE Cash(q.menus[k], g[k]) <= Cash(q.menus[k], f[k])
      OBVIOUS
    <3>1. CASE k = l
      <4>1. Cash(q.menus[k], g[k]) \in Int
        BY <1>5, OverTyped
      <4>. QED  BY <1>3, <1>6, <1>15, <3>1, <4>1
    <3>2. CASE k # l
      BY <1>1, <1>2, <1>6, <1>15, <3>2
    <3>. QED  BY <3>1, <3>2
  <2>2. Spend(q, g) <= Spend(q, f)
    BY <1>5, <1>15, <2>1, ChoicesCompare
  <2>. QED  BY <1>14, <2>2
<1>16. g[l] = i /\ \A k \in M : g[k] \in Eligible(q.menus[k])
  BY <1>3, <1>4, <1>6
<1>17. \E p : /\ \A k \in M : p[k] \in Eligible(q.menus[k])
              /\ p[l] = i /\ Choice(q, p) /\ Spend(q, p) = least
              /\ Spend(q, p) <= q.budget => p \in Plans(q)
  BY <1>5, <1>14, <1>16
<1>. QED  BY <1>15, <1>17 DEF least

\* An eligible option whose replacement spend is within the budget is in some plan.
LEMMA AffordablePlanWith ==
  ASSUME NEW q, RequestTyped(q), Stuck(q) = {}, NEW l \in DOMAIN q.menus,
         NEW i \in Eligible(q.menus[l]),
         ~(MinimumBudget(q) - LeastCash(q.menus[l]) + Cash(q.menus[l], i) > q.budget)
  PROVE  \E x \in Plans(q) : x[l] = i
<1>. DEFINE least == MinimumBudget(q) - LeastCash(q.menus[l]) + Cash(q.menus[l], i)
<1>1. PICK g : g[l] = i /\ Spend(q, g) = least /\ (Spend(q, g) <= q.budget => g \in Plans(q))
  BY CheapestWith
<1>2. least \in Int /\ q.budget \in Int
  <2>1. MinimumBudget(q) \in Int /\ LeastCash(q.menus[l]) \in Int
    BY MinimumIs
  <2>2. MenuTyped(q.menus[l]) /\ i \in DOMAIN q.menus[l].options
    BY EligibleIs DEF RequestTyped
  <2>3. Cash(q.menus[l], i) \in Int
    BY <2>2, CashTyped
  <2>. QED  BY <2>1, <2>3 DEF RequestTyped
<1>. HIDE DEF least
<1>3. ~(least > q.budget)
  BY DEF least
<1>. QED  BY <1>1, <1>2, <1>3

\* The check the solver makes first is exact: there is nothing to choose from exactly
\* when a menu has no eligible option or the minimum is over the budget.
LEMMA PlansExist ==
  ASSUME NEW q, RequestTyped(q)
  PROVE  /\ (Unpruned(q) = {}) <=> (Stuck(q) # {} \/ MinimumBudget(q) > q.budget)
         /\ Stuck(q) = {} => \A p \in Plans(q) : MinimumBudget(q) <= Spend(q, p)
<1>1. \A x \in Unpruned(q) : Stuck(q) = {}
  <2>. SUFFICES ASSUME NEW x \in Unpruned(q), NEW k \in DOMAIN q.menus PROVE Eligible(q.menus[k]) # {}
    BY DEF Stuck
  <2>1. PICK y \in Plans(q) : Spend(q, y) <= Spend(q, x)
    BY PlanIsAsGood
  <2>. QED  BY PlansAre
<1>2. PICK l \in DOMAIN q.menus : TRUE
  BY DEF RequestTyped
<1>3. ASSUME Stuck(q) = {}, NEW p \in Plans(q) PROVE MinimumBudget(q) <= Spend(q, p)
  <2>1. /\ Choice(q, p) /\ \A k \in DOMAIN q.menus : p[k] \in Eligible(q.menus[k])
    BY PlansAre
  <2>2. MinimumBudget(q) - LeastCash(q.menus[l]) + Cash(q.menus[l], p[l]) <= Spend(q, p)
    BY <1>3, <2>1, CheapestWith
  <2>3. /\ MinimumBudget(q) \in Int /\ LeastCash(q.menus[l]) \in Int
        /\ LeastCash(q.menus[l]) <= Cash(q.menus[l], p[l])
    BY <1>3, <2>1, MinimumIs
  <2>4. Cash(q.menus[l], p[l]) \in Int /\ Spend(q, p) \in Int
    BY <2>1, OverTyped
  <2>. QED  BY <2>2, <2>3, <2>4
<1>4. ASSUME Stuck(q) = {}, ~(MinimumBudget(q) > q.budget) PROVE Unpruned(q) # {}
  <2>1. PICK i \in Eligible(q.menus[l]) : Cash(q.menus[l], i) = LeastCash(q.menus[l])
    BY <1>4, MinimumIs
  <2>2. PICK g : /\ Spend(q, g) = MinimumBudget(q) - LeastCash(q.menus[l]) + Cash(q.menus[l], i)
                 /\ Spend(q, g) <= q.budget => g \in Plans(q)
    BY <1>4, CheapestWith
  <2>3. MinimumBudget(q) \in Int /\ LeastCash(q.menus[l]) \in Int /\ q.budget \in Int
    BY <1>4, MinimumIs DEF RequestTyped
  <2>4. g \in Plans(q)
    BY <1>4, <2>1, <2>2, <2>3
  <2>. QED  BY <2>4, PlansAreUnpruned
<1>5. ASSUME NEW x \in Unpruned(q) PROVE ~(MinimumBudget(q) > q.budget)
  <2>1. Stuck(q) = {}
    BY <1>1
  <2>2. PICK y \in Plans(q) : Spend(q, y) <= Spend(q, x)
    BY PlanIsAsGood
  <2>3. Choice(q, y) /\ Spend(q, y) <= q.budget
    BY PlansAre
  <2>4. Spend(q, y) \in Int /\ MinimumBudget(q) \in Int /\ q.budget \in Int
    BY <2>1, <2>3, OverTyped, MinimumIs DEF RequestTyped
  <2>. QED  BY <1>3, <2>1, <2>3, <2>4
<1>. QED  BY <1>1, <1>3, <1>4, <1>5

-----------------------------------------------------------------------------
(* The plan that is found, and the alternatives that are shown.             *)

\* No plan is worth more than the best options of the menus together.
LEMMA ObjectiveIsBounded ==
  ASSUME NEW q, RequestTyped(q), Stuck(q) = {}
  PROVE  \E b \in Int : \A p \in Plans(q) : Objective(q, p) <= b
<1>. DEFINE M == DOMAIN q.menus
            top(k, j) == /\ j \in Eligible(q.menus[k])
                         /\ \A i \in Eligible(q.menus[k]) :
                               ObjectiveOf(q.menus[k], i) <= ObjectiveOf(q.menus[k], j)
            h == [k \in M |-> CHOOSE j : top(k, j)]
            g == [k \in M |-> h[k]]
<1>1. \A k \in M : top(k, h[k])
  <2>. SUFFICES ASSUME NEW k \in M PROVE top(k, h[k])
    OBVIOUS
  <2>1. \E j : top(k, j)
    <3>. DEFINE S == Eligible(q.menus[k])  f == [i \in S |-> ObjectiveOf(q.menus[k], i)]
    <3>1. MenuTyped(q.menus[k]) /\ S # {}
      BY DEF RequestTyped, Stuck
    <3>2. IsFiniteSet(S) /\ \A i \in S : f[i] \in Int /\ f[i] = ObjectiveOf(q.menus[k], i)
      BY <3>1, EligibleIs, CashTyped
    <3>. HIDE DEF f
    <3>3. \E j \in S : \A i \in S : f[i] <= f[j]
      <4>. HIDE DEF S
      <4>. QED  BY <3>1, <3>2, MostOfFinite
    <3>. QED  BY <3>2, <3>3
  <2>2. h[k] = CHOOSE j : top(k, j)
    OBVIOUS
  <2>. HIDE DEF top, h
  <2>. QED  BY <2>1, <2>2
<1>. HIDE DEF h
<1>2. Choice(q, g)
  BY <1>1, IsAPlan
<1>3. \A k \in M : g[k] = h[k]
  OBVIOUS
<1>. HIDE DEF g
<1>4. Objective(q, g) \in Int
  BY <1>2, OverTyped
<1>5. ASSUME NEW p \in Plans(q) PROVE Objective(q, p) <= Objective(q, g)
  <2>1. Choice(q, p) /\ \A k \in M : p[k] \in Eligible(q.menus[k])
    BY PlansAre
  <2>. QED  BY <1>1, <1>2, <1>3, <2>1, ChoicesCompare
<1>. QED  BY <1>4, <1>5

\* A plan that is proven is worth as much as any, and of these costs the least.
LEMMA ProvenIsBest ==
  ASSUME NEW q, RequestTyped(q), Stuck(q) = {}, NEW p \in FirstByKey(TieBreak(q, Plans(q)))
  PROVE  /\ p \in Plans(q)
         /\ \A y \in Plans(q) : /\ Objective(q, y) <= Objective(q, p)
                                /\ Objective(q, y) = Objective(q, p) => Spend(q, p) <= Spend(q, y)
<1>. DEFINE P == Plans(q)  W == {Objective(q, x) : x \in P}
            B == Best(q, P)  C == {Spend(q, x) : x \in B}
<1>1. p \in Cheapest(q, B)
  BY DEF FirstByKey, TieBreak
<1>2. p \in B /\ Spend(q, p) = Min(C)
  BY <1>1 DEF Cheapest
<1>3. B \subseteq P /\ \A x \in P : x \in B <=> Objective(q, x) = Max(W)
  BY DEF Best
<1>4. \A x \in P : Objective(q, x) \in Int /\ Spend(q, x) \in Int
  BY PlansAre, OverTyped
<1>. HIDE DEF B, P
<1>5. \A x \in P : Objective(q, x) <= Max(W)
  <2>1. PICK b \in Int : \A x \in P : Objective(q, x) <= b
    BY ObjectiveIsBounded DEF P
  <2>2. W \in SUBSET Int /\ W # {} /\ \A w \in W : w <= b
    BY <1>2, <1>3, <1>4, <2>1
  <2>3. \A x \in P : Objective(q, x) \in W
    OBVIOUS
  <2>. HIDE DEF W
  <2>. QED  BY <2>2, <2>3, BoundedMax
<1>6. \A x \in B : Spend(q, p) <= Spend(q, x)
  <2>1. \A x \in B : MinimumBudget(q) <= Spend(q, x)
    BY <1>3, PlansExist DEF P
  <2>2. C \in SUBSET Int /\ C # {} /\ \A c \in C : MinimumBudget(q) <= c
    BY <1>2, <1>3, <1>4, <2>1
  <2>3. MinimumBudget(q) \in Int
    BY MinimumIs
  <2>4. \A x \in B : Spend(q, x) \in C
    OBVIOUS
  <2>. HIDE DEF C
  <2>5. \A c \in C : Min(C) <= c
    BY <2>2, <2>3, BoundedMin
  <2>. QED  BY <1>2, <2>4, <2>5
<1>7. p \in P /\ Objective(q, p) = Max(W)
  BY <1>2, <1>3
<1>8. \A y \in P : /\ Objective(q, y) <= Objective(q, p)
                   /\ Objective(q, y) = Objective(q, p) => Spend(q, p) <= Spend(q, y)
  BY <1>3, <1>5, <1>6, <1>7
<1>. QED  BY <1>7, <1>8 DEF P

\* An alternative that is shown is an option of the frontier the plan does not choose,
\* with its reason.
LEMMA AlternativesAre ==
  ASSUME NEW q, NEW p, NEW k, NEW a \in Alternatives(q, p, k)
  PROVE  /\ a.option \in OnFrontier(q.menus[k]) /\ a.option # p[k]
         /\ a.reason = Rejection(q, p, k, a.option)
<1>1. PICK i \in OnFrontier(q.menus[k]) \ {Baseline(q.menus[k]), p[k]} :
         a = [option |-> i, reason |-> Rejection(q, p, k, i)]
  BY Zenon DEF Alternatives
<1>2. a.option = i /\ a.reason = Rejection(q, p, k, i)
  BY <1>1
<1>. QED  BY <1>1, <1>2

\* Every plan passes the validators of a result, so a completed one is never raised.
LEMMA PlanIsAccepted ==
  ASSUME NEW q, RequestTyped(q), NEW p \in Plans(q)
  PROVE  OutcomeAccepted(q, p, Summary(q, p),
                         [k \in DOMAIN q.menus |-> Alternatives(q, p, k)])
<1>. DEFINE M == DOMAIN q.menus
            of(k) == q.menus[k].options[p[k]]
            s == Summary(q, p)
            shown == [k \in M |-> Alternatives(q, p, k)]
            low == {k \in M : of(k).confidence < LowConfidence}
            same == {k \in M : IsNoChange(of(k))}
            conf == [k \in M |-> of(k).confidence]
<1>1. /\ Choice(q, p) /\ Spend(q, p) <= q.budget /\ DOMAIN p = M
      /\ \A k \in M : p[k] \in Eligible(q.menus[k]) /\ p[k] \in DOMAIN q.menus[k].options
  BY PlansAre DEF Choice
<1>2. Spend(q, p) \in Int /\ q.budget \in Int /\ IsFiniteSet(M)
  BY <1>1, OverTyped DEF RequestTyped
<1>3. {k \in DOMAIN p : TRUE} = M
  BY <1>1
<1>4. /\ s.spend = Spend(q, p) /\ s.slack = q.budget - Spend(q, p) /\ s.keys = Cardinality(M)
      /\ s.unchanged = Cardinality(same) /\ s.lowConfidence = Cardinality(low)
      /\ s.confidence = Total(M, LAMBDA k : q.menus[k].options[p[k]].confidence)
  BY <1>3, Zenon DEF Summary
<1>5. /\ Cardinality(M) \in Nat
      /\ Cardinality(same) <= Cardinality(M) /\ Cardinality(same) \in Nat
      /\ Cardinality(low) <= Cardinality(M) /\ Cardinality(low) \in Nat
  <2>1. same \subseteq M /\ low \subseteq M
    OBVIOUS
  <2>. HIDE DEF same, low
  <2>. QED  BY <1>2, <2>1, FS_Subset, FS_CardinalityType
<1>6. Total(M, LAMBDA k : q.menus[k].options[p[k]].confidence) <= 10000 * Cardinality(M)
  <2>. DEFINE top == 10000  one == [k \in M |-> 1]  all == [k \in M |-> top]
  <2>1. \A k \in M : conf[k] \in Int /\ conf[k] <= 10000
    <3>. SUFFICES ASSUME NEW k \in M PROVE of(k).confidence \in Int /\ of(k).confidence <= 10000
      OBVIOUS
    <3>1. NumbersTyped(of(k))
      BY <1>1 DEF RequestTyped, MenuTyped, OptionTyped
    <3>. QED  BY <3>1 DEF NumbersTyped
  <2>2. \A k \in M : one[k] = 1 /\ all[k] = top
    OBVIOUS
  <2>3. Total(M, LAMBDA k : q.menus[k].options[p[k]].confidence) = SumFunctionOnSet(conf, M)
    BY Zenon DEF Total, SumFunction
  <2>. HIDE DEF one, all, conf
  <2>4. SumFunctionOnSet(conf, M) <= SumFunctionOnSet(all, M)
    <3>1. \A k \in M : all[k] \in Int /\ conf[k] \in Int /\ conf[k] <= all[k]
      BY <2>1, <2>2
    <3>. QED  BY <1>2, <3>1, SumAtMost
  <2>5. SumFunctionOnSet(all, M) = top * SumFunctionOnSet(one, M)
    <3>1. \A k \in M : one[k] \in Int /\ all[k] \in Int /\ all[k] = top * one[k]
      BY <2>2
    <3>2. top \in Int
      OBVIOUS
    <3>. HIDE DEF top
    <3>. QED  BY <1>2, <3>1, <3>2, SumTimes
  <2>6. SumFunctionOnSet(one, M) = Cardinality(M)
    BY <1>2, <2>2, SumOnes
  <2>. QED  BY <2>3, <2>4, <2>5, <2>6
<1>7. \A k \in DOMAIN p : Unsatisfied(q.menus[k], p[k]) = {}
  BY <1>1, EligibleIs DEF RequestTyped
<1>8. \A k \in DOMAIN p : p[k] \notin {a.option : a \in shown[k]}
  <2>. SUFFICES ASSUME NEW k \in M, NEW a \in Alternatives(q, p, k) PROVE a.option # p[k]
    BY <1>1
  <2>. QED  BY AlternativesAre
<1>. HIDE DEF s, same, low, conf, shown
<1>9. /\ s.spend + s.slack = q.budget /\ s.slack >= 0
      /\ s.keys = Cardinality(M) /\ s.unchanged <= s.keys
      /\ s.confidence <= 10000 * s.keys /\ s.lowConfidence <= s.keys
  BY <1>1, <1>2, <1>4, <1>5, <1>6
<1>10. OutcomeAccepted(q, p, s, shown)
  BY <1>7, <1>8, <1>9 DEF OutcomeAccepted
<1>. QED  BY <1>10 DEF s, shown

\* What a result is: refused when no plan exists, else a plan or a failure to find one.
LEMMA SolvedAs ==
  ASSUME NEW q, RequestTyped(q), NEW r \in Solve(q)
  PROVE  \/ /\ Stuck(q) # {} \/ MinimumBudget(q) > q.budget
            /\ r = Refused("infeasible", q)
         \/ /\ Stuck(q) = {} /\ ~(MinimumBudget(q) > q.budget)
            /\ \/ r = Refused("failed", q)
               \/ /\ r = Completed(q, [plan |-> r.plan, proven |-> r.proven])
                  /\ r.plan \in Plans(q) /\ r.status = "completed"
                  /\ DOMAIN r.shown = DOMAIN q.menus
                  /\ \A k \in DOMAIN q.menus : r.shown[k] = Alternatives(q, r.plan, k)
                  /\ r.proven => r.plan \in FirstByKey(TieBreak(q, Plans(q)))
<1>1. CASE Stuck(q) # {} \/ MinimumBudget(q) > q.budget
  BY <1>1 DEF Solve
<1>2. CASE ~(Stuck(q) # {} \/ MinimumBudget(q) > q.budget)
  <2>1. PICK x \in Incumbents(q) : r = IF x.plan = NoPlan THEN Refused("failed", q) ELSE Completed(q, x)
    BY <1>2 DEF Solve
  <2>2. CASE x.plan = NoPlan
    BY <1>2, <2>1, <2>2
  <2>3. CASE x.plan # NoPlan
    <3>1. /\ x = [plan |-> x.plan, proven |-> x.proven]
          /\ \/ x.plan \in Plans(q) /\ x.proven = FALSE
             \/ x.plan \in FirstByKey(TieBreak(q, Plans(q)))
      BY <2>3 DEF Incumbents
    <3>2. x.plan \in Plans(q)
      <4>1. CASE x.plan \in FirstByKey(TieBreak(q, Plans(q)))
        BY <1>2, <4>1, ProvenIsBest
      <4>. QED  BY <3>1, <4>1
    <3>3. r = Completed(q, x)
      BY <2>1, <2>3
    <3>4. /\ r.plan = x.plan /\ r.proven = x.proven
          /\ r.shown = [k \in DOMAIN q.menus |-> Alternatives(q, x.plan, k)]
          /\ r.status = IF OutcomeAccepted(q, x.plan, Summary(q, x.plan), r.shown)
                        THEN "completed" ELSE "raised"
      BY <3>3, Zenon DEF Completed
    <3>5. r.status = "completed"
      BY <3>2, <3>4, PlanIsAccepted
    <3>6. r.proven => r.plan \in FirstByKey(TieBreak(q, Plans(q)))
      BY <3>1, <3>4
    <3>7. r = Completed(q, [plan |-> r.plan, proven |-> r.proven])
      BY <3>1, <3>3, <3>4
    <3>. QED  BY <1>2, <3>2, <3>4, <3>5, <3>6, <3>7
  <2>. QED  BY <2>2, <2>3
<1>. QED  BY <1>1, <1>2

\* A refusal has the status it is refused with.
LEMMA RefusedStatus ==
  ASSUME NEW q, NEW s PROVE Refused(s, q).status = s
BY DEF Refused

\* The solver refuses a request only when no choice at all would do, its plan is within
\* the budget, and one it calls optimal is worth as much as any choice from all the
\* options, the dominated ones too, at the least cash (portfolio/optimizer.py).
THEOREM BestPlans ==
    AlgorithmSpec => []PlanIsFeasibleAndBest
<1>1. Typed(case) /\ Answers => PlanIsFeasibleAndBest
  <2>. SUFFICES ASSUME Typed(case), Answers, Computed("plan")
                PROVE  /\ result.status # "raised"
                       /\ (result.status = "infeasible") = (Unpruned(case) = {})
                       /\ result.status = "completed" => Spend(case, result.plan) <= case.budget
                       /\ result.status = "completed" /\ result.proven =>
                             \A x \in Unpruned(case) :
                                \/ Objective(case, x) < Objective(case, result.plan)
                                \/ /\ Objective(case, x) = Objective(case, result.plan)
                                   /\ Spend(case, x) >= Spend(case, result.plan)
    BY DEF PlanIsFeasibleAndBest
  <2>. DEFINE q == case  p == result.plan
              no == Stuck(q) # {} \/ MinimumBudget(q) > q.budget
  <2>1. RequestTyped(q) /\ result \in Solve(q)
    BY DEF Typed, Answers, Computed
  <2>. HIDE DEF q
  <2>2. \/ no /\ result = Refused("infeasible", q)
        \/ ~no /\ result = Refused("failed", q)
        \/ /\ ~no /\ Stuck(q) = {} /\ result.status = "completed" /\ p \in Plans(q)
           /\ result.proven => p \in FirstByKey(TieBreak(q, Plans(q)))
    BY <2>1, SolvedAs
  <2>3. (Unpruned(q) = {}) <=> no
    BY <2>1, PlansExist
  <2>4. result.status # "raised" /\ ((result.status = "infeasible") = (Unpruned(q) = {}))
    BY <2>2, <2>3, RefusedStatus
  <2>5. ASSUME result.status = "completed"
        PROVE  /\ Spend(q, p) <= q.budget
               /\ result.proven =>
                     \A x \in Unpruned(q) :
                        \/ Objective(q, x) < Objective(q, p)
                        \/ Objective(q, x) = Objective(q, p) /\ Spend(q, x) >= Spend(q, p)
    <3>1. /\ Stuck(q) = {} /\ p \in Plans(q)
          /\ result.proven => p \in FirstByKey(TieBreak(q, Plans(q)))
      BY <2>2, <2>5, RefusedStatus
    <3>2. ASSUME result.proven, NEW x \in Unpruned(q)
          PROVE  \/ Objective(q, x) < Objective(q, p)
                 \/ Objective(q, x) = Objective(q, p) /\ Spend(q, x) >= Spend(q, p)
      <4>1. PICK y \in Plans(q) : Spend(q, y) <= Spend(q, x) /\ Objective(q, x) <= Objective(q, y)
        BY <2>1, PlanIsAsGood
      <4>2. /\ Objective(q, y) <= Objective(q, p)
            /\ Objective(q, y) = Objective(q, p) => Spend(q, p) <= Spend(q, y)
        BY <2>1, <3>1, <3>2, ProvenIsBest
      <4>3. Choice(q, x) /\ Choice(q, y) /\ Choice(q, p)
        BY <2>1, <3>1, UnprunedAre, PlansAre
      <4>4. /\ Objective(q, x) \in Int /\ Objective(q, y) \in Int /\ Objective(q, p) \in Int
            /\ Spend(q, x) \in Int /\ Spend(q, y) \in Int /\ Spend(q, p) \in Int
        BY <2>1, <4>3, OverTyped
      <4>. HIDE DEF p
      <4>. QED  BY <4>1, <4>2, <4>4
    <3>. QED  BY <2>1, <3>1, <3>2, PlansAre
  <2>. QED  BY <2>4, <2>5 DEF q
<1>. QED  BY <1>1, AnswersAreComputed, PTL

\* The reason an alternative was passed over is true: it is in some plan exactly when
\* it is said to have lost on worth or in the trade-off, and in none when a constraint,
\* a floor or the budget is blamed (portfolio/optimizer.py).
THEOREM TrueRejections ==
    AlgorithmSpec => []RejectionsAreTrue
<1>1. Typed(case) /\ Answers => RejectionsAreTrue
  <2>. SUFFICES ASSUME Typed(case), Answers, Computed("plan"), result.status = "completed",
                       NEW l \in DOMAIN result.shown, NEW a \in result.shown[l]
                PROVE  (\E x \in Plans(case) : x[l] = a.option)
                         <=> (a.reason \in {"lower_objective", "portfolio_tradeoff"})
    BY DEF RejectionsAreTrue
  <2>. DEFINE q == case  p == result.plan  menu == q.menus[l]  i == a.option
              c == menu.options[i]
              least == MinimumBudget(q) - LeastCash(menu) + Cash(menu, i)
  <2>1. RequestTyped(q) /\ result \in Solve(q)
    BY DEF Typed, Answers, Computed
  <2>. HIDE DEF q
  <2>2. /\ Stuck(q) = {} /\ p \in Plans(q)
        /\ DOMAIN result.shown = DOMAIN q.menus
        /\ \A k \in DOMAIN q.menus : result.shown[k] = Alternatives(q, p, k)
    <3>1. CASE result = Refused("infeasible", q)
      BY <3>1, RefusedStatus
    <3>2. CASE result = Refused("failed", q)
      BY <3>2, RefusedStatus
    <3>3. \/ result = Refused("infeasible", q) \/ result = Refused("failed", q)
          \/ /\ Stuck(q) = {} /\ result.plan \in Plans(q)
             /\ DOMAIN result.shown = DOMAIN q.menus
             /\ \A k \in DOMAIN q.menus : result.shown[k] = Alternatives(q, result.plan, k)
      BY <2>1, SolvedAs
    <3>. QED  BY <3>1, <3>2, <3>3
  <2>3. l \in DOMAIN q.menus /\ a \in Alternatives(q, p, l)
    BY <2>2
  <2>4. i \in OnFrontier(menu) /\ a.reason = Rejection(q, p, l, i)
    BY <2>3, AlternativesAre
  <2>5. i \in Eligible(menu) <=> c.feasible /\ c.hard = {} /\ Unsatisfied(menu, i) = {}
    BY <2>4 DEF Eligible
  <2>6. a.reason \in {"lower_objective", "portfolio_tradeoff"}
           <=> i \in Eligible(menu) /\ ~(least > q.budget)
    <3>1. a.reason = IF c.hard # {} THEN "hard_constraint"
                     ELSE IF Unsatisfied(menu, i) # {} THEN "mandatory_floor"
                     ELSE IF ~c.feasible THEN "candidate_infeasible"
                     ELSE IF least > q.budget THEN "budget"
                     ELSE IF ObjectiveOf(menu, i) < ObjectiveOf(menu, p[l])
                     THEN "lower_objective" ELSE "portfolio_tradeoff"
      BY <2>4 DEF Rejection, ReplacementSpend
    <3>. HIDE DEF c, least, menu, i
    <3>. QED  BY <2>5, <3>1
  <2>7. (\E x \in Plans(q) : x[l] = i) <=> i \in Eligible(menu) /\ ~(least > q.budget)
    <3>1. ASSUME NEW x \in Plans(q), x[l] = i PROVE i \in Eligible(menu) /\ ~(least > q.budget)
      <4>1. /\ Choice(q, x) /\ Spend(q, x) <= q.budget
            /\ \A k \in DOMAIN q.menus : x[k] \in Eligible(q.menus[k])
        BY <2>1, PlansAre
      <4>2. i \in Eligible(menu)
        BY <2>3, <3>1, <4>1
      <4>3. least <= Spend(q, x)
        BY <2>1, <2>2, <2>3, <3>1, <4>1, <4>2, CheapestWith
      <4>4. Spend(q, x) \in Int /\ q.budget \in Int
        BY <2>1, <4>1, OverTyped DEF RequestTyped
      <4>5. least \in Int
        <5>1. MinimumBudget(q) \in Int /\ LeastCash(menu) \in Int
          BY <2>1, <2>2, <2>3, MinimumIs
        <5>2. Cash(menu, i) \in Int
          BY <2>1, <2>3, <3>1, <4>1, OverTyped
        <5>. QED  BY <5>1, <5>2
      <4>. HIDE DEF least
      <4>. QED  BY <4>1, <4>2, <4>3, <4>4, <4>5
    <3>2. ASSUME i \in Eligible(menu), ~(least > q.budget) PROVE \E x \in Plans(q) : x[l] = i
      <4>1. ~(MinimumBudget(q) - LeastCash(q.menus[l]) + Cash(q.menus[l], i) > q.budget)
        BY <3>2
      <4>. HIDE DEF i, c, p, least
      <4>. QED  BY <2>1, <2>2, <2>3, <3>2, <4>1, AffordablePlanWith
    <3>. QED  BY <3>1, <3>2
  <2>. QED  BY <2>6, <2>7 DEF q
<1>. QED  BY <1>1, AnswersAreComputed, PTL

-----------------------------------------------------------------------------
(* The batch of recommendations: positions that reconcile, proposals of    *)
(* one type each, the ranking of all of them, and what they bring in.      *)

\* Min and Max of a finite set of numbers are in it.
LEMMA FiniteMinMax ==
  ASSUME NEW S \in SUBSET Int, IsFiniteSet(S), S # {}
  PROVE  Min(S) \in Int /\ Max(S) \in Int
<1>. DEFINE f == [x \in S |-> x]
<1>1. \A x \in S : f[x] = x /\ f[x] \in Int
  OBVIOUS
<1>. HIDE DEF f
<1>2. PICK l \in S : \A x \in S : f[l] <= f[x]
  BY <1>1, LeastOfFinite
<1>3. PICK m \in S : \A x \in S : f[x] <= f[m]
  BY <1>1, MostOfFinite
<1>4. \A x \in S : l <= x /\ m >= x
  BY <1>1, <1>2, <1>3
<1>5. Min(S) \in S
  BY <1>4 DEF Min
<1>6. Max(S) \in S
  BY <1>4 DEF Max
<1>. QED  BY <1>5, <1>6

\* The units of lines are a count, those of some of them no more, and of none nothing.
LEMMA LineUnits ==
  ASSUME NEW S, IsFiniteSet(S), \A x \in S : x.qty \in Nat, NEW T \in SUBSET S
  PROVE  /\ Total(S, LAMBDA x : x.qty) \in Nat
         /\ Total(T, LAMBDA x : x.qty) \in Nat
         /\ Total(T, LAMBDA x : x.qty) <= Total(S, LAMBDA x : x.qty)
         /\ S = {} => Total(S, LAMBDA x : x.qty) = 0
<1>. DEFINE f == [x \in S |-> x.qty]  g == [x \in T |-> x.qty]
<1>1. /\ Total(S, LAMBDA x : x.qty) = SumFunctionOnSet(f, S)
      /\ Total(T, LAMBDA x : x.qty) = SumFunctionOnSet(g, T)
  BY Zenon DEF Total, SumFunction
<1>2. (\A x \in S : f[x] \in Nat) /\ \A x \in T : g[x] = f[x] /\ g[x] \in Int /\ g[x] \in Nat
  OBVIOUS
<1>3. IsFiniteSet(T)
  BY FS_Subset
<1>. HIDE DEF f, g
<1>4. SumFunctionOnSet(g, T) = SumFunctionOnSet(f, T)
  BY <1>2, <1>3, SumSame
<1>5. /\ SumFunctionOnSet(f, S) \in Nat /\ SumFunctionOnSet(g, T) \in Nat
      /\ SumFunctionOnSet(f, T) <= SumFunctionOnSet(f, S)
  BY <1>2, <1>3, SumNat
<1>6. S = {} => SumFunctionOnSet(f, S) = 0
  BY SumEmpty
<1>. QED  BY <1>1, <1>4, <1>5, <1>6

\* The window of a history is two days, and what it says of demand are numbers.
LEMMA BasisTyped ==
  ASSUME NEW h, HistoryTyped(h)
  PROVE  LET b == Basis(h) IN
         /\ b.exposure \in Int
         /\ b.exposure > 0 => b.perDay \in Nat
<1>. DEFINE from == WindowOf(h)[1]
            to == WindowOf(h)[2]
            observed == IF from = None THEN {} ELSE Within(h, from, to)
            exposure == IF from = None THEN 0 ELSE to - from + 1
            units == Total(observed, LAMBDA o : o.units)
            perDay == IF exposure = 0 THEN 0 ELSE (100 * units) \div exposure
<1>1. \A o \in h.observations : BucketStart(o.day, h.bucket) \in Int /\ BucketEnd(o.day, h.bucket) \in Int
  BY DEF HistoryTyped, BucketStart, BucketEnd
<1>2. from \in Int /\ to \in Int
  <2>1. CASE h.from # None /\ h.to # None
    <3>1. WindowOf(h) = <<h.from, h.to>>
      BY <2>1 DEF WindowOf
    <3>. QED  BY <3>1 DEF HistoryTyped
  <2>2. CASE ~(h.from # None /\ h.to # None) /\ h.observations = {}
    <3>1. WindowOf(h) = <<None, None>>
      BY <2>2 DEF WindowOf
    <3>. QED  BY <3>1 DEF None
  <2>3. CASE ~(h.from # None /\ h.to # None) /\ h.observations # {}
    <3>. DEFINE S == {BucketStart(o.day, h.bucket) : o \in h.observations}
                E == {BucketEnd(o.day, h.bucket) : o \in h.observations}
                s == [o \in h.observations |-> BucketStart(o.day, h.bucket)]
                e == [o \in h.observations |-> BucketEnd(o.day, h.bucket)]
    <3>1. WindowOf(h) = <<Min(S), Max(E)>>
      BY <2>3 DEF WindowOf
    <3>2. S \in SUBSET Int /\ S # {} /\ E \in SUBSET Int /\ E # {}
      BY <1>1, <2>3
    <3>3. IsFiniteSet(S) /\ IsFiniteSet(E)
      <4>1. S = {s[o] : o \in h.observations} /\ E = {e[o] : o \in h.observations}
        OBVIOUS
      <4>2. IsFiniteSet(h.observations)
        BY DEF HistoryTyped
      <4>. HIDE DEF s, e, S, E
      <4>. QED  BY <4>1, <4>2, ImageFinite
    <3>. HIDE DEF S, E
    <3>4. Min(S) \in Int /\ Max(E) \in Int
      BY <3>2, <3>3, FiniteMinMax
    <3>. QED  BY <3>1, <3>4
  <2>. QED  BY <2>1, <2>2, <2>3
<1>3. Basis(h).exposure = exposure /\ Basis(h).perDay = perDay
  BY Zenon DEF Basis
<1>4. units \in Nat
  <2>. DEFINE f == [o \in observed |-> o.units]
  <2>1. units = SumFunctionOnSet(f, observed)
    BY Zenon DEF Total, SumFunction
  <2>2. observed \subseteq h.observations
    BY DEF Within
  <2>3. IsFiniteSet(observed) /\ \A o \in observed : f[o] \in Nat
    BY <2>2, FS_Subset DEF HistoryTyped
  <2>. HIDE DEF f, observed
  <2>. QED  BY <2>1, <2>3, SumNat
<1>5. exposure \in Int
  BY <1>2
<1>. HIDE DEF exposure, units
<1>6. exposure > 0 => perDay \in Nat
  BY <1>4, <1>5
<1>. HIDE DEF perDay
<1>. QED  BY <1>3, <1>5, <1>6

\* The prices and the lead time of a typed context are numbers.
LEMMA TermsTyped ==
  ASSUME NEW ctx, ContextTyped(ctx)
  PROVE  /\ HasEconomics(ctx) => Economics(ctx).cost \in Int /\ Economics(ctx).moq \in Nat
         /\ LeadDays(ctx) \in Nat
         /\ AvailableUnits(ctx) \in Nat
<1>. DEFINE v == ResolveVendor(ctx, "PO")
<1>1. ASSUME HasEconomics(ctx) PROVE Economics(ctx).cost \in Int /\ Economics(ctx).moq \in Nat
  <2>. HIDE DEF v
  <2>1. v \in DOMAIN ctx.economics \/ DefaultVendor \in DOMAIN ctx.economics
    BY <1>1 DEF HasEconomics, v
  <2>2. PICK d \in DOMAIN ctx.economics : Economics(ctx) = ctx.economics[d]
    BY <2>1 DEF Economics, v
  <2>. QED  BY <2>2 DEF ContextTyped
<1>2. LeadDays(ctx) \in Nat
  <2>. HIDE DEF v
  <2>1. CASE v \in DOMAIN ctx.leads
    BY <2>1 DEF LeadDays, v, ContextTyped
  <2>2. CASE v \notin DOMAIN ctx.leads /\ DefaultVendor \in DOMAIN ctx.leads
    BY <2>2 DEF LeadDays, v, ContextTyped
  <2>3. CASE v \notin DOMAIN ctx.leads /\ DefaultVendor \notin DOMAIN ctx.leads
    BY <2>3 DEF LeadDays, v, ContextTyped
  <2>. QED  BY <2>1, <2>2, <2>3
<1>3. AvailableUnits(ctx) \in Nat
  BY DEF AvailableUnits, Most, ContextTyped
<1>. QED  BY <1>1, <1>2, <1>3

\* A key that is served has prices, days of history and levels.
LEMMA ServedIs ==
  ASSUME NEW ctx, ContextTyped(ctx), SkipReason(ctx) = "served"
  PROVE  /\ HasEconomics(ctx) /\ Basis(ctx.history).exposure > 0
         /\ Basis(ctx.history).perDay \in Nat
         /\ Constrained(ctx, Basis(ctx.history).perDay) # {}
<1>. DEFINE basis == Basis(ctx.history)
<1>1. SkippedWith(ctx, basis) = "served"
  BY DEF SkipReason
<1>2. basis.exposure \in Int /\ (basis.exposure > 0 => basis.perDay \in Nat)
  BY BasisTyped DEF ContextTyped
<1>. HIDE DEF basis
<1>3. Assembles(ctx)
  BY <1>1 DEF SkippedWith
<1>4. HasEconomics(ctx) /\ Economics(ctx).cost \in Int
  BY <1>3, TermsTyped DEF Assembles
<1>. DEFINE cost == Economics(ctx).cost  levels == Constrained(ctx, basis.perDay)
<1>5. SkippedWith(ctx, basis) =
        CASE ~Assembles(ctx) -> "missing_input"
          [] Assembles(ctx) /\ cost <= 0 -> "invalid_unit_cost"
          [] Assembles(ctx) /\ cost > 0 /\ basis.exposure <= 0 -> "demand_history_unavailable"
          [] Assembles(ctx) /\ cost > 0 /\ basis.exposure > 0 /\ levels = {} -> "policy"
          [] OTHER -> "served"
  BY DEF SkippedWith
<1>. HIDE DEF cost, levels
<1>6. cost \in Int
  BY <1>4 DEF cost
<1>7. ~(cost <= 0)
  BY <1>1, <1>3, <1>5, <1>6
<1>8. ~(basis.exposure <= 0)
  BY <1>1, <1>3, <1>5, <1>6, <1>7, <1>2
<1>9. levels # {}
  BY <1>1, <1>3, <1>5, <1>6, <1>7, <1>8, <1>2
<1>. QED  BY <1>2, <1>4, <1>8, <1>9 DEF levels, basis

\* The levels of a key that is served are numbers, and the safety stock is the formula's.
LEMMA LevelsAre ==
  ASSUME NEW ctx, ContextTyped(ctx), SkipReason(ctx) = "served"
  PROVE  /\ LevelsOf(ctx).ss \in Nat
         /\ LevelsOf(ctx).max \in Int
<1>. DEFINE p == Basis(ctx.history).perDay
<1>1. p \in Nat /\ Constrained(ctx, p) # {} /\ HasEconomics(ctx)
  BY ServedIs
<1>2. LevelsOf(ctx) \in Constrained(ctx, p)
  BY <1>1 DEF LevelsOf
<1>. HIDE DEF p
<1>. DEFINE f == ctx.formula
            eoq  == Most(f.eoq, Economics(ctx).moq)
            rop  == Most(f.rop, f.ss)
            free == Most(f.max, rop + eoq)
            life == IF ctx.shelf = 0 THEN free
                    ELSE Least(free, (6 * ctx.shelf * p) \div 1000)
            cap  == IF ctx.hazmat /\ ctx.current.max > 0
                    THEN Least(life, 2 * ctx.current.max) ELSE life
            v == LevelsOf(ctx)
<1>3. v.ss = f.ss /\ v.max = cap
  <2>1. \A x \in Constrained(ctx, p) : x.ss = f.ss /\ x.max = cap
    <3>. DEFINE fl == {x \in {"shelf_life_clamped"} : life < free}
                        \cup {x \in {"hazmat_tool_capped"} : cap < life}
    <3>1. Constrained(ctx, p) =
            IF cap < rop + eoq THEN {}
            ELSE {[rop |-> rop, eoq |-> eoq, ss |-> f.ss, max |-> cap, flags |-> fl]}
      BY Zenon DEF Constrained
    <3>. HIDE DEF rop, eoq, cap, f, fl
    <3>. QED  BY <3>1
  <2>. HIDE DEF cap, v, f
  <2>. QED  BY <1>2, <2>1 DEF v
<1>4. f.ss \in Nat /\ f.eoq \in Nat /\ f.rop \in Nat /\ f.max \in Nat /\ ctx.current.max \in Nat
  BY DEF ContextTyped, LevelsTyped, Fields
<1>5. Economics(ctx).moq \in Nat /\ ctx.shelf \in Nat
  BY <1>1, TermsTyped DEF ContextTyped
<1>6. free \in Int
  BY <1>4, <1>5 DEF Most
<1>7. life \in Int
  <2>1. (6 * ctx.shelf * p) \div 1000 \in Int
    BY <1>1, <1>5
  <2>. HIDE DEF free
  <2>. QED  BY <2>1, <1>6 DEF Least
<1>8. cap \in Int
  <2>. HIDE DEF life
  <2>. QED  BY <1>7, <1>4 DEF Least
<1>. HIDE DEF cap, f
<1>. QED  BY <1>3, <1>4, <1>8

\* The numbers and the states of one key's part of a position.
PartTyped(c) ==
    /\ c.available \in Nat /\ c.receipts \in Nat /\ c.demand \in Nat /\ c.net \in Int
    /\ c.demandUndated \in Nat /\ c.receiptUndated \in Nat

\* One key's part of a position passes its validators.
LEMMA PartReconciles ==
  ASSUME NEW ctx, ContextTyped(ctx), SkipReason(ctx) = "served", NEW k, NEW w \in Nat
  PROVE  LET c == Contribution(ctx, k, w) IN
         PartTyped(c) /\ MemberReconciles(c) /\ c.key = k
<1>. DEFINE c == Contribution(ctx, k, w)
            due == Due(ctx, w)
            late == {o \in Due(ctx, w) : o.due < 0}
            known == ScheduledIn(ctx, w)
            perDay == Basis(ctx.history).perDay
            undatedD == {s \in ctx.scheduled : s.due = None}
            undatedR == {o \in ctx.orders : o.type = "PO" /\ o.due = None}
            receipts == Total(due, LAMBDA o : o.qty)
            overdue == Total(late, LAMBDA o : o.qty)
            scheduled == Total(known, LAMBDA s : s.qty)
            demand == w * perDay + Units(scheduled)
            free == AvailableUnits(ctx)
<1>1. /\ c.key = k /\ c.available = free /\ c.receipts = receipts /\ c.overdue = overdue
      /\ c.scheduled = scheduled /\ c.demand = demand /\ c.net = Units(free + receipts) - demand
      /\ c.demandStatus = ScheduledStatus(ctx) /\ c.demandUndated = Cardinality(undatedD)
      /\ c.receiptStatus = IF ~ctx.ordered THEN "unavailable"
                           ELSE IF undatedR # {} THEN "partial" ELSE "available"
      /\ c.receiptUndated = Cardinality(undatedR)
  BY Zenon DEF Contribution
<1>2. /\ IsFiniteSet(ctx.orders) /\ IsFiniteSet(ctx.scheduled)
      /\ \A x \in ctx.orders \cup ctx.scheduled : x.qty \in Nat
      /\ ctx.ordered \/ ctx.orders = {}
      /\ ctx.requisitioned \/ ctx.scheduled = {}
  BY DEF ContextTyped, LinesTyped
<1>3. receipts \in Nat /\ overdue <= receipts /\ overdue \in Nat /\ (due = {} => receipts = 0)
  <2>1. IsFiniteSet(due) /\ \A x \in due : x.qty \in Nat
    BY <1>2, FS_Subset DEF Due
  <2>2. late \in SUBSET due
    OBVIOUS
  <2>. HIDE DEF due, late
  <2>. QED  BY <2>1, <2>2, LineUnits
<1>4. scheduled \in Nat /\ (known = {} => scheduled = 0)
  <2>1. IsFiniteSet(known) /\ \A x \in known : x.qty \in Nat
    BY <1>2, FS_Subset DEF ScheduledIn
  <2>. HIDE DEF known
  <2>. QED  BY <2>1, LineUnits
<1>5. perDay \in Nat /\ free \in Nat
  BY ServedIs, TermsTyped
<1>6. Cardinality(undatedD) \in Nat /\ (undatedD # {} <=> Cardinality(undatedD) > 0)
  <2>1. IsFiniteSet(undatedD)
    BY <1>2, FS_Subset
  <2>. HIDE DEF undatedD
  <2>. QED  BY <2>1, FS_EmptySet, FS_CardinalityType
<1>7. Cardinality(undatedR) \in Nat /\ (undatedR # {} <=> Cardinality(undatedR) > 0)
  <2>1. IsFiniteSet(undatedR)
    BY <1>2, FS_Subset
  <2>. HIDE DEF undatedR
  <2>. QED  BY <2>1, FS_EmptySet, FS_CardinalityType
<1>8. \/ ScheduledStatus(ctx) = "unavailable" /\ known = {} /\ undatedD = {}
      \/ ScheduledStatus(ctx) = "partial" /\ undatedD # {}
      \/ ScheduledStatus(ctx) = "available" /\ undatedD = {}
  BY <1>2 DEF ScheduledStatus, ScheduledIn
<1>9. ~ctx.ordered => due = {} /\ undatedR = {}
  BY <1>2 DEF Due
<1>. DEFINE rs == IF ~ctx.ordered THEN "unavailable"
                  ELSE IF undatedR # {} THEN "partial" ELSE "available"
<1>10. \/ rs = "unavailable" /\ due = {} /\ undatedR = {}
       \/ rs = "partial" /\ undatedR # {}
       \/ rs = "available" /\ undatedR = {}
  BY <1>9
<1>11. demand \in Nat /\ Units(free + receipts) \in Nat
  <2>1. w * perDay \in Nat
    BY <1>5
  <2>. HIDE DEF receipts, scheduled, perDay, free
  <2>. QED  BY <1>3, <1>4, <1>5, <2>1 DEF Units
<1>12. c.receiptStatus = rs
  BY <1>1
<1>. HIDE DEF c, due, late, known, undatedD, undatedR, receipts, overdue, scheduled, demand, free, rs
<1>13. PartTyped(c)
  <2>. DEFINE u == Units(free + receipts)
  <2>1. u \in Nat /\ c.net = u - demand
    BY <1>1, <1>11
  <2>. HIDE DEF u
  <2>. QED  BY <1>1, <1>3, <1>5, <1>6, <1>7, <1>11, <2>1 DEF PartTyped
<1>14. MemberReconciles(c)
  <2>1. c.overdue <= c.receipts /\ c.net = Units(c.available + c.receipts) - c.demand
    BY <1>1, <1>3
  <2>2. /\ c.demandStatus = "available" => c.demandUndated = 0
        /\ c.demandStatus = "partial" => c.demandUndated > 0
        /\ c.demandStatus = "unavailable" => c.scheduled = 0 /\ c.demandUndated = 0
    BY <1>1, <1>4, <1>6, <1>8
  <2>3. /\ c.receiptStatus = "available" => c.receiptUndated = 0
        /\ c.receiptStatus = "partial" => c.receiptUndated > 0
        /\ c.receiptStatus = "unavailable" => c.receipts = 0 /\ c.receiptUndated = 0
    BY <1>1, <1>3, <1>7, <1>10, <1>12
  <2>. QED  BY <2>1, <2>2, <2>3 DEF MemberReconciles
<1>. QED  BY <1>1, <1>13, <1>14 DEF c

\* The state of a pool is one its members share, or neither.
LEMMA SharedStatus ==
  ASSUME NEW S, S # {}, NEW f, NEW T, \A c \in S : f[c] \in T, \A t \in T : \E c \in S : t = f[c]
  PROVE  /\ AggregateStatus(T) = "available" <=> \A c \in S : f[c] = "available"
         /\ AggregateStatus(T) = "unavailable" <=> \A c \in S : f[c] = "unavailable"
<1>1. T = {"available"} <=> \A c \in S : f[c] = "available"
  OBVIOUS
<1>2. T = {"unavailable"} <=> \A c \in S : f[c] = "unavailable"
  OBVIOUS
<1>3. ~(T = {"available"} /\ T = {"unavailable"})
  <2>. SUFFICES ASSUME T = {"available"}, T = {"unavailable"} PROVE FALSE
    OBVIOUS
  <2>1. "available" \in T /\ "available" \in {"unavailable"}
    OBVIOUS
  <2>. QED  BY <2>1
<1>4. /\ AggregateStatus(T) = "available" <=> T = {"available"}
      /\ AggregateStatus(T) = "unavailable" <=> T = {"unavailable"}
  BY <1>3 DEF AggregateStatus
<1>. QED  BY <1>1, <1>2, <1>4

\* The sums over a pool: its net is what its stock and receipts leave over its demand,
\* and nothing is undated when nothing of any member is.
LEMMA PoolSums ==
  ASSUME NEW parts, IsFiniteSet(parts), \A c \in parts : PartTyped(c) /\ MemberReconciles(c),
         NEW excluded, NEW w
  PROVE  LET np == RollUp(parts, excluded, w) IN
         /\ np.available \in Nat /\ np.receipts \in Nat /\ np.demand \in Nat /\ np.net \in Int
         /\ np.net = Units(np.available + np.receipts) - np.demand
         /\ (\A c \in parts : c.demandUndated = 0) => np.demandUndated = 0
         /\ (\A c \in parts : c.receiptUndated = 0) => np.receiptUndated = 0
<1>. DEFINE np == RollUp(parts, excluded, w)
            net == [c \in parts |-> c.net]
            demand == [c \in parts |-> c.demand]
            free == [c \in parts |-> c.available]
            receipts == [c \in parts |-> c.receipts]
            undatedD == [c \in parts |-> c.demandUndated]
            undatedR == [c \in parts |-> c.receiptUndated]
            sum(f) == SumFunctionOnSet(f, parts)
            both == [c \in parts |-> free[c] + receipts[c]]
            top == 100
            units == [c \in parts |-> top * both[c]]
<1>1. /\ np.net = sum(net) /\ np.demand = sum(demand) /\ np.available = sum(free)
      /\ np.receipts = sum(receipts) /\ np.demandUndated = sum(undatedD)
      /\ np.receiptUndated = sum(undatedR)
  <2>1. /\ np.net = Total(parts, LAMBDA c : c.net) /\ np.demand = Total(parts, LAMBDA c : c.demand)
        /\ np.available = Total(parts, LAMBDA c : c.available)
        /\ np.receipts = Total(parts, LAMBDA c : c.receipts)
        /\ np.demandUndated = Total(parts, LAMBDA c : c.demandUndated)
        /\ np.receiptUndated = Total(parts, LAMBDA c : c.receiptUndated)
    BY Zenon DEF RollUp
  <2>2. /\ sum(net) = Total(parts, LAMBDA c : c.net) /\ sum(demand) = Total(parts, LAMBDA c : c.demand)
        /\ sum(free) = Total(parts, LAMBDA c : c.available)
        /\ sum(receipts) = Total(parts, LAMBDA c : c.receipts)
        /\ sum(undatedD) = Total(parts, LAMBDA c : c.demandUndated)
        /\ sum(undatedR) = Total(parts, LAMBDA c : c.receiptUndated)
    BY Zenon DEF Total, SumFunction
  <2>. HIDE DEF np, net, demand, free, receipts, undatedD, undatedR
  <2>. QED  BY <2>1, <2>2
<1>2. ASSUME NEW c \in parts
      PROVE  /\ free[c] \in Nat /\ receipts[c] \in Nat /\ demand[c] \in Nat /\ net[c] \in Int
             /\ undatedD[c] \in Nat /\ undatedR[c] \in Nat
             /\ both[c] = free[c] + receipts[c] /\ units[c] = 100 * both[c]
             /\ units[c] = net[c] + demand[c]
  <2>1. /\ free[c] = c.available /\ receipts[c] = c.receipts /\ demand[c] = c.demand
        /\ net[c] = c.net /\ undatedD[c] = c.demandUndated /\ undatedR[c] = c.receiptUndated
        /\ both[c] = free[c] + receipts[c] /\ units[c] = 100 * both[c]
    OBVIOUS
  <2>2. PartTyped(c) /\ MemberReconciles(c)
    OBVIOUS
  <2>3. c.net = Units(c.available + c.receipts) - c.demand
    BY <2>2 DEF MemberReconciles
  <2>. HIDE DEF free, receipts, demand, net, undatedD, undatedR, both, units
  <2>. QED  BY <2>1, <2>2, <2>3 DEF PartTyped, Units
<1>3. undatedD = [c \in parts |-> c.demandUndated] /\ undatedR = [c \in parts |-> c.receiptUndated]
  OBVIOUS
<1>. HIDE DEF np, free, receipts, demand, net, undatedD, undatedR, both, units
<1>4. sum(free) \in Nat /\ sum(receipts) \in Nat /\ sum(demand) \in Nat
  BY <1>2, SumNat
<1>5. sum(net) \in Int
  BY <1>2, SumType
<1>6. sum(both) = sum(free) + sum(receipts)
  BY <1>2, SumPlus
<1>7. sum(units) = 100 * sum(both)
  BY <1>2, SumTimes
<1>8. sum(units) = sum(net) + sum(demand)
  BY <1>2, SumPlus
<1>9. /\ (\A c \in parts : c.demandUndated = 0) => sum(undatedD) = 0
      /\ (\A c \in parts : c.receiptUndated = 0) => sum(undatedR) = 0
  BY <1>2, <1>3, SumNat
<1>. HIDE DEF sum
<1>10. sum(net) = Units(sum(free) + sum(receipts)) - sum(demand)
  BY <1>4, <1>5, <1>6, <1>7, <1>8 DEF Units
<1>. QED  BY <1>1, <1>4, <1>5, <1>9, <1>10 DEF np

\* What is rolled up from parts that reconcile does.
LEMMA PoolReconciles ==
  ASSUME NEW parts, IsFiniteSet(parts), parts # {},
         \A c \in parts : PartTyped(c) /\ MemberReconciles(c),
         NEW excluded, \A c \in parts : c.key \notin excluded, NEW w,
         NEW pooled, pooled = TRUE \/ (Cardinality(parts) = 1 /\ excluded = {})
  PROVE  EvidenceReconciles(RollUp(parts, excluded, w), pooled)
<1>. DEFINE np == RollUp(parts, excluded, w)
            ds == [c \in parts |-> c.demandStatus]
            rs == [c \in parts |-> c.receiptStatus]
            demands == {ds[c] : c \in parts}
            supplies == {rs[c] : c \in parts}
<1>1. /\ np.members = parts /\ np.excluded = excluded
      /\ np.demandStatus = AggregateStatus(demands)
      /\ np.receiptStatus = AggregateStatus(supplies)
      /\ np.scope = IF excluded # {} THEN "worklist_partial"
                    ELSE IF Cardinality(parts) > 1 THEN "complete_group" ELSE "single_key"
  <2>1. demands = {c.demandStatus : c \in parts}
    OBVIOUS
  <2>2. supplies = {c.receiptStatus : c \in parts}
    OBVIOUS
  <2>3. /\ np.members = parts /\ np.excluded = excluded
        /\ np.demandStatus = AggregateStatus({c.demandStatus : c \in parts})
        /\ np.receiptStatus = AggregateStatus({c.receiptStatus : c \in parts})
        /\ np.scope = IF excluded # {} THEN "worklist_partial"
                      ELSE IF Cardinality(parts) > 1 THEN "complete_group" ELSE "single_key"
    BY Zenon DEF RollUp
  <2>. HIDE DEF np, demands, supplies
  <2>. QED  BY <2>1, <2>2, <2>3
<1>2. /\ \A c \in parts : ds[c] = c.demandStatus /\ rs[c] = c.receiptStatus
      /\ \A c \in parts : ds[c] \in demands /\ rs[c] \in supplies
      /\ \A t \in demands : \E c \in parts : t = ds[c]
      /\ \A t \in supplies : \E c \in parts : t = rs[c]
  OBVIOUS
<1>3. Cardinality(parts) \in Nat /\ Cardinality(parts) # 0
  BY FS_CardinalityType, FS_EmptySet
<1>4. /\ np.net = Units(np.available + np.receipts) - np.demand
      /\ (\A c \in parts : c.demandUndated = 0) => np.demandUndated = 0
      /\ (\A c \in parts : c.receiptUndated = 0) => np.receiptUndated = 0
  BY PoolSums
<1>. HIDE DEF np, ds, rs, demands, supplies
<1>5. \A state \in {"available", "unavailable"} :
          /\ np.demandStatus = state <=> \A c \in np.members : c.demandStatus = state
          /\ np.receiptStatus = state <=> \A c \in np.members : c.receiptStatus = state
  <2>1. /\ AggregateStatus(demands) = "available" <=> \A c \in parts : ds[c] = "available"
        /\ AggregateStatus(demands) = "unavailable" <=> \A c \in parts : ds[c] = "unavailable"
    <3>1. (\A c \in parts : ds[c] \in demands) /\ \A t \in demands : \E c \in parts : t = ds[c]
      BY <1>2
    <3>. QED  BY <3>1, SharedStatus
  <2>2. /\ AggregateStatus(supplies) = "available" <=> \A c \in parts : rs[c] = "available"
        /\ AggregateStatus(supplies) = "unavailable" <=> \A c \in parts : rs[c] = "unavailable"
    <3>1. (\A c \in parts : rs[c] \in supplies) /\ \A t \in supplies : \E c \in parts : t = rs[c]
      BY <1>2
    <3>. QED  BY <3>1, SharedStatus
  <2>. QED  BY <1>1, <1>2, <2>1, <2>2
<1>6. /\ np.demandStatus = "available" => np.demandUndated = 0
      /\ np.receiptStatus = "available" => np.receiptUndated = 0
  <2>1. \A c \in parts : /\ c.demandStatus = "available" => c.demandUndated = 0
                         /\ c.receiptStatus = "available" => c.receiptUndated = 0
    BY DEF MemberReconciles
  <2>. QED  BY <1>1, <1>4, <1>5, <2>1
<1>7. {c.key : c \in np.members} \cap np.excluded = {}
  BY <1>1
<1>8. /\ np.scope = "worklist_partial" <=> np.excluded # {}
      /\ np.scope = "complete_group" => Cardinality(np.members) > 1
      /\ IF np.scope = "single_key" THEN Cardinality(np.members) = 1 ELSE pooled
  <2>. DEFINE n == Cardinality(parts)  some == excluded # {}
  <2>1. np.scope = IF some THEN "worklist_partial" ELSE IF n > 1 THEN "complete_group" ELSE "single_key"
    BY <1>1
  <2>2. n \in Nat /\ n # 0
    BY <1>3
  <2>3. pooled = TRUE \/ (n = 1 /\ ~some)
    OBVIOUS
  <2>. HIDE DEF n, some
  <2>4. CASE some
    BY <2>1, <2>3, <2>4, <1>1 DEF n, some
  <2>5. CASE ~some /\ n > 1
    <3>1. np.scope = "complete_group"
      BY <2>1, <2>5
    <3>2. pooled = TRUE
      BY <2>3, <2>5
    <3>. QED  BY <3>1, <3>2, <2>5, <1>1 DEF n, some
  <2>6. CASE ~some /\ ~(n > 1)
    <3>1. np.scope = "single_key" /\ n = 1
      BY <2>1, <2>2, <2>6
    <3>. QED  BY <3>1, <2>6, <1>1 DEF n, some
  <2>. QED  BY <2>4, <2>5, <2>6
<1>9. np.members # {} /\ \A c \in np.members : MemberReconciles(c)
  BY <1>1
<1>. QED  BY <1>4, <1>5, <1>6, <1>7, <1>8, <1>9 DEF EvidenceReconciles, np

\* A position that passes its validators, of numbers.
SoundPosition(np, pooled) ==
    /\ EvidenceReconciles(np, pooled)
    /\ np.net \in Int /\ np.demand \in Nat /\ np.available \in Nat
    /\ np.shortage = Most(0, -np.net)

\* The position of served keys does.
LEMMA PositionReconciles ==
  ASSUME NEW contexts, NEW pool, IsFiniteSet(pool), pool # {},
         \A k \in pool : ContextTyped(contexts[k]) /\ SkipReason(contexts[k]) = "served",
         NEW excluded, pool \cap excluded = {}, NEW w \in Nat,
         NEW pooled, pooled = TRUE \/ (Cardinality(pool) = 1 /\ excluded = {})
  PROVE  SoundPosition(NetPosition(contexts, pool, excluded, w), pooled)
<1>. DEFINE part == [k \in pool |-> Contribution(contexts[k], k, w)]
            parts == {part[k] : k \in pool}
            np == NetPosition(contexts, pool, excluded, w)
<1>1. \A k \in pool : PartTyped(part[k]) /\ MemberReconciles(part[k]) /\ part[k].key = k
  <2>. SUFFICES ASSUME NEW k \in pool
                PROVE  LET c == Contribution(contexts[k], k, w) IN
                       PartTyped(c) /\ MemberReconciles(c) /\ c.key = k
    OBVIOUS
  <2>. QED  BY PartReconciles
<1>2. np = RollUp(parts, excluded, w)
  <2>1. parts = {Contribution(contexts[k], k, w) : k \in pool}
    OBVIOUS
  <2>. HIDE DEF parts
  <2>. QED  BY <2>1 DEF NetPosition
<1>. HIDE DEF part
<1>3. IsFiniteSet(parts) /\ parts # {} /\ Cardinality(parts) = Cardinality(pool)
  <2>1. \A k, m \in pool : part[k] = part[m] => k = m
    BY <1>1
  <2>. QED  BY <2>1, ImageFinite, CardinalityOfDistinct
<1>4. \A c \in parts : PartTyped(c) /\ MemberReconciles(c) /\ c.key \notin excluded
  BY <1>1
<1>5. np.shortage = Most(0, -np.net)
  <2>. HIDE DEF parts
  <2>. DEFINE r == RollUp(parts, excluded, w)
  <2>1. r.net = Total(parts, LAMBDA c : c.net) /\ r.shortage = Most(0, -Total(parts, LAMBDA c : c.net))
    BY Zenon DEF RollUp
  <2>2. np = r
    BY <1>2
  <2>. HIDE DEF r
  <2>. QED  BY <2>1, <2>2
<1>. HIDE DEF parts, np
<1>6. EvidenceReconciles(RollUp(parts, excluded, w), pooled)
  BY <1>3, <1>4, PoolReconciles
<1>7. np.net \in Int /\ np.demand \in Nat /\ np.available \in Nat
  <2>1. \A c \in parts : PartTyped(c) /\ MemberReconciles(c)
    BY <1>4
  <2>. QED  BY <1>2, <1>3, <2>1, PoolSums
<1>. QED  BY <1>2, <1>5, <1>6, <1>7 DEF np, SoundPosition

\* The keys expected in a pool are finitely many, of one location, and the key is one.
LEMMA ExpectedIs ==
  ASSUME NEW c, WorkListTyped(c), NEW k \in DOMAIN c.contexts
  PROVE  /\ k = <<k[1], k[2]>> /\ k[1] \in Nat /\ k[2] \in Nat
         /\ IsFiniteSet(Expected(c.graphs, k)) /\ k \in Expected(c.graphs, k)
         /\ \A m \in Expected(c.graphs, k) : m = <<m[1], k[2]>>
<1>1. k = <<k[1], k[2]>> /\ k[1] \in Nat /\ k[2] \in Nat
  BY DEF WorkListTyped
<1>2. CASE k[1] \notin DOMAIN c.graphs
  <2>1. Expected(c.graphs, k) = {k}
    BY <1>2 DEF Expected
  <2>. QED  BY <1>1, <2>1, FS_Singleton
<1>3. CASE k[1] \in DOMAIN c.graphs
  <2>. DEFINE g == c.graphs[k[1]]
              both == {e \in g.edges : ~e.oneWay}
              f == [e \in both |-> e.from]
              t == [e \in both |-> e.to]
              key == [pn \in TwoWay(g) |-> <<pn, k[2]>>]
  <2>1. g.pn = k[1] /\ IsFiniteSet(g.edges) /\ IsFiniteSet(g.members)
    BY <1>3 DEF WorkListTyped, GraphTyped
  <2>. HIDE DEF g
  <2>2. IsFiniteSet(both)
    BY <2>1, FS_Subset
  <2>. HIDE DEF both
  <2>3. IsFiniteSet({f[e] : e \in both}) /\ IsFiniteSet({t[e] : e \in both})
    BY <2>2, ImageFinite
  <2>4. {f[e] : e \in both} = {e.from : e \in both} /\ {t[e] : e \in both} = {e.to : e \in both}
    OBVIOUS
  <2>. DEFINE F == {e.from : e \in both}  T == {e.to : e \in both}
              rest == IF g.edges = {} THEN g.members ELSE {}
  <2>5. TwoWay(g) = ({g.pn} \cup F) \cup (T \cup rest)
    BY DEF TwoWay, both
  <2>6. IsFiniteSet(F) /\ IsFiniteSet(T) /\ IsFiniteSet(rest) /\ IsFiniteSet({g.pn})
    BY <2>1, <2>3, <2>4, FS_EmptySet, FS_Singleton
  <2>. HIDE DEF F, T, rest
  <2>7. IsFiniteSet(TwoWay(g)) /\ g.pn \in TwoWay(g)
    <3>1. IsFiniteSet({g.pn} \cup F) /\ IsFiniteSet(T \cup rest)
      BY <2>6, FS_Union
    <3>. QED  BY <2>5, <3>1, FS_Union
  <2>8. Expected(c.graphs, k) = {<<pn, k[2]>> : pn \in TwoWay(g)}
    BY <1>3 DEF Expected, g
  <2>9. {key[pn] : pn \in TwoWay(g)} = {<<pn, k[2]>> : pn \in TwoWay(g)}
    OBVIOUS
  <2>. HIDE DEF key
  <2>10. IsFiniteSet({key[pn] : pn \in TwoWay(g)})
    BY <2>7, ImageFinite
  <2>11. IsFiniteSet(Expected(c.graphs, k))
    BY <2>8, <2>9, <2>10
  <2>12. k \in Expected(c.graphs, k)
    BY <1>1, <2>1, <2>7, <2>8
  <2>13. \A m \in Expected(c.graphs, k) : m = <<m[1], k[2]>>
    BY <2>8
  <2>. QED  BY <1>1, <2>11, <2>12, <2>13
<1>. QED  BY <1>2, <1>3

\* A pool is of served keys, the key is in it, and it is the key alone or in a group.
LEMMA PoolIs ==
  ASSUME NEW c, WorkListTyped(c), NEW served \in SUBSET DOMAIN c.contexts, NEW k \in served
  PROVE  LET pool == PoolOf(c.graphs, served, k)
             members == Members(c.graphs, served, k)
             expected == Expected(c.graphs, k) IN
         /\ IsFiniteSet(pool) /\ k \in pool /\ pool \subseteq served /\ pool \subseteq expected
         /\ IsFiniteSet(members)
         /\ members = pool \/ (pool = {k} /\ Cardinality(members) <= 1)
         /\ k[1] \notin DOMAIN c.graphs => Cardinality(pool) = 1
         /\ k[1] \notin DOMAIN c.graphs => expected \ pool = {}
<1>. DEFINE pool == PoolOf(c.graphs, served, k)
            members == Members(c.graphs, served, k)
            expected == Expected(c.graphs, k)
<1>1. IsFiniteSet(expected) /\ k \in expected
  BY ExpectedIs
<1>2. members \subseteq served \cap expected
  BY DEF Members
<1>3. k[1] \in DOMAIN c.graphs => k \in members
  BY <1>1 DEF Members
<1>4. k[1] \notin DOMAIN c.graphs => expected = {k}
  BY DEF Expected
<1>5. pool = IF Cardinality(expected) > 1 THEN members ELSE {k}
  BY DEF PoolOf
<1>6. Cardinality({k}) = 1 /\ IsFiniteSet({k})
  BY FS_Singleton
<1>. HIDE DEF pool, members, expected
<1>7. IsFiniteSet(members) /\ Cardinality(members) <= Cardinality(expected)
      /\ Cardinality(members) \in Nat /\ Cardinality(expected) \in Nat
  <2>1. members \subseteq expected
    BY <1>2
  <2>. QED  BY <1>1, <2>1, FS_Subset, FS_CardinalityType
<1>8. CASE Cardinality(expected) > 1
  <2>1. pool = members /\ k[1] \in DOMAIN c.graphs
    BY <1>4, <1>5, <1>6, <1>8
  <2>. QED  BY <1>2, <1>3, <1>7, <2>1 DEF pool, members, expected
<1>9. CASE ~(Cardinality(expected) > 1)
  <2>1. pool = {k} /\ Cardinality(members) <= 1
    BY <1>5, <1>7, <1>9
  <2>. QED  BY <1>1, <1>4, <1>6, <1>7, <2>1 DEF pool, members, expected
<1>. QED  BY <1>8, <1>9

\* Served keys are keys of the work list, with contexts that are typed.
LEMMA ServedKeys ==
  ASSUME NEW c, WorkListTyped(c)
  PROVE  /\ Served(c.contexts) \in SUBSET DOMAIN c.contexts
         /\ \A k \in Served(c.contexts) :
               ContextTyped(c.contexts[k]) /\ SkipReason(c.contexts[k]) = "served"
BY DEF Served, WorkListTyped

\* The call of a key is made of these.
LEMMA CallFields ==
  ASSUME NEW c, NEW served, NEW k, NEW call, call = CallAmong(c, served, k)
  PROVE  /\ call.key = k /\ call.ctx = c.contexts[k] /\ call.levels = LevelsOf(c.contexts[k])
         /\ call.pool = PoolOf(c.graphs, served, k) /\ call.members = Members(c.graphs, served, k)
         /\ call.window = Most(LeadDays(c.contexts[k]), c.horizon) /\ call.horizon = c.horizon
BY Zenon DEF CallAmong, CallOver

\* The call of a part that has a group is pooled.
LEMMA CallPooled ==
  ASSUME NEW c, NEW served, NEW k, NEW call, call = CallAmong(c, served, k)
  PROVE  k[1] \in DOMAIN c.graphs => call.pooled = TRUE
BY Zenon DEF CallAmong, CallOver

\* The three positions of a call reconcile, and its numbers are numbers.
LEMMA CallIs ==
  ASSUME NEW c, WorkListTyped(c), NEW k \in Served(c.contexts)
  PROVE  LET call == CallAmong(c, Served(c.contexts), k) IN
         /\ SoundPosition(call.net, call.pooled)
         /\ SoundPosition(call.own, call.pooled) /\ SoundPosition(call.near, call.pooled)
         /\ call.window \in Nat
         /\ \A d \in call.donors : /\ d[2] \in Nat \ {None}
                              /\ call.excess[d] \in Nat /\ call.excess[d] > 0
<1>. DEFINE served == Served(c.contexts)
            call == CallAmong(c, served, k)
            pool == PoolOf(c.graphs, served, k)
            rest == Expected(c.graphs, k) \ pool
            w == Most(LeadDays(c.contexts[k]), c.horizon)
<1>1. /\ served \in SUBSET DOMAIN c.contexts
      /\ \A m \in served : ContextTyped(c.contexts[m]) /\ SkipReason(c.contexts[m]) = "served"
  BY ServedKeys
<1>2. /\ call.net = NetPosition(c.contexts, pool, rest, w)
      /\ call.own = NetPosition(c.contexts, {k}, {}, w)
      /\ call.near = NetPosition(c.contexts, {k}, {}, c.horizon)
      /\ call.window = w
      /\ call.donors = {d \in DOMAIN c.contexts :
                           /\ d[1] = k[1] /\ d[2] # k[2] /\ Assembles(c.contexts[d])
                           /\ AvailableUnits(c.contexts[d]) > c.contexts[d].current.max}
      /\ call.excess = [d \in DOMAIN c.contexts |->
                           AvailableUnits(c.contexts[d]) - c.contexts[d].current.max]
  <2>. HIDE DEF served
  <2>. QED  BY Zenon DEF CallAmong, CallOver, OwnPosition
<1>3. w \in Nat /\ c.horizon \in Nat
  BY <1>1, TermsTyped DEF Most, WorkListTyped
<1>4. call.pooled = TRUE \/ (Cardinality(pool) = 1 /\ rest = {})
  <2>1. k[1] \in DOMAIN c.graphs => call.pooled = TRUE
    BY CallPooled
  <2>2. k[1] \notin DOMAIN c.graphs => Cardinality(pool) = 1
    BY <1>1, PoolIs
  <2>3. k[1] \notin DOMAIN c.graphs => rest = {}
    BY <1>1, PoolIs
  <2>. QED  BY <2>1, <2>2, <2>3
<1>5. IsFiniteSet(pool) /\ pool # {} /\ pool \subseteq served
  BY <1>1, PoolIs
<1>6. IsFiniteSet({k}) /\ Cardinality({k}) = 1
  BY FS_Singleton
<1>7. pool \cap rest = {}
  OBVIOUS
<1>. HIDE DEF served, pool, rest, w, call
<1>8. SoundPosition(call.net, call.pooled)
  <2>1. \A m \in pool : ContextTyped(c.contexts[m]) /\ SkipReason(c.contexts[m]) = "served"
    BY <1>1, <1>5
  <2>2. SoundPosition(NetPosition(c.contexts, pool, rest, w), call.pooled)
    BY <1>3, <1>4, <1>5, <1>7, <2>1, PositionReconciles, Zenon
  <2>. QED  BY <1>2, <2>2
<1>9. SoundPosition(call.own, call.pooled) /\ SoundPosition(call.near, call.pooled)
  <2>1. \A m \in {k} : ContextTyped(c.contexts[m]) /\ SkipReason(c.contexts[m]) = "served"
    BY <1>1 DEF served
  <2>2. call.pooled = TRUE \/ (Cardinality({k}) = 1 /\ {} = {})
    BY <1>6
  <2>3. {k} # {} /\ {k} \cap {} = {}
    OBVIOUS
  <2>4. SoundPosition(NetPosition(c.contexts, {k}, {}, w), call.pooled)
    BY <1>3, <1>6, <2>1, <2>2, <2>3, PositionReconciles, Zenon
  <2>5. SoundPosition(NetPosition(c.contexts, {k}, {}, c.horizon), call.pooled)
    BY <1>3, <1>6, <2>1, <2>2, <2>3, PositionReconciles, Zenon
  <2>. QED  BY <1>2, <2>4, <2>5
<1>10. \A d \in call.donors : /\ d[2] \in Nat \ {None}
                              /\ call.excess[d] \in Nat /\ call.excess[d] > 0
  <2>. SUFFICES ASSUME NEW d \in call.donors
                PROVE  d[2] \in Nat \ {None} /\ call.excess[d] \in Nat /\ call.excess[d] > 0
    OBVIOUS
  <2>1. /\ d \in DOMAIN c.contexts /\ AvailableUnits(c.contexts[d]) > c.contexts[d].current.max
        /\ call.excess[d] = AvailableUnits(c.contexts[d]) - c.contexts[d].current.max
    BY <1>2
  <2>2. AvailableUnits(c.contexts[d]) \in Nat /\ c.contexts[d].current.max \in Nat
    BY <2>1, TermsTyped DEF WorkListTyped, ContextTyped, LevelsTyped, Fields
  <2>3. d[2] \in Nat \ {None}
    BY <2>1 DEF WorkListTyped
  <2>. QED  BY <2>1, <2>2, <2>3
<1>. QED  BY <1>2, <1>3, <1>8, <1>9, <1>10 DEF call, served

\* The numbers of a call.
CallTyped(call) ==
    /\ SoundPosition(call.net, call.pooled)
    /\ SoundPosition(call.own, call.pooled) /\ SoundPosition(call.near, call.pooled)
    /\ \A d \in call.donors : /\ d[2] \in Nat \ {None}
                              /\ call.excess[d] \in Nat /\ call.excess[d] > 0
    /\ Economics(call.ctx).cost \in Int /\ Economics(call.ctx).moq \in Nat
    /\ call.levels.ss \in Nat /\ call.levels.max \in Int
    /\ LeadDays(call.ctx) \in Nat /\ ContextTyped(call.ctx)

\* The call of a key that is served has the types above.
LEMMA CallsTyped ==
  ASSUME NEW c, WorkListTyped(c), NEW k \in Served(c.contexts)
  PROVE  CallTyped(CallAmong(c, Served(c.contexts), k))
<1>. DEFINE call == CallAmong(c, Served(c.contexts), k)
<1>1. call.ctx = c.contexts[k] /\ call.levels = LevelsOf(c.contexts[k])
  BY CallFields
<1>2. /\ SoundPosition(call.net, call.pooled)
      /\ SoundPosition(call.own, call.pooled) /\ SoundPosition(call.near, call.pooled)
      /\ \A d \in call.donors : /\ d[2] \in Nat \ {None}
                              /\ call.excess[d] \in Nat /\ call.excess[d] > 0
  BY CallIs
<1>. HIDE DEF call
<1>3. ContextTyped(call.ctx) /\ SkipReason(call.ctx) = "served"
  BY <1>1, ServedKeys
<1>4. /\ Economics(call.ctx).cost \in Int /\ Economics(call.ctx).moq \in Nat
      /\ LeadDays(call.ctx) \in Nat
  BY <1>3, ServedIs, TermsTyped
<1>5. call.levels.ss \in Nat /\ call.levels.max \in Int
  <2>1. LevelsOf(call.ctx).ss \in Nat /\ LevelsOf(call.ctx).max \in Int
    BY <1>3, LevelsAre
  <2>. QED  BY <1>1, <2>1
<1>6. CallTyped(call)
  BY <1>2, <1>3, <1>4, <1>5 DEF CallTyped
<1>. QED  BY <1>6 DEF call

\* The columns of a recommendation before it is finalized.
Columns == {"key", "type", "qty", "cost", "shortage", "evidence", "change", "donor", "flags"}

\* Of a call, with numbers for what it costs and covers.
Proposal(call, r) ==
    /\ DOMAIN r = Columns /\ r.key = call.key
    /\ r.qty \in Int /\ r.cost \in Int /\ r.shortage \in Int

\* On a position of the call: what is brought in on that of the pool, what goes on that of
\* the key; of something that is moved, and from somewhere if it is fetched.
RestsOn(call, r) ==
    /\ r.evidence \in {call.own, call.near, call.net}
    /\ r.type \in Inbound => r.evidence = call.net
    /\ r.type \in Outbound => r.evidence = call.near
    /\ r.type # "ADJUST" => r.qty > 0
    /\ r.type = "TRANSFER" => r.donor # None

\* A recommendation holds what it is made of.
LEMMA RecommendationIs ==
  ASSUME NEW call, NEW type, NEW qty \in Int, NEW cost \in Int, NEW shortage \in Int, NEW net,
         NEW change, NEW donor, NEW flags
  PROVE  LET r == Recommendation(call, type, qty, cost, shortage, net, change, donor, flags) IN
         /\ Proposal(call, r) /\ r.type = type /\ r.qty = qty /\ r.shortage = shortage
         /\ r.evidence = net /\ r.donor = donor
<1>. DEFINE r == Recommendation(call, type, qty, cost, shortage, net, change, donor, flags)
<1>1. /\ r.key = call.key /\ r.type = type /\ r.qty = qty /\ r.cost = cost /\ r.shortage = shortage
      /\ r.evidence = net /\ r.donor = donor /\ DOMAIN r = Columns
  BY DEF Recommendation, Columns
<1>. HIDE DEF r
<1>2. Proposal(call, r)
  BY <1>1 DEF Proposal
<1>. QED  BY <1>1, <1>2 DEF r

\* The levels are adjusted once or not at all.
LEMMA AdjustIs ==
  ASSUME NEW call, CallTyped(call)
  PROVE  /\ \A r \in AdjustMinMax(call) : Proposal(call, r) /\ RestsOn(call, r) /\ r.type = "ADJUST"
         /\ \A r, s \in AdjustMinMax(call) : r = s
<1>. DEFINE new == call.levels
            old == call.ctx.current
            change == {<<IF new[f] < old[f] THEN old[f] - new[f] ELSE new[f] - old[f],
                         Most(old[f], 1)>> : f \in Fields}
            stock  == call.own.available
                        + Total(Due(call.ctx, call.window), LAMBDA o : o.qty)
            flags == {x \in {"delta_gt_100pct"} : \E d \in change : d[1] > d[2]}
                       \cup {x \in {"open_order_deferral"} :
                               call.own.receiptStatus # "available" \/ stock > new.max}
            cost == 25 * (new.max - old.max) * Economics(call.ctx).cost
            little == \A d \in change : 100 * d[1] <= 5 * d[2]
            rec == Recommendation(call, "ADJUST", new.max, cost, 0, call.own, change, None, flags)
<1>1. AdjustMinMax(call) = IF little THEN {} ELSE {rec}
  BY Zenon DEF AdjustMinMax
<1>2. new.max \in Int /\ cost \in Int
  <2>1. new.max \in Int /\ old.max \in Nat /\ Economics(call.ctx).cost \in Int
    BY DEF CallTyped, ContextTyped, LevelsTyped, Fields
  <2>. HIDE DEF new, old
  <2>. QED  BY <2>1
<1>. HIDE DEF new, change, flags, cost, little
<1>3. Proposal(call, rec) /\ rec.type = "ADJUST" /\ rec.evidence = call.own
  BY <1>2, RecommendationIs
<1>. HIDE DEF rec
<1>4. RestsOn(call, rec)
  BY <1>3 DEF RestsOn, Inbound, Outbound
<1>. QED  BY <1>1, <1>3, <1>4

\* What is above the levels goes once or not at all.
LEMMA ReduceIs ==
  ASSUME NEW call, CallTyped(call)
  PROVE  /\ \A r \in ReduceSell(call) : Proposal(call, r) /\ RestsOn(call, r) /\ r.type \in Outbound
         /\ \A r, s \in ReduceSell(call) : r = s
<1>. DEFINE ctx    == call.ctx
            limit  == Most(call.levels.max, ctx.current.max)
            excess == ctx.serviceable - limit
            unused == Basis(ctx.history).units = 0
            idle   == 2 * ctx.serviceable > 3 * limit /\ unused /\ Highvalue(ctx)
            type   == IF unused /\ ScheduledIn(ctx, call.horizon) = {} /\ Highvalue(ctx)
                      THEN "SELL" ELSE "REDUCE"
            cost == -25 * excess * Economics(ctx).cost
            goes == /\ ScheduledStatus(ctx) = "available"
                    /\ idle \/ ctx.shelf > 0
                    /\ excess > 0
            rec == Recommendation(call, type, excess, cost, 0, call.near, {}, None, {})
<1>1. ReduceSell(call) = IF goes THEN {rec} ELSE {}
  BY Zenon DEF ReduceSell
<1>2. excess \in Int /\ cost \in Int
  <2>1. /\ call.levels.max \in Int /\ ctx.current.max \in Nat /\ Economics(ctx).cost \in Int
        /\ ctx.serviceable \in Nat
    BY DEF CallTyped, ContextTyped, LevelsTyped, Fields
  <2>2. excess \in Int
    BY <2>1 DEF Most
  <2>. HIDE DEF excess, ctx
  <2>. QED  BY <2>1, <2>2
<1>3. type \in Outbound /\ (goes => excess > 0)
  BY DEF Outbound
<1>. HIDE DEF ctx, excess, cost, type, goes
<1>4. /\ Proposal(call, rec) /\ rec.type = type /\ rec.qty = excess
      /\ rec.evidence = call.near
  BY <1>2, RecommendationIs
<1>. HIDE DEF rec
<1>5. goes => RestsOn(call, rec)
  BY <1>3, <1>4 DEF RestsOn, Inbound, Outbound
<1>. QED  BY <1>1, <1>3, <1>4, <1>5

\* A shortage is bought in full, with the safety stock.
LEMMA PurchaseIs ==
  ASSUME NEW call, CallTyped(call)
  PROVE  /\ \A r \in Purchase(call) :
               /\ Proposal(call, r) /\ RestsOn(call, r) /\ r.type = "PURCHASE"
               /\ r.shortage = call.net.shortage
               /\ r.qty = Most(Economics(call.ctx).moq,
                               Ceil(call.net.shortage + Units(call.levels.ss)))
         /\ \A r, s \in Purchase(call) : r = s
         /\ Purchase(call) # {} <=> call.net.net < 0
<1>. DEFINE e   == Economics(call.ctx)
            qty == Most(e.moq, Ceil(call.net.shortage + Units(call.levels.ss)))
            cost == 100 * qty * e.cost
            rec == Recommendation(call, "PURCHASE", qty, cost, call.net.shortage,
                     call.net, {<<call.net.shortage, call.net.demand>>}, None, {})
<1>1. Purchase(call) = IF call.net.net >= 0 THEN {} ELSE {rec}
  BY Zenon DEF Purchase
<1>2. call.net.net \in Int /\ call.net.shortage = Most(0, -call.net.net)
  BY DEF CallTyped, SoundPosition
<1>3. call.net.shortage \in Int
  BY <1>2 DEF Most
<1>4. qty \in Int /\ cost \in Int
  <2>1. e.moq \in Nat /\ e.cost \in Int /\ call.levels.ss \in Nat
    BY DEF CallTyped
  <2>2. qty \in Int
    BY <1>3, <2>1 DEF Most, Ceil, Units
  <2>. HIDE DEF qty, e
  <2>. QED  BY <2>1, <2>2
<1>5. call.net.net < 0 => qty > 0
  <2>1. e.moq \in Nat /\ call.levels.ss \in Nat
    BY DEF CallTyped
  <2>2. call.net.net < 0 => call.net.shortage > 0
    BY <1>2 DEF Most
  <2>. HIDE DEF e
  <2>3. call.net.net < 0 => Ceil(call.net.shortage + Units(call.levels.ss)) \in Nat \ {0}
    BY <1>3, <2>1, <2>2 DEF Ceil, Units
  <2>. QED  BY <2>1, <2>3 DEF Most
<1>. HIDE DEF qty, cost
<1>6. /\ Proposal(call, rec) /\ rec.type = "PURCHASE" /\ rec.evidence = call.net
      /\ rec.qty = qty /\ rec.shortage = call.net.shortage
  BY <1>3, <1>4, RecommendationIs
<1>. HIDE DEF rec
<1>7. call.net.net < 0 => RestsOn(call, rec)
  BY <1>5, <1>6 DEF RestsOn, Outbound
<1>. QED  BY <1>1, <1>2, <1>6, <1>7 DEF qty

\* A transfer brings the shortage, rounded up, or what the donor has too much of.
LEMMA TransferIs ==
  ASSUME NEW call, CallTyped(call)
  PROVE  /\ \A r \in Transfer(call) :
               /\ Proposal(call, r) /\ RestsOn(call, r) /\ r.type = "TRANSFER"
               /\ r.shortage = call.net.shortage /\ call.net.shortage > 0
               /\ r.qty > 0 /\ r.qty <= Whole(call.net.shortage) + 1
         /\ \A r, s \in Transfer(call) : r = s
<1>. DEFINE donor == CHOOSE d \in call.donors : \A x \in call.donors : d[2] <= x[2]
            qty   == Least(Whole(call.net.shortage) + 1, call.excess[donor])
            cost == 100 * qty * Economics(call.ctx).cost
            no == call.net.shortage = 0 \/ call.donors = {} \/ LeadDays(call.ctx) < 3
            rec == Recommendation(call, "TRANSFER", qty, cost,
                     call.net.shortage, call.net,
                     {<<call.net.shortage, call.net.demand>>}, donor[2], {})
<1>1. Transfer(call) = IF no THEN {} ELSE {rec}
  BY Zenon DEF Transfer
<1>2. call.net.net \in Int /\ call.net.shortage = Most(0, -call.net.net)
  BY DEF CallTyped, SoundPosition
<1>3. call.net.shortage \in Nat
  BY <1>2 DEF Most
<1>. SUFFICES ASSUME ~no
              PROVE  /\ Proposal(call, rec) /\ RestsOn(call, rec) /\ rec.type = "TRANSFER"
                     /\ rec.shortage = call.net.shortage /\ call.net.shortage > 0
                     /\ rec.qty > 0 /\ rec.qty <= Whole(call.net.shortage) + 1
  <2>. HIDE DEF rec, no
  <2>. QED  BY <1>1
<1>4. PICK d \in call.donors : donor = d
  <2>1. {x[2] : x \in call.donors} \in SUBSET Nat /\ {x[2] : x \in call.donors} # {}
    BY DEF CallTyped
  <2>2. PICK n \in {x[2] : x \in call.donors} : \A y \in {x[2] : x \in call.donors} : n <= y
    BY <2>1, LeastNat
  <2>3. PICK x \in call.donors : x[2] = n
    BY <2>2
  <2>4. \A y \in call.donors : x[2] <= y[2]
    BY <2>2, <2>3
  <2>5. donor \in call.donors
    BY <2>4
  <2>. QED  BY <2>5
<1>5. call.excess[donor] \in Nat /\ call.excess[donor] > 0 /\ donor[2] # None
  BY <1>4 DEF CallTyped
<1>. HIDE DEF donor
<1>6. call.net.shortage > 0
  BY <1>3
<1>7. qty \in Int /\ qty > 0 /\ qty <= Whole(call.net.shortage) + 1
  BY <1>3, <1>5 DEF Least, Whole
<1>. HIDE DEF qty
<1>8. cost \in Int
  BY <1>7 DEF CallTyped
<1>. HIDE DEF cost, no
<1>9. /\ Proposal(call, rec) /\ rec.type = "TRANSFER" /\ rec.evidence = call.net
      /\ rec.qty = qty /\ rec.shortage = call.net.shortage /\ rec.donor = donor[2]
  BY <1>3, <1>7, <1>8, RecommendationIs
<1>. HIDE DEF rec
<1>10. RestsOn(call, rec)
  BY <1>5, <1>7, <1>9 DEF RestsOn, Outbound
<1>. QED  BY <1>6, <1>7, <1>9, <1>10

Types == {"PURCHASE", "TRANSFER", "ADJUST", "REDUCE", "SELL"}

\* What is proposed for a key: at most one of each type, and none that brings a part in
\* unless the pool is short.
LEMMA ProposedAre ==
  ASSUME NEW call, CallTyped(call)
  PROVE  /\ \A r \in Proposed(call) :
               /\ Proposal(call, r) /\ RestsOn(call, r) /\ r.type \in Types
               /\ r.type \in Inbound => call.net.net < 0
         /\ \A r, s \in Proposed(call) : r.type = s.type => r = s
<1>1. \A r \in Proposed(call) : \/ r \in AdjustMinMax(call) \/ r \in ReduceSell(call)
                                \/ r \in Purchase(call) \/ r \in Transfer(call)
  BY DEF Proposed
<1>2. call.net.net \in Int /\ call.net.shortage = Most(0, -call.net.net)
  BY DEF CallTyped, SoundPosition
<1>3. call.net.shortage > 0 => call.net.net < 0
  BY <1>2 DEF Most
<1>4. \A r \in AdjustMinMax(call) : Proposal(call, r) /\ RestsOn(call, r) /\ r.type = "ADJUST"
  BY AdjustIs
<1>5. \A r \in ReduceSell(call) : Proposal(call, r) /\ RestsOn(call, r) /\ r.type \in Outbound
  BY ReduceIs
<1>6. \A r \in Purchase(call) :
         /\ Proposal(call, r) /\ RestsOn(call, r) /\ r.type = "PURCHASE" /\ call.net.net < 0
  BY PurchaseIs
<1>7. \A r \in Transfer(call) :
         /\ Proposal(call, r) /\ RestsOn(call, r) /\ r.type = "TRANSFER" /\ call.net.net < 0
  BY <1>3, TransferIs
<1>8. /\ \A r, s \in AdjustMinMax(call) : r = s
      /\ \A r, s \in ReduceSell(call) : r = s
      /\ \A r, s \in Purchase(call) : r = s
      /\ \A r, s \in Transfer(call) : r = s
  BY AdjustIs, ReduceIs, PurchaseIs, TransferIs
<1>9. \A r \in Proposed(call) :
         /\ Proposal(call, r) /\ RestsOn(call, r) /\ r.type \in Types
         /\ r.type \in Inbound => call.net.net < 0
  BY <1>1, <1>4, <1>5, <1>6, <1>7 DEF Types, Inbound, Outbound
<1>10. ASSUME NEW r \in Proposed(call), NEW s \in Proposed(call), r.type = s.type PROVE r = s
  <2>1. CASE r \in AdjustMinMax(call)
    <3>1. s \in AdjustMinMax(call)
      BY <2>1, <1>1, <1>4, <1>5, <1>6, <1>7, <1>10 DEF Outbound
    <3>. QED  BY <2>1, <3>1, <1>8
  <2>2. CASE r \in ReduceSell(call)
    <3>1. s \in ReduceSell(call)
      BY <2>2, <1>1, <1>4, <1>5, <1>6, <1>7, <1>10 DEF Outbound
    <3>. QED  BY <2>2, <3>1, <1>8
  <2>3. CASE r \in Purchase(call)
    <3>1. s \in Purchase(call)
      BY <2>3, <1>1, <1>4, <1>5, <1>6, <1>7, <1>10 DEF Outbound
    <3>. QED  BY <2>3, <3>1, <1>8
  <2>4. CASE r \in Transfer(call)
    <3>1. s \in Transfer(call)
      BY <2>4, <1>1, <1>4, <1>5, <1>6, <1>7, <1>10 DEF Outbound
    <3>. QED  BY <2>4, <3>1, <1>8
  <2>. QED  BY <1>1, <2>1, <2>2, <2>3, <2>4
<1>. QED  BY <1>9, <1>10

\* No batch is refused for its evidence.
LEMMA NeverRaised ==
  ASSUME NEW c, WorkListTyped(c)
  PROVE  /\ ~Run(c).raised
         /\ Run(c).ranked = Ranked(UNION {RecommendKey(call) : call \in Calls(c, Served(c.contexts))},
                                   [k \in {call.key : call \in Calls(c, Served(c.contexts))} |->
                                       c.contexts[k].crit])
<1>. DEFINE calls == Calls(c, Served(c.contexts))
            sound == \A call \in calls : \A r \in Proposed(call) :
                        EvidenceReconciles(r.evidence, call.pooled)
<1>1. sound
  <2>. SUFFICES ASSUME NEW k \in Served(c.contexts),
                       NEW r \in Proposed(CallAmong(c, Served(c.contexts), k))
                PROVE  EvidenceReconciles(r.evidence, CallAmong(c, Served(c.contexts), k).pooled)
    BY DEF Calls
  <2>. DEFINE call == CallAmong(c, Served(c.contexts), k)
  <2>1. CallTyped(call) /\ r \in Proposed(call)
    BY CallsTyped
  <2>. HIDE DEF call
  <2>2. RestsOn(call, r)
    BY <2>1, ProposedAre
  <2>3. EvidenceReconciles(r.evidence, call.pooled)
    BY <2>1, <2>2 DEF RestsOn, CallTyped, SoundPosition
  <2>. QED  BY <2>3 DEF call
<1>2. Run(c) = Batch(c, calls)
  BY DEF Run
<1>. HIDE DEF calls
<1>3. /\ Batch(c, calls).raised = FALSE
      /\ Batch(c, calls).ranked = Ranked(UNION {RecommendKey(call) : call \in calls},
                                   [k \in {call.key : call \in calls} |-> c.contexts[k].crit])
  BY <1>1, Zenon DEF Batch
<1>. QED  BY <1>2, <1>3 DEF calls

\* The evidence of a recommendation passes the validators of its contract, whatever is
\* missing, undated, pooled or left out of the work list, so that no key takes the batch
\* of its tenant with it (position/net_position.py, contracts/recommendation.py).
THEOREM AcceptedEvidence ==
    AlgorithmSpec => []EvidenceIsAccepted
<1>1. Typed(case) /\ Answers => EvidenceIsAccepted
  <2>. SUFFICES ASSUME Typed(case), Answers, Computed("batch") PROVE ~result.raised
    BY DEF EvidenceIsAccepted
  <2>1. WorkListTyped(case) /\ result = Run(case)
    BY DEF Typed, Answers, Computed
  <2>. QED  BY <2>1, NeverRaised
<1>. QED  BY <1>1, AnswersAreComputed, PTL

\* A strict total order of a set, and how many come before each.
StrictOrder(S, R) ==
    /\ IsFiniteSet(S)
    /\ \A x, y, z \in S : <<x, y>> \in R /\ <<y, z>> \in R => <<x, z>> \in R
    /\ \A x \in S : <<x, x>> \notin R
    /\ \A x, y \in S : x # y => <<x, y>> \in R \/ <<y, x>> \in R

PlacesIn(S, R, before, place) ==
    \A r \in S : /\ before[r] \subseteq S
                 /\ \A x \in S : x \in before[r] <=> <<x, r>> \in R
                 /\ place[r] = Cardinality(before[r])

EachPlaceTaken(S, place) ==
    /\ \A r, s \in S : place[r] = place[s] => r = s
    /\ \A r \in S : place[r] \in Nat /\ place[r] + 1 \in 1..Cardinality(S)
    /\ \A i \in 1..Cardinality(S) : \E r \in S : place[r] = i - 1

\* A subset with as many elements as a finite set is all of it.
LEMMA FullSubset ==
  ASSUME NEW A, NEW B, IsFiniteSet(B), A \subseteq B, Cardinality(A) = Cardinality(B)
  PROVE  A = B
BY FS_Subset

\* In a finite strict total order every place is taken, each by one.
LEMMA EveryPlaceIsTaken ==
  ASSUME NEW S, NEW R, NEW before, NEW place, StrictOrder(S, R), PlacesIn(S, R, before, place)
  PROVE  EachPlaceTaken(S, place)
<1>. USE DEF StrictOrder, PlacesIn, EachPlaceTaken
<1>. DEFINE n == Cardinality(S)
<1>1. \A r \in S : IsFiniteSet(before[r]) /\ place[r] = Cardinality(before[r]) /\ place[r] \in Nat
  BY FS_Subset, FS_CardinalityType
<1>2. n \in Nat
  BY FS_CardinalityType
<1>3. ASSUME NEW r \in S, NEW s \in S, <<r, s>> \in R PROVE place[r] < place[s]
  <2>1. before[r] \subseteq before[s] /\ r \in before[s] /\ r \notin before[r]
    BY <1>3
  <2>2. before[r] # before[s]
    BY <2>1
  <2>3. Cardinality(before[r]) <= Cardinality(before[s]) /\ Cardinality(before[r]) # Cardinality(before[s])
    BY <1>1, <2>1, <2>2, FS_Subset
  <2>. QED  BY <1>1, <2>3
<1>4. ASSUME NEW r \in S, NEW s \in S, place[r] = place[s] PROVE r = s
  <2>1. ~(<<r, s>> \in R) /\ ~(<<s, r>> \in R)
    BY <1>1, <1>3, <1>4
  <2>. QED  BY <2>1
<1>5. ASSUME NEW r \in S PROVE place[r] \in 0..(n - 1)
  <2>0. before[r] \subseteq S /\ (r \in before[r] <=> <<r, r>> \in R) /\ <<r, r>> \notin R
    OBVIOUS
  <2>1. before[r] \subseteq S /\ before[r] # S
    BY <2>0
  <2>2. Cardinality(before[r]) <= n /\ Cardinality(before[r]) # n
    BY <2>1, FS_Subset
  <2>. QED  BY <1>1, <1>2, <2>2
<1>. DEFINE T == {place[r] : r \in S}
<1>6. T \subseteq 0..(n - 1)
  BY <1>5
<1>. HIDE DEF n
<1>7. Cardinality(T) = n
  BY <1>4, CardinalityOfDistinct DEF n
<1>8. IsFiniteSet(0..(n - 1)) /\ Cardinality(0..(n - 1)) = n
  <2>1. 0 \in Int /\ n - 1 \in Int
    BY <1>2
  <2>2. /\ IsFiniteSet(0..(n - 1))
        /\ Cardinality(0..(n - 1)) = IF 0 > n - 1 THEN 0 ELSE (n - 1) - 0 + 1
    BY <2>1, FS_Interval
  <2>. QED  BY <1>2, <2>2
<1>9. T = 0..(n - 1)
  <2>. DEFINE U == 0..(n - 1)
  <2>1. T \subseteq U /\ IsFiniteSet(U) /\ Cardinality(T) = Cardinality(U)
    BY <1>6, <1>7, <1>8
  <2>. HIDE DEF T, U
  <2>2. T = U
    BY <2>1, FullSubset
  <2>. QED  BY <2>2 DEF U
<1>10. \A i \in 1..n : \E r \in S : place[r] = i - 1
  <2>. SUFFICES ASSUME NEW i \in 1..n PROVE \E r \in S : place[r] = i - 1
    OBVIOUS
  <2>0. i - 1 \in 0..(n - 1)
    BY <1>2
  <2>1. i - 1 \in T
    BY <1>9, <2>0, Zenon
  <2>. QED  BY <2>1
<1>11. \A r \in S : place[r] + 1 \in 1..n
  BY <1>2, <1>5
<1>12. \A r, s \in S : place[r] = place[s] => r = s
  BY <1>4
<1>13. \A r \in S : place[r] \in Nat /\ place[r] + 1 \in 1..Cardinality(S)
  BY <1>1, <1>11 DEF n
<1>14. \A i \in 1..Cardinality(S) : \E r \in S : place[r] = i - 1
  BY <1>10 DEF n
<1>. QED  BY <1>12, <1>13, <1>14

\* What the places are compared by.
Order(r, crit) == <<-r.score, crit[r.key], r.key[1], TypeOrder[r.type], r.key[2]>>

\* Five numbers, compared one after the other.
LEMMA FiveCompared ==
  ASSUME NEW p, NEW q
  PROVE  (\E i \in 1..5 : p[i] < q[i] /\ \A j \in 1..(i - 1) : p[j] = q[j])
           <=> \/ p[1] < q[1]
               \/ p[1] = q[1] /\ p[2] < q[2]
               \/ p[1] = q[1] /\ p[2] = q[2] /\ p[3] < q[3]
               \/ p[1] = q[1] /\ p[2] = q[2] /\ p[3] = q[3] /\ p[4] < q[4]
               \/ p[1] = q[1] /\ p[2] = q[2] /\ p[3] = q[3] /\ p[4] = q[4] /\ p[5] < q[5]
<1>. DEFINE F(i) == p[i] < q[i] /\ \A j \in 1..(i - 1) : p[j] = q[j]
<1>1. \A i \in 1..5 : i \in {1, 2, 3, 4, 5}
  OBVIOUS
<1>2. /\ F(1) <=> p[1] < q[1]
      /\ F(2) <=> p[1] = q[1] /\ p[2] < q[2]
      /\ F(3) <=> p[1] = q[1] /\ p[2] = q[2] /\ p[3] < q[3]
  <2>1. 1..(1 - 1) = {} /\ 1..(2 - 1) = {1} /\ 1..(3 - 1) = {1, 2}
    OBVIOUS
  <2>. QED  BY <2>1
<1>3. /\ F(4) <=> p[1] = q[1] /\ p[2] = q[2] /\ p[3] = q[3] /\ p[4] < q[4]
      /\ F(5) <=> p[1] = q[1] /\ p[2] = q[2] /\ p[3] = q[3] /\ p[4] = q[4] /\ p[5] < q[5]
  <2>1. 1..(4 - 1) = {1, 2, 3} /\ 1..(5 - 1) = {1, 2, 3, 4}
    OBVIOUS
  <2>. QED  BY <2>1
<1>4. (\E i \in 1..5 : F(i)) <=> (F(1) \/ F(2) \/ F(3) \/ F(4) \/ F(5))
  <2>1. 1 \in 1..5 /\ 2 \in 1..5 /\ 3 \in 1..5 /\ 4 \in 1..5 /\ 5 \in 1..5
    OBVIOUS
  <2>2. ASSUME NEW i \in 1..5, F(i) PROVE F(1) \/ F(2) \/ F(3) \/ F(4) \/ F(5)
    <3>1. i = 1 \/ i = 2 \/ i = 3 \/ i = 4 \/ i = 5
      BY <1>1
    <3>. HIDE DEF F
    <3>. QED  BY <2>2, <3>1
  <2>. HIDE DEF F
  <2>. QED  BY <2>1, <2>2
<1>. HIDE DEF F
<1>. QED  BY <1>2, <1>3, <1>4 DEF F

\* What can be ranked: finitely many, at most one for a key and a type.
Rankable(recs, crit) ==
    /\ IsFiniteSet(recs)
    /\ \A r \in recs : /\ r.score \in Int /\ crit[r.key] \in Int
                       /\ r.key \in Nat \X Nat /\ r.type \in Types
    /\ \A r, s \in recs : r.key = s.key /\ r.type = s.type => r = s

\* The places are compared by five numbers that differ.
LEMMA OrderTyped ==
  ASSUME NEW recs, NEW crit, Rankable(recs, crit)
  PROVE  /\ \A r \in recs : \A i \in {1, 2, 3, 4, 5} : Order(r, crit)[i] \in Int
         /\ \A r, s \in recs : /\ Order(r, crit)[3] = Order(s, crit)[3]
                               /\ Order(r, crit)[4] = Order(s, crit)[4]
                               /\ Order(r, crit)[5] = Order(s, crit)[5]
                               => r = s
<1>1. \A t \in Types : TypeOrder[t] \in Int
  BY DEF Types, TypeOrder
<1>2. \A t, u \in Types : TypeOrder[t] = TypeOrder[u] => t = u
  BY DEF Types, TypeOrder
<1>3. ASSUME NEW r \in recs
      PROVE  /\ Order(r, crit)[1] = -r.score /\ Order(r, crit)[2] = crit[r.key]
             /\ Order(r, crit)[3] = r.key[1] /\ Order(r, crit)[4] = TypeOrder[r.type]
             /\ Order(r, crit)[5] = r.key[2]
  BY DEF Order
<1>4. ASSUME NEW r \in recs PROVE \A i \in {1, 2, 3, 4, 5} : Order(r, crit)[i] \in Int
  <2>1. /\ -r.score \in Int /\ crit[r.key] \in Int /\ r.key[1] \in Int /\ r.key[2] \in Int
        /\ TypeOrder[r.type] \in Int
    BY <1>1 DEF Rankable
  <2>. QED  BY <1>3, <2>1
<1>5. ASSUME NEW r \in recs, NEW s \in recs, Order(r, crit)[3] = Order(s, crit)[3],
             Order(r, crit)[4] = Order(s, crit)[4], Order(r, crit)[5] = Order(s, crit)[5]
      PROVE  r = s
  <2>1. r.key[1] = s.key[1] /\ r.key[2] = s.key[2] /\ TypeOrder[r.type] = TypeOrder[s.type]
    BY <1>3, <1>5
  <2>2. r.key \in Nat \X Nat /\ s.key \in Nat \X Nat /\ r.type \in Types /\ s.type \in Types
    BY DEF Rankable
  <2>3. r.key = s.key /\ r.type = s.type
    BY <1>2, <2>1, <2>2
  <2>. QED  BY <2>3 DEF Rankable
<1>. QED  BY <1>4, <1>5

\* What is ranked is what there was to rank, each once.
LEMMA RankedAre ==
  ASSUME NEW recs, NEW crit, Rankable(recs, crit)
  PROVE  {Ranked(recs, crit)[i] : i \in DOMAIN Ranked(recs, crit)} = recs
<1>. DEFINE o(r) == Order(r, crit)
            R == {p \in recs \X recs : RankedBefore(p[1], p[2], crit)}
            n == Cardinality(recs)
            ranked == Ranked(recs, crit)
            before == [r \in recs |-> {x \in recs : RankedBefore(x, r, crit)}]
            place == [r \in recs |-> Cardinality({x \in recs : RankedBefore(x, r, crit)})]
<1>1. ASSUME NEW r \in recs, NEW s \in recs
      PROVE  <<r, s>> \in R
               <=> \/ o(r)[1] < o(s)[1]
                   \/ o(r)[1] = o(s)[1] /\ o(r)[2] < o(s)[2]
                   \/ o(r)[1] = o(s)[1] /\ o(r)[2] = o(s)[2] /\ o(r)[3] < o(s)[3]
                   \/ /\ o(r)[1] = o(s)[1] /\ o(r)[2] = o(s)[2] /\ o(r)[3] = o(s)[3]
                      /\ o(r)[4] < o(s)[4]
                   \/ /\ o(r)[1] = o(s)[1] /\ o(r)[2] = o(s)[2] /\ o(r)[3] = o(s)[3]
                      /\ o(r)[4] = o(s)[4] /\ o(r)[5] < o(s)[5]
  <2>1. <<r, s>> \in R <=> RankedBefore(r, s, crit)
    OBVIOUS
  <2>. HIDE DEF R
  <2>2. RankedBefore(r, s, crit)
          <=> \E i \in 1..5 : o(r)[i] < o(s)[i] /\ \A j \in 1..(i - 1) : o(r)[j] = o(s)[j]
    BY Zenon DEF RankedBefore, Order
  <2>. HIDE DEF o
  <2>. QED  BY <2>1, <2>2, FiveCompared
<1>2. \A r \in recs : /\ o(r)[1] \in Int /\ o(r)[2] \in Int /\ o(r)[3] \in Int
                      /\ o(r)[4] \in Int /\ o(r)[5] \in Int
  BY OrderTyped
<1>3. \A r, s \in recs : o(r)[3] = o(s)[3] /\ o(r)[4] = o(s)[4] /\ o(r)[5] = o(s)[5] => r = s
  BY OrderTyped
<1>4. /\ \A r \in recs : before[r] \subseteq recs /\ \A x \in recs : x \in before[r] <=> <<x, r>> \in R
      /\ \A r \in recs : place[r] = Cardinality(before[r])
  OBVIOUS
<1>. HIDE DEF R, o
<1>5. \A x, y, z \in recs : <<x, y>> \in R /\ <<y, z>> \in R => <<x, z>> \in R
  <2>. SUFFICES ASSUME NEW x \in recs, NEW y \in recs, NEW z \in recs,
                       <<x, y>> \in R, <<y, z>> \in R
                PROVE  <<x, z>> \in R
    OBVIOUS
  <2>. QED  BY <1>1, <1>2
<1>6. \A x \in recs : <<x, x>> \notin R
  BY <1>1, <1>2
<1>7. \A x, y \in recs : x # y => <<x, y>> \in R \/ <<y, x>> \in R
  <2>. SUFFICES ASSUME NEW x \in recs, NEW y \in recs, x # y, ~(<<x, y>> \in R)
                PROVE  <<y, x>> \in R
    OBVIOUS
  <2>1. ~(o(x)[3] = o(y)[3] /\ o(x)[4] = o(y)[4] /\ o(x)[5] = o(y)[5])
    BY <1>3
  <2>. QED  BY <1>1, <1>2, <2>1
<1>8. /\ \A r, s \in recs : place[r] = place[s] => r = s
      /\ \A r \in recs : place[r] \in Nat /\ place[r] + 1 \in 1..n
      /\ \A i \in 1..n : \E r \in recs : place[r] = i - 1
  <2>1. StrictOrder(recs, R)
    BY <1>5, <1>6, <1>7 DEF Rankable, StrictOrder
  <2>. HIDE DEF before, place
  <2>2. PlacesIn(recs, R, before, place)
    BY <1>4 DEF PlacesIn
  <2>3. EachPlaceTaken(recs, place)
    <3>. HIDE DEF n, ranked
    <3>. QED  BY <2>1, <2>2, EveryPlaceIsTaken
  <2>. QED  BY <2>3 DEF EachPlaceTaken
<1>9. ranked = [i \in 1..n |->
                  CHOOSE r \in recs : Cardinality({x \in recs : RankedBefore(x, r, crit)}) = i - 1]
  BY DEF Ranked
<1>10. \A i \in 1..n : ranked[i] \in recs /\ place[ranked[i]] = i - 1
  <2>. SUFFICES ASSUME NEW i \in 1..n PROVE ranked[i] \in recs /\ place[ranked[i]] = i - 1
    OBVIOUS
  <2>1. \E r \in recs : Cardinality({x \in recs : RankedBefore(x, r, crit)}) = i - 1
    BY <1>8
  <2>. DEFINE s == CHOOSE r \in recs : Cardinality({x \in recs : RankedBefore(x, r, crit)}) = i - 1
  <2>2. s \in recs /\ Cardinality({x \in recs : RankedBefore(x, s, crit)}) = i - 1
    BY <2>1
  <2>3. ranked[i] = s
    <3>. HIDE DEF ranked
    <3>. QED  BY <1>9
  <2>. HIDE DEF s, ranked
  <2>. QED  BY <2>2, <2>3
<1>. HIDE DEF place, n, ranked
<1>11. \A i \in 1..n : ranked[i] \in recs
  BY <1>10
<1>12. \A r \in recs : r = ranked[place[r] + 1]
  <2>. SUFFICES ASSUME NEW r \in recs PROVE r = ranked[place[r] + 1]
    OBVIOUS
  <2>. DEFINE i == place[r] + 1
  <2>1. i \in 1..n /\ place[r] = i - 1
    BY <1>8
  <2>. HIDE DEF i
  <2>2. ranked[i] \in recs /\ place[ranked[i]] = i - 1
    BY <1>10, <2>1
  <2>. QED  BY <1>8, <2>1, <2>2 DEF i
<1>13. DOMAIN ranked = 1..n
  BY <1>9
<1>14. {ranked[i] : i \in DOMAIN ranked} = recs
  BY <1>8, <1>11, <1>12, <1>13
<1>. QED  BY <1>14 DEF ranked

\* What brings a part in is proposed by the first of a pool.
LEMMA InboundIs ==
  ASSUME NEW call, CallTyped(call)
  PROVE  /\ \A r \in Proposed(call) : r.type = "TRANSFER" => r \in Transfer(call)
         /\ \A r \in Proposed(call) : r.type = "PURCHASE" => r \in Purchase(call)
         /\ Representative(call) => Purchase(call) \subseteq Proposed(call)
                                    /\ Transfer(call) \subseteq Proposed(call)
         /\ ~Representative(call) => \A r \in Proposed(call) : r.type \notin Inbound
<1>1. \A r \in AdjustMinMax(call) : r.type \notin Inbound
  BY AdjustIs DEF Inbound
<1>2. \A r \in ReduceSell(call) : r.type \notin Inbound
  BY ReduceIs DEF Inbound, Outbound
<1>3. \A r \in Purchase(call) : r.type = "PURCHASE"
  BY PurchaseIs
<1>4. \A r \in Transfer(call) : r.type = "TRANSFER"
  BY TransferIs
<1>5. "TRANSFER" \in Inbound /\ "PURCHASE" \in Inbound /\ "TRANSFER" # "PURCHASE"
  BY DEF Inbound
<1>6. CASE Representative(call)
  <2>1. Proposed(call) = AdjustMinMax(call) \cup ReduceSell(call)
                           \cup Purchase(call) \cup Transfer(call)
    BY <1>6 DEF Proposed
  <2>. QED  BY <1>1, <1>2, <1>3, <1>4, <1>5, <1>6, <2>1
<1>7. CASE ~Representative(call)
  <2>1. Proposed(call) = AdjustMinMax(call) \cup ReduceSell(call)
    BY <1>7 DEF Proposed
  <2>. QED  BY <1>1, <1>2, <1>5, <1>7, <2>1
<1>. QED  BY <1>6, <1>7

\* The units a transfer moves.
Moved(recs) == Total({r \in recs : r.type = "TRANSFER"}, LAMBDA r : r.qty)

\* What a key's proposals fetch from elsewhere is what its transfer, if any, fetches.
LEMMA MovedIs ==
  ASSUME NEW call, CallTyped(call), NEW recs \in SUBSET Proposed(call)
  PROVE  /\ (\A r \in recs : r.type # "TRANSFER") => Moved(recs) = 0
         /\ \A r \in recs : r.type = "TRANSFER" => Moved(recs) = r.qty
         /\ Moved(recs) \in Nat
<1>. DEFINE T == {r \in recs : r.type = "TRANSFER"}
            f == [r \in T |-> r.qty]
<1>1. Moved(recs) = SumFunctionOnSet(f, T)
  BY Zenon DEF Moved, Total, SumFunction
<1>2. ASSUME \A r \in recs : r.type # "TRANSFER" PROVE Moved(recs) = 0
  <2>1. T = {}
    BY <1>2
  <2>. HIDE DEF f, T
  <2>. QED  BY <1>1, <2>1, SumEmpty
<1>3. ASSUME NEW r \in recs, r.type = "TRANSFER" PROVE Moved(recs) = r.qty /\ r.qty \in Nat
  <2>1. \A s \in recs : s.type = "TRANSFER" => s = r
    BY <1>3, ProposedAre
  <2>2. T = {r}
    BY <1>3, <2>1
  <2>3. Proposal(call, r) /\ r.qty > 0
    <3>1. r \in Transfer(call)
      BY <1>3, InboundIs
    <3>. QED  BY <3>1, TransferIs
  <2>4. f[r] = r.qty /\ r.qty \in Int
    BY <2>2, <2>3 DEF Proposal
  <2>. HIDE DEF f, T
  <2>5. SumFunctionOnSet(f, {r}) = f[r]
    BY <2>4, SumOne
  <2>. QED  BY <1>1, <2>2, <2>3, <2>4, <2>5
<1>. QED  BY <1>2, <1>3

\* What is left to buy once a transfer has been made.
LeftToBuy(call, recs, r) ==
    [r EXCEPT !.qty = Most(Economics(call.ctx).moq, Ceil(r.shortage - Units(Moved(recs)))),
              !.shortage = r.shortage - Units(Moved(recs)),
              !.cost = 100 * Most(Economics(call.ctx).moq, Ceil(r.shortage - Units(Moved(recs))))
                         * Economics(call.ctx).cost,
              !.change = {<<r.shortage - Units(Moved(recs)), call.net.demand>>}]

\* After a transfer, of a purchase only what is still short is left.
LEMMA ResidualIs ==
  ASSUME NEW call, NEW recs
  PROVE  Residual(call, recs) =
           IF Moved(recs) = 0 THEN recs
           ELSE {r \in recs : r.type # "PURCHASE"} \cup
                {LeftToBuy(call, recs, r) :
                   r \in {x \in recs : x.type = "PURCHASE" /\ x.shortage - Units(Moved(recs)) > 0}}
BY Zenon DEF Residual, Moved, LeftToBuy

\* What is left to buy is a proposal for what the transfer leaves short.
LEMMA LeftToBuyIs ==
  ASSUME NEW call, CallTyped(call), NEW recs \in SUBSET Proposed(call),
         NEW r \in recs, r.type = "PURCHASE"
  PROVE  LET s == LeftToBuy(call, recs, r)
             left == call.net.shortage - Units(Moved(recs)) IN
         /\ Proposal(call, s) /\ s.type = "PURCHASE" /\ left \in Int
         /\ left > 0 => RestsOn(call, s)
         /\ s.qty = Most(Economics(call.ctx).moq, Ceil(left))
<1>. DEFINE s == LeftToBuy(call, recs, r)
            left == r.shortage - Units(Moved(recs))
            qty == Most(Economics(call.ctx).moq, Ceil(left))
            cost == 100 * qty * Economics(call.ctx).cost
<1>1. r \in Purchase(call)
  BY InboundIs
<1>2. Proposal(call, r) /\ RestsOn(call, r) /\ r.shortage = call.net.shortage
  BY <1>1, PurchaseIs
<1>3. left \in Int
  <2>1. r.shortage \in Int /\ Moved(recs) \in Nat
    BY <1>2, MovedIs DEF Proposal
  <2>. QED  BY <2>1 DEF Units
<1>4. s = [r EXCEPT !.qty = qty, !.shortage = left, !.cost = cost,
                    !.change = {<<left, call.net.demand>>}]
  BY Zenon DEF LeftToBuy
<1>. HIDE DEF left, s
<1>5. qty \in Int /\ cost \in Int
  <2>1. Economics(call.ctx).cost \in Int /\ Economics(call.ctx).moq \in Nat
    BY DEF CallTyped
  <2>2. qty \in Int
    BY <1>3, <2>1 DEF Most, Ceil
  <2>. HIDE DEF qty
  <2>. QED  BY <2>1, <2>2
<1>6. left > 0 => qty > 0
  <2>1. Economics(call.ctx).moq \in Nat
    BY DEF CallTyped
  <2>2. left > 0 => Ceil(left) \in Nat \ {0}
    BY <1>3 DEF Ceil
  <2>. QED  BY <2>1, <2>2 DEF Most
<1>. HIDE DEF qty, cost
<1>7. DOMAIN r = Columns /\ r.key = call.key /\ r.evidence = call.net
  BY <1>2 DEF Proposal, RestsOn, Inbound
<1>8. /\ DOMAIN s = Columns /\ s.key = call.key /\ s.type = "PURCHASE"
      /\ s.qty = qty /\ s.cost = cost /\ s.shortage = left /\ s.evidence = call.net
  BY <1>4, <1>7 DEF Columns
<1>9. Proposal(call, s)
  BY <1>3, <1>5, <1>8 DEF Proposal
<1>10. left > 0 => RestsOn(call, s)
  BY <1>6, <1>8 DEF RestsOn, Outbound
<1>. QED  BY <1>2, <1>3, <1>8, <1>9, <1>10 DEF s, left, qty

\* What is arbitrated: nothing is given away where the pool is short.
Kept(call) ==
    IF call.net.net < 0 THEN {r \in Proposed(call) : r.type \notin Outbound} ELSE Proposed(call)

\* Arbitration first drops what a shortage forbids, then reduces the purchase.
LEMMA ArbitrateIs ==
  ASSUME NEW call
  PROVE  Arbitrate(call, Proposed(call)) = Residual(call, Kept(call))
BY Zenon DEF Arbitrate, Kept

\* What is recommended for a key: at most one of each type, what brings a part in only where
\* the pool is short, and what gives it away only where it is not.
LEMMA ArbitratedAre ==
  ASSUME NEW call, CallTyped(call)
  PROVE  /\ \A r \in Arbitrate(call, Proposed(call)) :
               /\ Proposal(call, r) /\ RestsOn(call, r) /\ r.type \in Types
               /\ r.type \in Inbound => call.net.net < 0
               /\ r.type \in Outbound => ~(call.net.net < 0)
               /\ r.type \in Inbound => Representative(call)
         /\ \A r, s \in Arbitrate(call, Proposed(call)) : r.type = s.type => r = s
<1>. DEFINE K == Kept(call)
            B == {x \in K : x.type = "PURCHASE" /\ x.shortage - Units(Moved(K)) > 0}
            left == [r \in K |-> LeftToBuy(call, K, r)]
<1>1. K \in SUBSET Proposed(call) /\ \A r \in K : r.type \in Outbound => ~(call.net.net < 0)
  BY DEF Kept
<1>2. /\ \A r \in K : /\ Proposal(call, r) /\ RestsOn(call, r) /\ r.type \in Types
                      /\ r.type \in Inbound => call.net.net < 0
      /\ \A r, s \in K : r.type = s.type => r = s
  BY <1>1, ProposedAre
<1>3. \A r \in K : r.type \in Inbound => Representative(call)
  BY <1>1, InboundIs
<1>4. \A r \in B : /\ r \in K /\ r.type = "PURCHASE"
                   /\ Proposal(call, left[r]) /\ RestsOn(call, left[r])
                   /\ left[r].type = "PURCHASE"
  <2>. SUFFICES ASSUME NEW r \in B
                PROVE  /\ Proposal(call, left[r]) /\ RestsOn(call, left[r])
                       /\ left[r].type = "PURCHASE"
    OBVIOUS
  <2>1. r \in K /\ r.type = "PURCHASE" /\ r.shortage - Units(Moved(K)) > 0
    OBVIOUS
  <2>. HIDE DEF B, K
  <2>2. r.shortage = call.net.shortage
    BY <1>1, <2>1, InboundIs, PurchaseIs
  <2>3. /\ Proposal(call, LeftToBuy(call, K, r)) /\ RestsOn(call, LeftToBuy(call, K, r))
        /\ LeftToBuy(call, K, r).type = "PURCHASE"
    BY <1>1, <2>1, <2>2, LeftToBuyIs
  <2>. QED  BY <2>1, <2>3
<1>5. "PURCHASE" \in Inbound /\ "PURCHASE" \in Types /\ "PURCHASE" \notin Outbound
  BY DEF Inbound, Types, Outbound
<1>6. Arbitrate(call, Proposed(call)) =
        IF Moved(K) = 0 THEN K
        ELSE {r \in K : r.type # "PURCHASE"} \cup {left[r] : r \in B}
  <2>1. {LeftToBuy(call, K, r) : r \in B} = {left[r] : r \in B}
    OBVIOUS
  <2>. HIDE DEF left
  <2>. QED  BY <2>1, ArbitrateIs, ResidualIs
<1>. HIDE DEF K, B, left
<1>7. CASE Moved(K) = 0
  BY <1>1, <1>2, <1>3, <1>6, <1>7
<1>8. CASE Moved(K) # 0
  <2>. DEFINE D == {r \in K : r.type # "PURCHASE"}
              E == {left[r] : r \in B}
  <2>1. Arbitrate(call, Proposed(call)) = D \cup E
    BY <1>6, <1>8
  <2>2. \A r \in D : r \in K /\ r.type # "PURCHASE"
    OBVIOUS
  <2>3. \A r \in E : /\ Proposal(call, r) /\ RestsOn(call, r) /\ r.type = "PURCHASE"
                     /\ \E b \in B : r = left[b]
    BY <1>4
  <2>4. \A r, s \in E : r = s
    BY <1>2, <1>4, <2>3
  <2>5. E # {} => call.net.net < 0 /\ Representative(call)
    BY <1>2, <1>3, <1>4, <1>5
  <2>. HIDE DEF D, E
  <2>6. \A r \in D \cup E :
           /\ Proposal(call, r) /\ RestsOn(call, r) /\ r.type \in Types
           /\ r.type \in Inbound => call.net.net < 0
           /\ r.type \in Outbound => ~(call.net.net < 0)
           /\ r.type \in Inbound => Representative(call)
    BY <1>1, <1>2, <1>3, <1>5, <2>2, <2>3, <2>5
  <2>7. \A r, s \in D \cup E : r.type = s.type => r = s
    BY <1>2, <2>2, <2>3, <2>4
  <2>. QED  BY <2>1, <2>6, <2>7
<1>. QED  BY <1>7, <1>8

\* What a recommendation keeps when it is finalized.
LEMMA FinalIs ==
  ASSUME NEW call, NEW r
  PROVE  /\ Finalized(call, r).key = r.key /\ Finalized(call, r).type = r.type
         /\ Finalized(call, r).qty = r.qty /\ Finalized(call, r).evidence = r.evidence
         /\ Finalized(call, r).donor = r.donor
         /\ Finalized(call, r).score =
              (6 - call.ctx.crit)
                * (1 + RiskLevel(call.ctx, r.shortage > 0 \/ call.net.shortage > 0))
                * (IF r.cost < 0 THEN -r.cost ELSE r.cost)
BY Zenon DEF Finalized

\* Its score is a number.
LEMMA ScoreIs ==
  ASSUME NEW call, CallTyped(call), NEW r, Proposal(call, r)
  PROVE  Finalized(call, r).score \in Int
<1>. DEFINE level == RiskLevel(call.ctx, r.shortage > 0 \/ call.net.shortage > 0)
            cost == IF r.cost < 0 THEN -r.cost ELSE r.cost
            rest == 6 - call.ctx.crit
<1>1. level \in Int
  BY DEF RiskLevel
<1>2. cost \in Int /\ rest \in Int
  BY DEF Proposal, CallTyped, ContextTyped
<1>3. Finalized(call, r).score = rest * (1 + level) * cost
  BY FinalIs, Zenon
<1>. HIDE DEF level, cost, rest
<1>4. rest * (1 + level) \in Int
  BY <1>1, <1>2
<1>. DEFINE m == rest * (1 + level)
<1>. HIDE DEF m
<1>5. m * cost \in Int
  BY <1>2, <1>4 DEF m
<1>. QED  BY <1>3, <1>5 DEF m

\* The call of a key in a work list, and what is recommended for all of them.
CallOf(c, k) == CallAmong(c, Served(c.contexts), k)
Advice(c)    == UNION {RecommendKey(call) : call \in Calls(c, Served(c.contexts))}
Crit(c)      == [k \in {call.key : call \in Calls(c, Served(c.contexts))} |-> c.contexts[k].crit]

\* It is that of each key, in which the key and the type are found again.
LEMMA AdviceIs ==
  ASSUME NEW c
  PROVE  \A r : r \in Advice(c) <=>
            \E k \in Served(c.contexts) :
               \E s \in Arbitrate(CallOf(c, k), Proposed(CallOf(c, k))) :
                  r = Finalized(CallOf(c, k), s)
<1>. DEFINE S == Served(c.contexts)
<1>1. \A r : r \in Advice(c) <=> \E k \in S : r \in RecommendKey(CallOf(c, k))
  BY Zenon DEF Advice, Calls, CallOf
<1>2. \A k : \A r : r \in RecommendKey(CallOf(c, k))
                     <=> \E s \in Arbitrate(CallOf(c, k), Proposed(CallOf(c, k))) :
                            r = Finalized(CallOf(c, k), s)
  BY Zenon DEF RecommendKey
<1>. DEFINE In(r, k) == r \in RecommendKey(CallOf(c, k))
            Of(r, k) == \E s \in Arbitrate(CallOf(c, k), Proposed(CallOf(c, k))) :
                           r = Finalized(CallOf(c, k), s)
<1>3. \A r : r \in Advice(c) <=> \E k \in S : In(r, k)
  BY <1>1
<1>4. \A r, k : In(r, k) <=> Of(r, k)
  BY <1>2
<1>. HIDE DEF In, Of
<1>5. \A r : r \in Advice(c) <=> \E k \in S : Of(r, k)
  BY <1>3, <1>4, Zenon
<1>. QED  BY <1>5, Zenon DEF Of

\* It can be ranked.
LEMMA AdviceIsRankable ==
  ASSUME NEW c, WorkListTyped(c)
  PROVE  Rankable(Advice(c), Crit(c))
<1>. DEFINE S == Served(c.contexts)
            recs == Advice(c)
            crit == Crit(c)
            tag == [r \in recs |-> <<r.key, r.type>>]
<1>1. S \subseteq DOMAIN c.contexts /\ IsFiniteSet(S) /\ S \subseteq Nat \X Nat
  <2>1. S \subseteq DOMAIN c.contexts
    BY ServedKeys
  <2>. HIDE DEF S
  <2>. QED  BY <2>1, FS_Subset DEF WorkListTyped
<1>2. \A k \in S : CallTyped(CallOf(c, k)) /\ CallOf(c, k).key = k
  BY CallsTyped, CallFields DEF CallOf
<1>3. \A k \in S : crit[k] \in Int
  <2>1. {call.key : call \in Calls(c, S)} = S
    BY <1>2 DEF Calls, CallOf
  <2>2. \A k \in S : crit[k] = c.contexts[k].crit
    BY <2>1 DEF Crit
  <2>3. \A k \in S : c.contexts[k].crit \in Int
    BY <1>1 DEF WorkListTyped, ContextTyped
  <2>. QED  BY <2>2, <2>3
<1>4. \A r \in recs : \E k \in S :
         /\ r.key = k /\ r.type \in Types /\ r.score \in Int
         /\ \E s \in Arbitrate(CallOf(c, k), Proposed(CallOf(c, k))) :
               r = Finalized(CallOf(c, k), s) /\ r.type = s.type
  <2>. SUFFICES ASSUME NEW r \in recs
                PROVE  \E k \in S :
                          /\ r.key = k /\ r.type \in Types /\ r.score \in Int
                          /\ \E s \in Arbitrate(CallOf(c, k), Proposed(CallOf(c, k))) :
                                r = Finalized(CallOf(c, k), s) /\ r.type = s.type
    OBVIOUS
  <2>1. PICK k \in S : \E s \in Arbitrate(CallOf(c, k), Proposed(CallOf(c, k))) :
                          r = Finalized(CallOf(c, k), s)
    BY AdviceIs, Zenon
  <2>2. PICK s \in Arbitrate(CallOf(c, k), Proposed(CallOf(c, k))) : r = Finalized(CallOf(c, k), s)
    BY <2>1, Zenon
  <2>3. Proposal(CallOf(c, k), s) /\ s.type \in Types
    BY <1>2, ArbitratedAre
  <2>4. r.key = s.key /\ r.type = s.type
    BY <2>2, FinalIs
  <2>5. r.score \in Int
    BY <1>2, <2>2, <2>3, ScoreIs
  <2>6. r.key = k
    BY <1>2, <2>3, <2>4 DEF Proposal
  <2>. QED  BY <2>2, <2>3, <2>4, <2>5, <2>6
<1>5. ASSUME NEW r \in recs, NEW s \in recs, r.key = s.key, r.type = s.type PROVE r = s
  <2>1. PICK k \in S : /\ r.key = k
                       /\ \E x \in Arbitrate(CallOf(c, k), Proposed(CallOf(c, k))) :
                             r = Finalized(CallOf(c, k), x) /\ r.type = x.type
    BY <1>4
  <2>2. PICK j \in S : /\ s.key = j
                       /\ \E x \in Arbitrate(CallOf(c, j), Proposed(CallOf(c, j))) :
                             s = Finalized(CallOf(c, j), x) /\ s.type = x.type
    BY <1>4
  <2>3. j = k
    BY <1>5, <2>1, <2>2
  <2>4. PICK x \in Arbitrate(CallOf(c, k), Proposed(CallOf(c, k))) :
           r = Finalized(CallOf(c, k), x) /\ r.type = x.type
    BY <2>1
  <2>5. PICK y \in Arbitrate(CallOf(c, k), Proposed(CallOf(c, k))) :
           s = Finalized(CallOf(c, k), y) /\ s.type = y.type
    BY <2>2, <2>3
  <2>6. x = y
    <3>1. x.type = y.type
      BY <1>5, <2>4, <2>5
    <3>. QED  BY <1>2, <3>1, ArbitratedAre
  <2>. QED  BY <2>4, <2>5, <2>6
<1>. HIDE DEF S, recs, crit
<1>6. IsFiniteSet(recs)
  <2>1. IsFiniteSet(Types)
    <3>1. Types = {"PURCHASE"} \cup {"TRANSFER"} \cup {"ADJUST"} \cup {"REDUCE"} \cup {"SELL"}
      BY DEF Types
    <3>. QED  BY <3>1, FS_Singleton, FS_Union
  <2>2. IsFiniteSet(S \X Types)
    BY <1>1, <2>1, FS_Product
  <2>3. tag \in Injection(recs, S \X Types)
    <3>1. \A r \in recs : r.key \in S /\ r.type \in Types
      BY <1>4
    <3>2. tag \in [recs -> S \X Types]
      BY <3>1
    <3>3. \A r, s \in recs : tag[r] = tag[s] => r = s
      BY <1>5
    <3>. QED  BY <3>2, <3>3 DEF Injection, IsInjective
  <2>. HIDE DEF tag
  <2>. QED  BY <2>2, <2>3, FS_Injection
<1>7. \A r \in recs : /\ r.score \in Int /\ crit[r.key] \in Int
                      /\ r.key \in Nat \X Nat /\ r.type \in Types
  BY <1>1, <1>3, <1>4
<1>8. Rankable(recs, crit)
  BY <1>5, <1>6, <1>7 DEF Rankable
<1>. QED  BY <1>8 DEF recs, crit

\* The batch shows all of it.
LEMMA RecommendedAre ==
  ASSUME NEW c, WorkListTyped(c)
  PROVE  {Run(c).ranked[i] : i \in DOMAIN Run(c).ranked} = Advice(c)
<1>1. Run(c).ranked = Ranked(Advice(c), Crit(c))
  BY NeverRaised, Zenon DEF Advice, Crit
<1>2. {Ranked(Advice(c), Crit(c))[i] : i \in DOMAIN Ranked(Advice(c), Crit(c))} = Advice(c)
  BY AdviceIsRankable, RankedAre
<1>. QED  BY <1>1, <1>2

\* No key is told to buy or to fetch a part and to give it away as well
\* (arbitration.py).
THEOREM NothingContradicts ==
    AlgorithmSpec => []NoContradiction
<1>1. Typed(case) /\ Answers => NoContradiction
  <2>. SUFFICES ASSUME Typed(case), Answers, Computed("batch"),
                       NEW a \in Recommended, NEW b \in Recommended,
                       a.type \in Inbound, b.type \in Outbound, a.key = b.key
                PROVE  FALSE
    BY DEF NoContradiction
  <2>1. WorkListTyped(case) /\ result = Run(case)
    BY DEF Typed, Answers, Computed
  <2>2. a \in Advice(case) /\ b \in Advice(case)
    BY <2>1, RecommendedAre DEF Recommended
  <2>3. \A r \in Advice(case) : \E k \in Served(case.contexts) :
           /\ r.key = k
           /\ r.type \in Inbound => CallOf(case, k).net.net < 0
           /\ r.type \in Outbound => ~(CallOf(case, k).net.net < 0)
    <3>. SUFFICES ASSUME NEW r \in Advice(case)
                  PROVE  \E k \in Served(case.contexts) :
                            /\ r.key = k
                            /\ r.type \in Inbound => CallOf(case, k).net.net < 0
                            /\ r.type \in Outbound => ~(CallOf(case, k).net.net < 0)
      OBVIOUS
    <3>1. PICK k \in Served(case.contexts) :
             \E s \in Arbitrate(CallOf(case, k), Proposed(CallOf(case, k))) :
                r = Finalized(CallOf(case, k), s)
      BY AdviceIs, Zenon
    <3>2. PICK s \in Arbitrate(CallOf(case, k), Proposed(CallOf(case, k))) :
             r = Finalized(CallOf(case, k), s)
      BY <3>1, Zenon
    <3>3. CallTyped(CallOf(case, k)) /\ CallOf(case, k).key = k
      BY <2>1, CallsTyped, CallFields DEF CallOf
    <3>4. /\ Proposal(CallOf(case, k), s)
          /\ s.type \in Inbound => CallOf(case, k).net.net < 0
          /\ s.type \in Outbound => ~(CallOf(case, k).net.net < 0)
      BY <3>3, ArbitratedAre
    <3>5. r.key = s.key /\ r.type = s.type
      BY <3>2, FinalIs
    <3>. QED  BY <3>3, <3>4, <3>5 DEF Proposal
  <2>. QED  BY <2>2, <2>3
<1>. QED  BY <1>1, AnswersAreComputed, PTL

\* The units that recommendations bring in, of one and of two of them.
Covers(recs) == Total(recs, LAMBDA r : Units(r.qty))

\* What one or two recommendations cover.
LEMMA CoversOfFew ==
  ASSUME NEW a, a.qty \in Int
  PROVE  /\ Covers({a}) = Units(a.qty)
         /\ \A b : b.qty \in Int /\ a # b => Covers({a} \cup {b}) = Units(a.qty) + Units(b.qty)
<1>1. Covers({a}) = Units(a.qty)
  <2>. DEFINE f == [r \in {a} |-> Units(r.qty)]
  <2>1. Covers({a}) = SumFunctionOnSet(f, {a})
    BY Zenon DEF Covers, Total, SumFunction
  <2>2. f[a] = Units(a.qty) /\ Units(a.qty) \in Int
    BY DEF Units
  <2>. HIDE DEF f
  <2>. QED  BY <2>1, <2>2, SumOne
<1>2. ASSUME NEW b, b.qty \in Int, a # b
      PROVE  Covers({a} \cup {b}) = Units(a.qty) + Units(b.qty)
  <2>. DEFINE S == {a} \cup {b}
              f == [r \in S |-> Units(r.qty)]
  <2>1. Covers(S) = SumFunctionOnSet(f, S)
    BY Zenon DEF Covers, Total, SumFunction
  <2>2. f[a] = Units(a.qty) /\ f[b] = Units(b.qty)
    OBVIOUS
  <2>3. Units(a.qty) \in Int /\ Units(b.qty) \in Int
    BY <1>2 DEF Units
  <2>. HIDE DEF f
  <2>4. SumFunctionOnSet(f, {a}) = f[a]
    BY <2>2, <2>3, SumOne
  <2>5. IsFiniteSet({a}) /\ b \notin {a} /\ (\A x \in {a} : f[x] \in Int) /\ f[b] \in Int
    BY <1>2, <2>2, <2>3, FS_Singleton
  <2>6. SumFunctionOnSet(f, {a} \cup {b}) = f[b] + SumFunctionOnSet(f, {a})
    BY <2>5, SumAdd
  <2>7. Covers(S) = f[b] + f[a]
    BY <2>1, <2>4, <2>6
  <2>. HIDE DEF S
  <2>8. Covers(S) = Units(a.qty) + Units(b.qty)
    BY <2>2, <2>3, <2>7
  <2>. QED  BY <2>8 DEF S
<1>. QED  BY <1>1, <1>2

\* In full, and with no more than that and the safety stock or the smallest order.
Enough(call, units) ==
    /\ units >= call.net.shortage
    /\ units <= call.net.shortage + Units(call.levels.ss + 1 + Economics(call.ctx).moq)

\* Orders of the shortage and the safety stock, of the shortage, and of what is left of it.
LEMMA RoundedUp ==
  ASSUME NEW s \in Int, s > 0, NEW ss \in Nat, NEW moq \in Nat
  PROVE  /\ LET q == Units(Most(moq, Ceil(s + Units(ss)))) IN
               q >= s /\ q <= s + Units(ss + 1 + moq)
         /\ \A t \in Int : t > 0 /\ t <= Whole(s) + 1 /\ s - Units(t) <= 0 =>
               Units(t) >= s /\ Units(t) <= s + Units(ss + 1 + moq)
         /\ \A t \in Int : t > 0 /\ s - Units(t) > 0 =>
               LET q == Units(t) + Units(Most(moq, Ceil(s - Units(t)))) IN
               q >= s /\ q <= s + Units(ss + 1 + moq)
BY DEF Units, Most, Ceil, Whole

\* What the representative of a pool that is short is told to bring in: one kind of order
\* or both, and enough.
LEMMA BroughtByOne ==
  ASSUME NEW call, CallTyped(call), Representative(call), call.net.net < 0
  PROVE  \E a \in Arbitrate(call, Proposed(call)) :
            /\ a.type \in Inbound /\ a.qty \in Int
            /\ \/ /\ \A s \in Arbitrate(call, Proposed(call)) : s.type \in Inbound => s = a
                  /\ Enough(call, Units(a.qty))
               \/ \E b \in Arbitrate(call, Proposed(call)) :
                     /\ b.type \in Inbound /\ b.qty \in Int /\ b.type # a.type
                     /\ \A s \in Arbitrate(call, Proposed(call)) : s.type \in Inbound => s = a \/ s = b
                     /\ Enough(call, Units(a.qty) + Units(b.qty))
<1>. DEFINE A == Arbitrate(call, Proposed(call))
            K == Kept(call)
            shortage == call.net.shortage
            ss == call.levels.ss
            moq == Economics(call.ctx).moq
<1>1. shortage \in Int /\ shortage > 0 /\ ss \in Nat /\ moq \in Nat
  BY DEF CallTyped, SoundPosition, Most
<1>2. /\ \A r \in A : Proposal(call, r) /\ r.qty \in Int
      /\ \A r, s \in A : r.type = s.type => r = s
  BY ArbitratedAre DEF Proposal
<1>3. \A r : r.type \in Inbound <=> r.type = "PURCHASE" \/ r.type = "TRANSFER"
  BY DEF Inbound
<1>4. K \in SUBSET Proposed(call) /\ \A r \in Proposed(call) : r.type \in Inbound => r \in K
  BY DEF Kept, Inbound, Outbound
<1>5. PICK p \in Purchase(call) : TRUE
  BY PurchaseIs
<1>6. /\ p.type = "PURCHASE" /\ p.shortage = shortage
      /\ p.qty = Most(moq, Ceil(shortage + Units(ss))) /\ p \in Proposed(call)
  BY PurchaseIs, InboundIs
<1>7. p \in K /\ \A r \in K : r.type = "PURCHASE" => r = p
  <2>1. \A r \in Proposed(call) : r.type = "PURCHASE" => r = p
    BY <1>6, ProposedAre
  <2>. QED  BY <1>3, <1>4, <1>6, <2>1
<1>8. A = IF Moved(K) = 0 THEN K
          ELSE {r \in K : r.type # "PURCHASE"} \cup
               {LeftToBuy(call, K, r) :
                  r \in {x \in K : x.type = "PURCHASE" /\ x.shortage - Units(Moved(K)) > 0}}
  BY ArbitrateIs, ResidualIs
<1>. HIDE DEF A, K, shortage, ss, moq
<1>9. CASE \A r \in K : r.type # "TRANSFER"
  <2>1. A = K
    BY <1>4, <1>8, <1>9, MovedIs
  <2>2. \A s \in A : s.type \in Inbound => s = p
    BY <1>3, <1>7, <1>9, <2>1
  <2>3. Enough(call, Units(p.qty))
    <3>1. /\ Units(Most(moq, Ceil(shortage + Units(ss)))) >= shortage
          /\ Units(Most(moq, Ceil(shortage + Units(ss)))) <= shortage + Units(ss + 1 + moq)
      BY <1>1, RoundedUp
    <3>. QED  BY <1>6, <3>1 DEF Enough, shortage, ss, moq
  <2>4. p \in A /\ p.type \in Inbound /\ p.qty \in Int
    BY <1>2, <1>3, <1>6, <1>7, <2>1
  <2>. QED  BY <2>2, <2>3, <2>4 DEF A
<1>10. CASE \E r \in K : r.type = "TRANSFER"
  <2>1. PICK t \in K : t.type = "TRANSFER"
    BY <1>10
  <2>2. t \in Proposed(call) /\ t \in Transfer(call)
    BY <1>4, <2>1, InboundIs
  <2>3. t.qty \in Int /\ t.qty > 0 /\ t.qty <= Whole(shortage) + 1
    BY <2>2, TransferIs DEF Proposal, shortage
  <2>4. Moved(K) = t.qty /\ Moved(K) # 0
    BY <1>4, <2>1, <2>3, MovedIs
  <2>. DEFINE B == {x \in K : x.type = "PURCHASE" /\ x.shortage - Units(Moved(K)) > 0}
              D == {r \in K : r.type # "PURCHASE"}
              L == {LeftToBuy(call, K, r) : r \in B}
  <2>5. A = D \cup L
    BY <1>8, <2>4
  <2>6. t \in D /\ t \in A /\ t.type \in Inbound
    BY <1>3, <2>1, <2>5
  <2>7. CASE shortage - Units(t.qty) > 0
    <3>. DEFINE b == LeftToBuy(call, K, p)
    <3>1. b \in L
      BY <1>6, <1>7, <2>4, <2>7
    <3>2. b.type = "PURCHASE" /\ b.qty = Most(moq, Ceil(shortage - Units(t.qty)))
      BY <1>4, <1>6, <1>7, <2>4, LeftToBuyIs DEF moq, shortage
    <3>. HIDE DEF b, B, D, L
    <3>3. b \in A /\ b.type \in Inbound /\ b.qty \in Int /\ b.type # t.type
      BY <1>2, <1>3, <2>1, <2>5, <3>1, <3>2
    <3>4. \A s \in A : s.type \in Inbound => s = t \/ s = b
      BY <1>2, <1>3, <2>1, <2>6, <3>2, <3>3
    <3>5. Enough(call, Units(t.qty) + Units(b.qty))
      <4>1. /\ Units(t.qty) + Units(Most(moq, Ceil(shortage - Units(t.qty)))) >= shortage
            /\ Units(t.qty) + Units(Most(moq, Ceil(shortage - Units(t.qty))))
                 <= shortage + Units(ss + 1 + moq)
        BY <1>1, <2>3, <2>7, RoundedUp
      <4>. QED  BY <3>2, <4>1 DEF Enough, shortage, ss, moq
    <3>. QED  BY <1>2, <2>3, <2>6, <3>3, <3>4, <3>5 DEF A
  <2>8. CASE ~(shortage - Units(t.qty) > 0)
    <3>1. B = {}
      BY <1>6, <1>7, <2>4, <2>8
    <3>2. L = {}
      <4>. HIDE DEF B
      <4>. QED  BY <3>1
    <3>. HIDE DEF B, L
    <3>3. \A s \in A : s.type \in Inbound => s = t
      BY <1>2, <1>3, <2>1, <2>5, <2>6, <3>2
    <3>4. Enough(call, Units(t.qty))
      <4>1. shortage - Units(t.qty) <= 0
        BY <1>1, <2>3, <2>8 DEF Units
      <4>2. Units(t.qty) >= shortage /\ Units(t.qty) <= shortage + Units(ss + 1 + moq)
        BY <1>1, <2>3, <4>1, RoundedUp
      <4>. QED  BY <4>2 DEF Enough, shortage, ss, moq
    <3>. QED  BY <2>3, <2>6, <3>3, <3>4 DEF A
  <2>. QED  BY <2>7, <2>8
<1>. QED  BY <1>9, <1>10

\* Where all members of a pool see the same pool, and the key is the first of them, it is
\* the only one that replenishes the pool.
LEMMA OneRepresents ==
  ASSUME NEW c, WorkListTyped(c), NEW k \in Served(c.contexts),
         \A m \in CallOf(c, k).pool : /\ PoolOf(c.graphs, Served(c.contexts), m) = CallOf(c, k).pool
                                      /\ k[1] <= m[1]
  PROVE  /\ k \in CallOf(c, k).pool
         /\ Representative(CallOf(c, k))
         /\ \A m \in CallOf(c, k).pool :
               m \in Served(c.contexts) /\ (Representative(CallOf(c, m)) => m = k)
<1>. DEFINE S == Served(c.contexts)
            pool == PoolOf(c.graphs, S, k)
<1>1. S \in SUBSET DOMAIN c.contexts
  BY ServedKeys
<1>2. /\ \A m \in S : /\ CallOf(c, m).key = m /\ CallOf(c, m).pool = PoolOf(c.graphs, S, m)
                      /\ CallOf(c, m).members = Members(c.graphs, S, m)
  BY CallFields DEF CallOf
<1>3. CallOf(c, k).pool = pool
  BY <1>2
<1>. HIDE DEF S
<1>4. /\ IsFiniteSet(pool) /\ k \in pool /\ pool \subseteq S /\ pool \subseteq Expected(c.graphs, k)
      /\ Members(c.graphs, S, k) = pool
           \/ (pool = {k} /\ Cardinality(Members(c.graphs, S, k)) <= 1)
  BY <1>1, PoolIs DEF S
<1>5. \A m \in pool : PoolOf(c.graphs, S, m) = pool /\ k[1] <= m[1]
  BY <1>3 DEF S
<1>6. Representative(CallOf(c, k))
  BY <1>2, <1>4, <1>5 DEF Representative, S
<1>. HIDE DEF pool
<1>7. ASSUME NEW m \in pool, Representative(CallOf(c, m)) PROVE m = k
  <2>. SUFFICES ASSUME m # k PROVE FALSE
    OBVIOUS
  <2>1. m \in S
    BY <1>4
  <2>2. Members(c.graphs, S, m) = PoolOf(c.graphs, S, m) \/ PoolOf(c.graphs, S, m) = {m}
    BY <1>1, <2>1, PoolIs
  <2>3. Members(c.graphs, S, m) = pool
    BY <1>4, <1>5, <2>2
  <2>4. Cardinality(pool) > 1 /\ Cardinality(pool) \in Nat
    BY <1>4, SomeAreTwo, FS_CardinalityType
  <2>5. m[1] <= k[1]
    <3>1. CallOf(c, m).members = pool /\ CallOf(c, m).key = m
      BY <1>2, <2>1, <2>3
    <3>2. \A x \in pool : m[1] <= x[1]
      BY <1>7, <2>4, <3>1 DEF Representative
    <3>. QED  BY <1>4, <3>2
  <2>6. k[1] <= m[1]
    BY <1>5
  <2>7. k \in DOMAIN c.contexts /\ m \in DOMAIN c.contexts
    BY <1>1, <1>4
  <2>8. k[1] \in Nat /\ m[1] \in Nat /\ k = <<k[1], k[2]>> /\ m = <<m[1], k[2]>>
    <3>1. m \in Expected(c.graphs, k)
      BY <1>4
    <3>2. k = <<k[1], k[2]>> /\ k[1] \in Nat /\ \A x \in Expected(c.graphs, k) : x = <<x[1], k[2]>>
      BY <2>7, ExpectedIs
    <3>3. m[1] \in Nat
      BY <2>7 DEF WorkListTyped
    <3>. QED  BY <3>1, <3>2, <3>3
  <2>9. m[1] = k[1]
    BY <2>5, <2>6, <2>8
  <2>. QED  BY <2>8, <2>9
<1>. QED  BY <1>3, <1>4, <1>6, <1>7 DEF S

\* The recommendations that bring something into its pool are those of the key.
LEMMA BroughtIs ==
  ASSUME NEW c, WorkListTyped(c), NEW k \in Served(c.contexts),
         \A m \in CallOf(c, k).pool : /\ PoolOf(c.graphs, Served(c.contexts), m) = CallOf(c, k).pool
                                      /\ k[1] <= m[1]
  PROVE  \A r : r \in Advice(c) /\ r.key \in CallOf(c, k).pool /\ r.type \in Inbound
            <=> \E s \in Arbitrate(CallOf(c, k), Proposed(CallOf(c, k))) :
                   s.type \in Inbound /\ r = Finalized(CallOf(c, k), s)
<1>. DEFINE A(m) == Arbitrate(CallOf(c, m), Proposed(CallOf(c, m)))
<1>1. \A m \in Served(c.contexts) :
         /\ \A s \in A(m) : /\ s.key = m
                            /\ s.type \in Inbound => Representative(CallOf(c, m))
         /\ \A s : Finalized(CallOf(c, m), s).key = s.key /\ Finalized(CallOf(c, m), s).type = s.type
  <2>. SUFFICES ASSUME NEW m \in Served(c.contexts)
                PROVE  /\ \A s \in A(m) : /\ s.key = m
                                          /\ s.type \in Inbound => Representative(CallOf(c, m))
                       /\ \A s : /\ Finalized(CallOf(c, m), s).key = s.key
                                 /\ Finalized(CallOf(c, m), s).type = s.type
    OBVIOUS
  <2>1. CallTyped(CallOf(c, m)) /\ CallOf(c, m).key = m
    BY CallsTyped, CallFields DEF CallOf
  <2>2. \A s \in A(m) : /\ Proposal(CallOf(c, m), s)
                        /\ s.type \in Inbound => Representative(CallOf(c, m))
    BY <2>1, ArbitratedAre
  <2>3. \A s \in A(m) : s.key = m
    BY <2>1, <2>2 DEF Proposal
  <2>. QED  BY <2>2, <2>3, FinalIs
<1>2. /\ k \in CallOf(c, k).pool
      /\ \A m \in CallOf(c, k).pool : Representative(CallOf(c, m)) => m = k
  BY OneRepresents
<1>3. \A r : r \in Advice(c) <=> \E m \in Served(c.contexts) :
                                    \E s \in A(m) : r = Finalized(CallOf(c, m), s)
  BY AdviceIs, Zenon
<1>. HIDE DEF A
<1>4. ASSUME NEW r, r \in Advice(c), r.key \in CallOf(c, k).pool, r.type \in Inbound
      PROVE  \E s \in A(k) : s.type \in Inbound /\ r = Finalized(CallOf(c, k), s)
  <2>1. PICK m \in Served(c.contexts) : \E s \in A(m) : r = Finalized(CallOf(c, m), s)
    BY <1>3, <1>4
  <2>2. PICK s \in A(m) : r = Finalized(CallOf(c, m), s)
    BY <2>1
  <2>3. r.key = m /\ s.type \in Inbound /\ Representative(CallOf(c, m))
    BY <1>1, <1>4, <2>2
  <2>4. m = k
    BY <1>2, <1>4, <2>3
  <2>. QED  BY <2>2, <2>3, <2>4
<1>5. ASSUME NEW r, NEW s \in A(k), s.type \in Inbound, r = Finalized(CallOf(c, k), s)
      PROVE  r \in Advice(c) /\ r.key \in CallOf(c, k).pool /\ r.type \in Inbound
  <2>1. r \in Advice(c)
    BY <1>3, <1>5
  <2>2. r.key = k /\ r.type \in Inbound
    BY <1>1, <1>5
  <2>. QED  BY <1>2, <2>1, <2>2
<1>. QED  BY <1>4, <1>5 DEF A

\* It is replenished by that key alone, and enough.
LEMMA BroughtOnce ==
  ASSUME NEW c, WorkListTyped(c), NEW k \in Served(c.contexts), CallOf(c, k).net.net < 0,
         \A m \in CallOf(c, k).pool : /\ PoolOf(c.graphs, Served(c.contexts), m) = CallOf(c, k).pool
                                      /\ k[1] <= m[1],
         NEW recs, recs = Advice(c)
  PROVE  LET brought == {r \in recs : r.key \in CallOf(c, k).pool /\ r.type \in Inbound} IN
         /\ Cardinality({r.key : r \in brought}) = 1
         /\ Enough(CallOf(c, k), Covers(brought))
<1>. DEFINE call == CallOf(c, k)
            A == Arbitrate(call, Proposed(call))
            B == {r \in recs : r.key \in CallOf(c, k).pool /\ r.type \in Inbound}
<1>1. CallTyped(call) /\ call.key = k
  BY CallsTyped, CallFields DEF CallOf
<1>2. Representative(call)
  BY OneRepresents
<1>3. \A r : r \in B <=> \E s \in A : s.type \in Inbound /\ r = Finalized(call, s)
  BY BroughtIs
<1>4. \A s \in A : s.key = k
  <2>1. \A s \in A : Proposal(call, s)
    BY <1>1, ArbitratedAre
  <2>. QED  BY <1>1, <2>1 DEF Proposal
<1>5. PICK a \in A :
         /\ a.type \in Inbound /\ a.qty \in Int
         /\ \/ /\ \A s \in A : s.type \in Inbound => s = a
               /\ Enough(call, Units(a.qty))
            \/ \E b \in A :
                  /\ b.type \in Inbound /\ b.qty \in Int /\ b.type # a.type
                  /\ \A s \in A : s.type \in Inbound => s = a \/ s = b
                  /\ Enough(call, Units(a.qty) + Units(b.qty))
  BY <1>1, <1>2, BroughtByOne
<1>6. \A s : /\ Finalized(call, s).key = s.key /\ Finalized(call, s).type = s.type
             /\ Finalized(call, s).qty = s.qty
  BY FinalIs
<1>. HIDE DEF A, B, call
<1>7. \A r \in B : r.key = k
  BY <1>3, <1>4, <1>6
<1>. DEFINE x == Finalized(call, a)
<1>8. x \in B /\ x.qty = a.qty
  BY <1>3, <1>5, <1>6
<1>9. Cardinality({r.key : r \in B}) = 1
  <2>1. {r.key : r \in B} = {k}
    BY <1>7, <1>8
  <2>. QED  BY <2>1, FS_Singleton
<1>10. Enough(call, Covers(B))
  <2>1. CASE (\A s \in A : s.type \in Inbound => s = a) /\ Enough(call, Units(a.qty))
    <3>1. B = {x}
      BY <1>3, <1>8, <2>1
    <3>. HIDE DEF x
    <3>2. Covers({x}) = Units(x.qty)
      BY <1>5, <1>8, CoversOfFew
    <3>. QED  BY <1>8, <2>1, <3>1, <3>2
  <2>2. ASSUME NEW b \in A, b.type \in Inbound, b.qty \in Int, b.type # a.type,
               \A s \in A : s.type \in Inbound => s = a \/ s = b,
               Enough(call, Units(a.qty) + Units(b.qty))
        PROVE  Enough(call, Covers(B))
    <3>. DEFINE y == Finalized(call, b)
    <3>1. y \in B /\ y.qty = b.qty /\ x # y
      BY <1>3, <1>6, <2>2
    <3>2. B = {x} \cup {y}
      BY <1>3, <1>8, <2>2, <3>1
    <3>. HIDE DEF x, y
    <3>3. Covers({x} \cup {y}) = Units(x.qty) + Units(y.qty)
      BY <1>5, <1>8, <2>2, <3>1, CoversOfFew
    <3>. QED  BY <1>8, <2>2, <3>1, <3>2, <3>3
  <2>. QED  BY <1>5, <2>1, <2>2
<1>. QED  BY <1>9, <1>10 DEF B, call

\* Where all members of a pool see the same pool, its shortage is replenished by one of
\* them, in full, and with no more than that and the safety stock or the smallest order
\* (service.py, the representative of a group, and arbitration.py).
THEOREM ReplenishedOnce ==
    AlgorithmSpec => []ShortageIsReplenishedOnce
<1>1. Typed(case) /\ Answers => ShortageIsReplenishedOnce
  <2>. SUFFICES ASSUME Typed(case), Answers, Computed("batch"),
                       NEW k \in Served(case.contexts), CallOf(case, k).net.net < 0,
                       \A m \in CallOf(case, k).pool :
                          /\ PoolOf(case.graphs, Served(case.contexts), m) = CallOf(case, k).pool
                          /\ CallOf(case, k).key[1] <= m[1]
                PROVE  LET brought == {r \in Recommended : r.key \in CallOf(case, k).pool
                                                             /\ r.type \in Inbound} IN
                       /\ Cardinality({r.key : r \in brought}) = 1
                       /\ Enough(CallOf(case, k), Covers(brought))
    BY Zenon DEF ShortageIsReplenishedOnce, Calls, CallOf, Enough, Covers
  <2>1. WorkListTyped(case) /\ result = Run(case)
    BY DEF Typed, Answers, Computed
  <2>2. Recommended = Advice(case)
    BY <2>1, RecommendedAre DEF Recommended
  <2>3. CallOf(case, k).key = k
    BY CallFields DEF CallOf
  <2>. DEFINE recs == Recommended
  <2>. HIDE DEF recs
  <2>4. \A m \in CallOf(case, k).pool :
           /\ PoolOf(case.graphs, Served(case.contexts), m) = CallOf(case, k).pool
           /\ k[1] <= m[1]
    BY <2>3
  <2>5. recs = Advice(case)
    BY <2>2 DEF recs
  <2>6. LET brought == {r \in recs : r.key \in CallOf(case, k).pool /\ r.type \in Inbound} IN
        /\ Cardinality({r.key : r \in brought}) = 1
        /\ Enough(CallOf(case, k), Covers(brought))
    BY <2>1, <2>4, <2>5, BroughtOnce
  <2>. QED  BY <2>6 DEF recs
<1>. QED  BY <1>1, AnswersAreComputed, PTL

-----------------------------------------------------------------------------
(* The lead times.                                                         *)

\* The days of finitely many cycles, in order: as many as there are cycles, each of them
\* the days of one.
LEMMA SortedIs ==
  ASSUME NEW cycles, IsFiniteSet(cycles), \A c \in cycles : c.days \in Int
  PROVE  LET s == SortedDays(cycles)
             n == Cardinality(cycles) IN
         /\ n \in Nat /\ DOMAIN s = 1..n /\ Len(s) = n
         /\ \A i \in 1..n : s[i] \in {c.days : c \in cycles} /\ s[i] \in Int
         /\ \A i, j \in 1..n : i <= j => s[i] <= s[j]
<1>. DEFINE s == SortedDays(cycles)
            n == Cardinality(cycles)
            D == {c.days : c \in cycles}
            W(d) == {c \in cycles : c.days <= d}
            B(d) == {c \in cycles : c.days < d}
            P(d, i) == Cardinality(B(d)) < i /\ i <= Cardinality(W(d))
<1>1. n \in Nat /\ D \subseteq Int /\ IsFiniteSet(D)
  <2>1. n \in Nat /\ D \subseteq Int
    BY FS_CardinalityType
  <2>2. IsFiniteSet({[x \in cycles |-> x.days][c] : c \in cycles})
    BY ImageFinite
  <2>3. {[x \in cycles |-> x.days][c] : c \in cycles} = D
    OBVIOUS
  <2>. QED  BY <2>1, <2>2, <2>3
<1>2. \A d : /\ IsFiniteSet(W(d)) /\ IsFiniteSet(B(d)) /\ B(d) \subseteq cycles /\ W(d) \subseteq cycles
             /\ Cardinality(W(d)) \in Nat /\ Cardinality(B(d)) \in Nat
  <2>1. \A d : B(d) \subseteq cycles /\ W(d) \subseteq cycles
    OBVIOUS
  <2>. HIDE DEF W, B
  <2>. QED  BY <2>1, FS_Subset, FS_CardinalityType
<1>3. \A d, e \in D : d < e => Cardinality(W(d)) <= Cardinality(B(e))
  <2>. SUFFICES ASSUME NEW d \in D, NEW e \in D, d < e
                PROVE  Cardinality(W(d)) <= Cardinality(B(e))
    OBVIOUS
  <2>1. W(d) \subseteq B(e)
    BY <1>1
  <2>. HIDE DEF W, B
  <2>. QED  BY <1>2, <2>1, FS_Subset
<1>4. \A i \in 1..n : \E d \in D : P(d, i)
  <2>. SUFFICES ASSUME NEW i \in 1..n PROVE \E d \in D : P(d, i)
    OBVIOUS
  <2>. DEFINE E == {d \in D : i <= Cardinality(W(d))}
              id == [d \in D |-> d]
  <2>1. E # {}
    <3>1. cycles # {}
      BY <1>1, FS_EmptySet
    <3>2. D # {}
      BY <3>1
    <3>3. PICK m \in D : \A x \in D : id[x] <= id[m]
      <4>1. \A x \in D : id[x] \in Int
        BY <1>1
      <4>. HIDE DEF id, D
      <4>. QED  BY <1>1, <3>2, <4>1, MostOfFinite
    <3>4. \A x \in D : x <= m
      BY <3>3
    <3>5. W(m) = cycles
      BY <3>4
    <3>. HIDE DEF W, D
    <3>. QED  BY <1>1, <3>5
  <2>2. E \subseteq D /\ IsFiniteSet(E)
    <3>1. E \subseteq D
      OBVIOUS
    <3>. HIDE DEF E, D
    <3>. QED  BY <1>1, <3>1, FS_Subset
  <2>3. PICK d \in E : \A x \in E : d <= x
    <3>1. \A x \in E : id[x] = x /\ id[x] \in Int
      BY <1>1
    <3>. HIDE DEF id, E, D
    <3>2. PICK l \in E : \A x \in E : id[l] <= id[x]
      BY <2>1, <2>2, <3>1, LeastOfFinite
    <3>. QED  BY <3>1, <3>2
  <2>4. Cardinality(B(d)) < i
    <3>1. CASE B(d) = {}
      <4>1. Cardinality(B(d)) = 0
        BY <3>1, FS_EmptySet
      <4>. HIDE DEF B
      <4>. QED  BY <1>1, <4>1
    <3>2. CASE B(d) # {}
      <4>. DEFINE F == {x \in D : x < d}
      <4>1. F # {} /\ F \subseteq D
        BY <3>2
      <4>2. PICK m \in F : \A x \in F : x <= m
        <5>1. \A x \in F : id[x] = x /\ id[x] \in Int
          BY <1>1
        <5>. HIDE DEF id, F, D
        <5>2. IsFiniteSet(F)
          BY <1>1, <4>1, FS_Subset
        <5>3. PICK m \in F : \A x \in F : id[x] <= id[m]
          BY <4>1, <5>1, <5>2, MostOfFinite
        <5>. QED  BY <5>1, <5>3
      <4>3. m \in D /\ m < d /\ B(d) \subseteq W(m)
        <5>1. m \in D /\ m < d
          OBVIOUS
        <5>2. ASSUME NEW c \in B(d) PROVE c \in W(m)
          <6>1. c \in cycles /\ c.days \in F
            OBVIOUS
          <6>. QED  BY <4>2, <6>1
        <5>. HIDE DEF B, W, F
        <5>. QED  BY <5>1, <5>2
      <4>4. m \notin E
        BY <1>1, <2>2, <2>3, <4>3
      <4>5. ~(i <= Cardinality(W(m)))
        <5>. HIDE DEF W, D
        <5>. QED  BY <4>3, <4>4
      <4>6. Cardinality(B(d)) <= Cardinality(W(m))
        <5>. HIDE DEF B, W
        <5>. QED  BY <1>2, <4>3, FS_Subset
      <4>. HIDE DEF B, W
      <4>. QED  BY <1>2, <4>5, <4>6
    <3>. QED  BY <3>1, <3>2
  <2>. HIDE DEF B, W
  <2>. QED  BY <2>2, <2>3, <2>4
<1>5. s = [i \in 1..n |-> CHOOSE d \in D : P(d, i)]
  BY Zenon DEF SortedDays
<1>. HIDE DEF s
<1>6. \A i \in 1..n : s[i] \in D /\ P(s[i], i)
  <2>. SUFFICES ASSUME NEW i \in 1..n PROVE s[i] \in D /\ P(s[i], i)
    OBVIOUS
  <2>1. s[i] = CHOOSE d \in D : P(d, i)
    <3>. HIDE DEF P, D
    <3>. QED  BY <1>5
  <2>2. \E d \in D : P(d, i)
    BY <1>4
  <2>. HIDE DEF P, D
  <2>. QED  BY <2>1, <2>2
<1>7. \A i, j \in 1..n : i <= j => s[i] <= s[j]
  <2>. SUFFICES ASSUME NEW i \in 1..n, NEW j \in 1..n, i <= j, ~(s[i] <= s[j]) PROVE FALSE
    OBVIOUS
  <2>1. s[i] \in D /\ s[j] \in D /\ P(s[i], i) /\ P(s[j], j)
    BY <1>6
  <2>. HIDE DEF B, W, D
  <2>2. s[j] < s[i]
    <3>1. s[i] \in Int /\ s[j] \in Int
      BY <1>1, <2>1
    <3>. HIDE DEF P
    <3>. QED  BY <3>1
  <2>3. Cardinality(W(s[j])) <= Cardinality(B(s[i]))
    BY <1>3, <2>1, <2>2
  <2>. QED  BY <1>1, <1>2, <2>1, <2>3
<1>8. DOMAIN s = 1..n /\ Len(s) = n
  <2>. HIDE DEF P, D, n
  <2>1. DOMAIN s = 1..n
    BY <1>5
  <2>2. Len(s) = n
    BY <1>1, <1>5
  <2>. QED  BY <2>1, <2>2
<1>. HIDE DEF P
<1>. QED  BY <1>1, <1>6, <1>7, <1>8 DEF s

\* The nearest whole number is at most a half away.
LEMMA HalfEvenIsNear ==
  ASSUME NEW a \in Nat
  PROVE  /\ HalfEven(a, 100) \in Nat
         /\ 100 * HalfEven(a, 100) <= a + 50 /\ a <= 100 * HalfEven(a, 100) + 50
<1>. DEFINE q == a \div 100
            r == a % 100
<1>1. q \in Nat /\ r \in 0..99 /\ a = 100 * q + r
  OBVIOUS
<1>2. q % 2 \in {0, 1}
  BY <1>1
<1>3. HalfEven(a, 100) = IF 2 * r < 100 THEN q ELSE IF 2 * r > 100 THEN q + 1 ELSE q + (q % 2)
  BY DEF HalfEven
<1>. HIDE DEF q, r
<1>. QED  BY <1>1, <1>2, <1>3

\* The ranks of the percentiles are in order, and there are cycles at them.
LEMMA RanksInOrder ==
  ASSUME NEW n \in Nat, n > 0
  PROVE  /\ 1 + (n \div 2) \in 1..n
         /\ 1 + HalfEven(90 * (n - 1), 100) \in 1..n /\ 1 + HalfEven(99 * (n - 1), 100) \in 1..n
         /\ n \div 2 <= HalfEven(90 * (n - 1), 100)
         /\ HalfEven(90 * (n - 1), 100) <= HalfEven(99 * (n - 1), 100)
<1>. DEFINE q == n \div 2
            x == HalfEven(90 * (n - 1), 100)
            y == HalfEven(99 * (n - 1), 100)
<1>1. x \in Nat /\ 100 * x <= 90 * (n - 1) + 50 /\ 90 * (n - 1) <= 100 * x + 50
  <2>1. 90 * (n - 1) \in Nat
    OBVIOUS
  <2>. QED  BY <2>1, HalfEvenIsNear
<1>2. y \in Nat /\ 100 * y <= 99 * (n - 1) + 50 /\ 99 * (n - 1) <= 100 * y + 50
  <2>1. 99 * (n - 1) \in Nat
    OBVIOUS
  <2>. QED  BY <2>1, HalfEvenIsNear
<1>3. q \in Nat /\ 2 * q <= n /\ n <= 2 * q + 1
  OBVIOUS
<1>. HIDE DEF q, x, y
<1>4. q <= x
  BY <1>1, <1>3
<1>5. x <= y
  BY <1>1, <1>2
<1>6. y <= n - 1
  BY <1>2
<1>7. 1 + q \in 1..n /\ 1 + x \in 1..n /\ 1 + y \in 1..n
  BY <1>1, <1>2, <1>3, <1>4, <1>5, <1>6
<1>. QED  BY <1>4, <1>5, <1>7 DEF q, x, y

\* A row counts the cycles it is made of; its percentiles are in order, and where there are
\* cycles they are days that some of them took.
LEMMA DistributionIs ==
  ASSUME NEW cycles, IsFiniteSet(cycles), \A c \in cycles : c.days \in Int,
         NEW configured, configured # {} => BestConfigured(configured).promised \in Int,
         NEW vendor, NEW lane
  PROVE  /\ \A r \in Distribution(vendor, lane, configured, cycles) :
               /\ r.vendor = vendor /\ r.lane = lane /\ r.n = Cardinality(cycles)
               /\ r.p50 <= r.p90 /\ r.p90 <= r.p99
               /\ cycles # {} => {r.p50, r.p90, r.p99} \subseteq {c.days : c \in cycles}
         /\ cycles # {} => Distribution(vendor, lane, configured, cycles) # {}
<1>. DEFINE s == SortedDays(cycles)
            n == Cardinality(cycles)
            p == IF configured = {} THEN 0 ELSE BestConfigured(configured).promised
            seen == [vendor |-> vendor, lane |-> lane, evidence |-> "observed", n |-> Len(s),
                     p50 |-> Percentile(s, 50), p90 |-> Percentile(s, 90),
                     p99 |-> Percentile(s, 99), sure |-> Len(s) >= 10]
            told == [vendor |-> vendor, lane |-> lane, evidence |-> "configured_fallback", n |-> 0,
                     p50 |-> p, p90 |-> p, p99 |-> p, sure |-> FALSE]
<1>1. Distribution(vendor, lane, configured, cycles) =
        IF cycles # {} THEN {seen} ELSE IF p > 0 THEN {told} ELSE {}
  BY Zenon DEF Distribution
<1>2. CASE cycles # {}
  <2>1. /\ n \in Nat /\ Len(s) = n
        /\ \A i \in 1..n : s[i] \in {c.days : c \in cycles}
        /\ \A i, j \in 1..n : i <= j => s[i] <= s[j]
    BY SortedIs
  <2>2. n > 0
    BY <1>2, <2>1, FS_EmptySet
  <2>3. /\ Percentile(s, 50) = s[1 + (n \div 2)]
        /\ Percentile(s, 90) = s[1 + HalfEven(90 * (n - 1), 100)]
        /\ Percentile(s, 99) = s[1 + HalfEven(99 * (n - 1), 100)]
    <3>. HIDE DEF s, n
    <3>. QED  BY <2>1 DEF Percentile
  <2>. HIDE DEF s, n
  <2>4. /\ 1 + (n \div 2) \in 1..n
        /\ 1 + HalfEven(90 * (n - 1), 100) \in 1..n /\ 1 + HalfEven(99 * (n - 1), 100) \in 1..n
        /\ 1 + (n \div 2) <= 1 + HalfEven(90 * (n - 1), 100)
        /\ 1 + HalfEven(90 * (n - 1), 100) <= 1 + HalfEven(99 * (n - 1), 100)
    <3>1. n \div 2 \in Nat /\ 90 * (n - 1) \in Nat /\ 99 * (n - 1) \in Nat
      BY <2>1, <2>2
    <3>2. HalfEven(90 * (n - 1), 100) \in Nat /\ HalfEven(99 * (n - 1), 100) \in Nat
      BY <3>1, HalfEvenIsNear
    <3>3. /\ 1 + (n \div 2) \in 1..n
          /\ 1 + HalfEven(90 * (n - 1), 100) \in 1..n /\ 1 + HalfEven(99 * (n - 1), 100) \in 1..n
          /\ n \div 2 <= HalfEven(90 * (n - 1), 100)
          /\ HalfEven(90 * (n - 1), 100) <= HalfEven(99 * (n - 1), 100)
      <4>. HIDE DEF p, seen, told
      <4>1. n \in Nat /\ n > 0
        BY <2>1, <2>2
      <4>. QED  BY <4>1, RanksInOrder
    <3>. HIDE DEF p, seen, told
    <3>. QED  BY <3>1, <3>2, <3>3
  <2>5. /\ Percentile(s, 50) <= Percentile(s, 90) /\ Percentile(s, 90) <= Percentile(s, 99)
        /\ {Percentile(s, 50), Percentile(s, 90), Percentile(s, 99)} \subseteq {c.days : c \in cycles}
    BY <2>1, <2>3, <2>4
  <2>. HIDE DEF p
  <2>6. /\ seen.vendor = vendor /\ seen.lane = lane /\ seen.n = n
        /\ seen.p50 = Percentile(s, 50) /\ seen.p90 = Percentile(s, 90)
        /\ seen.p99 = Percentile(s, 99)
    BY <2>1
  <2>. HIDE DEF seen
  <2>. QED  BY <1>1, <1>2, <2>5, <2>6 DEF n
<1>3. CASE cycles = {}
  <2>1. n = 0
    BY <1>3, FS_EmptySet
  <2>2. p \in Int
    OBVIOUS
  <2>. HIDE DEF p, seen, n
  <2>3. /\ told.vendor = vendor /\ told.lane = lane /\ told.n = 0
        /\ told.p50 <= told.p90 /\ told.p90 <= told.p99
    BY <2>2
  <2>. HIDE DEF told
  <2>. QED  BY <1>1, <1>3, <2>1, <2>3 DEF n
<1>. QED  BY <1>2, <1>3

\* What the lead times are made of: finitely many cycles and promises, in whole days, each
\* of them in one of the two lanes.
LEMMA EvidenceIs ==
  ASSUME NEW rows, PromisesTyped(rows), NEW orders, TurnaroundsTyped(orders)
  PROVE  /\ IsFiniteSet(CycleRows(orders)) /\ IsFiniteSet(PriceRows(rows))
         /\ \A c \in CycleRows(orders) : c.days \in Int /\ c.lane \in {"NEW", "REP"}
         /\ \A r \in PriceRows(rows) : /\ r.promised \in Int /\ r.preferred \in BOOLEAN
                                       /\ r.price \in Int /\ r.rank \in Int
<1>. DEFINE kept == {x \in orders : /\ Lane(x.type, OrderPrefix(x.host, x.order)) # Blank
                                    /\ x.ok /\ x.days >= 0}
            cycle(r) == [id |-> r.id, vendor |-> Named(r.vendor),
                         lane |-> Lane(r.type, OrderPrefix(r.host, r.order)), days |-> r.days]
            hinted(x) == Lane(x.type, IF x.hint = Blank THEN "NEW" ELSE x.hint)
            sold == {x \in rows : hinted(x) # Blank}
            offer(r) == [vendor |-> Named(r.vendor), preferred |-> r.preferred, price |-> r.price,
                         rank |-> r.rank, lane |-> hinted(r),
                         promised |-> IF r.days > 0 THEN r.days ELSE 0]
<1>1. \A type, hint : Lane(type, hint) \in {"NEW", "REP", Blank}
  <2>. TAKE type, hint
  <2>1. CASE type = "PO"
    BY <2>1 DEF Lane
  <2>2. CASE type = "RO"
    BY <2>2 DEF Lane
  <2>3. CASE type \notin {"PO", "RO"} /\ type # Blank
    BY <2>3 DEF Lane
  <2>4. CASE type = Blank
    <3>1. Lane(type, hint) = CASE hint \in {"RO", "REP"} -> "REP"
                               [] hint \in {"PO", "NEW"} -> "NEW"
                               [] OTHER -> Blank
      BY <2>4 DEF Lane, Blank
    <3>. QED  BY <3>1
  <2>. QED  BY <2>1, <2>2, <2>3, <2>4
<1>2. CycleRows(orders) = {cycle(r) : r \in kept}
  BY Zenon DEF CycleRows
<1>3. PriceRows(rows) = {offer(r) : r \in sold}
  BY Zenon DEF PriceRows
<1>4. IsFiniteSet(kept) /\ IsFiniteSet(sold)
  <2>1. kept \subseteq orders /\ sold \subseteq rows
    OBVIOUS
  <2>. HIDE DEF kept, sold
  <2>. QED  BY <2>1, FS_Subset DEF PromisesTyped, TurnaroundsTyped
<1>5. \A r \in kept : cycle(r).days \in Int /\ cycle(r).lane \in {"NEW", "REP"}
  <2>. TAKE r \in kept
  <2>1. r \in orders /\ r.ok /\ Lane(r.type, OrderPrefix(r.host, r.order)) # Blank
    OBVIOUS
  <2>2. r.days \in Int
    BY <2>1 DEF TurnaroundsTyped
  <2>. QED  BY <1>1, <2>1, <2>2
<1>6. \A r \in sold : /\ offer(r).promised \in Int /\ offer(r).preferred \in BOOLEAN
                      /\ offer(r).price \in Int /\ offer(r).rank \in Int
  <2>. TAKE r \in sold
  <2>1. /\ r.preferred \in BOOLEAN /\ r.price \in Int /\ r.rank \in Int /\ r.days \in Int
    BY DEF PromisesTyped
  <2>. HIDE DEF hinted
  <2>. QED  BY <2>1
<1>7. IsFiniteSet({cycle(r) : r \in kept}) /\ IsFiniteSet({offer(r) : r \in sold})
  <2>. DEFINE f == [r \in kept |-> cycle(r)]
              g == [r \in sold |-> offer(r)]
  <2>1. {f[r] : r \in kept} = {cycle(r) : r \in kept} /\ {g[r] : r \in sold} = {offer(r) : r \in sold}
    <3>. HIDE DEF cycle, offer, kept, sold
    <3>. QED  OBVIOUS
  <2>2. IsFiniteSet({f[r] : r \in kept}) /\ IsFiniteSet({g[r] : r \in sold})
    <3>. HIDE DEF f, g, kept, sold
    <3>. QED  BY <1>4, ImageFinite
  <2>. HIDE DEF cycle, offer, kept, sold
  <2>. QED  BY <2>1, <2>2
<1>. HIDE DEF cycle, offer, kept, sold
<1>. QED  BY <1>2, <1>3, <1>5, <1>6, <1>7

\* The best of the promises is one of them.
LEMMA BestIsOne ==
  ASSUME NEW S, IsFiniteSet(S), S # {},
         \A r \in S : /\ r.promised \in Int /\ r.preferred \in BOOLEAN
                      /\ r.price \in Int /\ r.rank \in Int
  PROVE  BestConfigured(S).promised \in Int
<1>1. \E r \in S : \A o \in S : ~Before(o, r)
  BY SomeRowIsBest
<1>2. BestConfigured(S) \in S
  BY <1>1 DEF BestConfigured
<1>. QED  BY <1>2

\* The evidence of the lead times is whole, for rows of any kind: every cycle counts in the
\* row over all vendors of its lane, no promise stands in for cycles, and the percentiles
\* are in order and days that some order took (lead_time_job, lead_time_distributions).
THEOREM WholeLeadTimes ==
    AlgorithmSpec => []LeadTimeEvidenceIsWhole
<1>1. Typed(case) /\ Answers => LeadTimeEvidenceIsWhole
  <2>. DEFINE ps == PriceRows(case.rows)
              cs == CycleRows(case.orders)
              lanes == {"NEW", "REP"}
              named == {r.vendor : r \in ps \cup cs} \ {Default}
              pOf(v, l) == {r \in ps : r.lane = l /\ r.vendor = v}
              cOf(v, l) == {r \in cs : r.lane = l /\ r.vendor = v}
              own == UNION {Distribution(v, l, pOf(v, l), cOf(v, l)) : v \in named, l \in lanes}
              all == UNION {Distribution(Default, l, OverAll(ps, l), OverAll(cs, l)) : l \in lanes}
              whole(r) == {c \in cs : c.lane = r.lane /\ r.vendor \in {Default, c.vendor}}
              good(r) == /\ r.n = Cardinality(whole(r))
                         /\ r.p50 <= r.p90 /\ r.p90 <= r.p99
                         /\ whole(r) # {} =>
                              {r.p50, r.p90, r.p99} \subseteq {c.days : c \in whole(r)}
  <2>. SUFFICES ASSUME Typed(case), Answers, Computed("leadtime")
                PROVE  /\ \A c \in cs : \E r \in result : r.vendor = Default /\ r.lane = c.lane
                       /\ \A r \in result : good(r)
    BY Zenon DEF LeadTimeEvidenceIsWhole
  <2>1. PromisesTyped(case.rows) /\ TurnaroundsTyped(case.orders)
    BY DEF Typed, JobTyped, Computed
  <2>2. result \in LeadTimes(case.rows, case.orders)
    BY DEF Answers
  <2>3. result = own \cup all
    <3>1. LeadTimes(case.rows, case.orders) = {own \cup all}
      <4>. HIDE DEF ps, cs
      <4>1. LeadTimes(case.rows, case.orders) = {own \cup all}
        BY DEF LeadTimes, ps, cs
      <4>. QED  BY <4>1
    <3>. HIDE DEF own, all
    <3>. QED  BY <2>2, <3>1
  <2>. HIDE DEF ps, cs
  <2>4. /\ IsFiniteSet(cs) /\ IsFiniteSet(ps)
        /\ \A c \in cs : c.days \in Int /\ c.lane \in lanes
        /\ \A r \in ps : /\ r.promised \in Int /\ r.preferred \in BOOLEAN
                         /\ r.price \in Int /\ r.rank \in Int
    BY <2>1, EvidenceIs DEF ps, cs
  <2>5. ASSUME NEW S, S \subseteq cs, NEW P, P \subseteq ps, NEW v, NEW l
        PROVE  /\ \A r \in Distribution(v, l, P, S) :
                    /\ r.vendor = v /\ r.lane = l /\ r.n = Cardinality(S)
                    /\ r.p50 <= r.p90 /\ r.p90 <= r.p99
                    /\ S # {} => {r.p50, r.p90, r.p99} \subseteq {c.days : c \in S}
               /\ S # {} => Distribution(v, l, P, S) # {}
    <3>1. IsFiniteSet(S) /\ \A c \in S : c.days \in Int
      BY <2>4, <2>5, FS_Subset
    <3>2. P # {} => BestConfigured(P).promised \in Int
      BY <2>4, <2>5, FS_Subset, BestIsOne
    <3>. QED  BY <3>1, <3>2, DistributionIs
  <2>6. ASSUME NEW r \in own PROVE good(r)
    <3>1. PICK v \in named, l \in lanes : r \in Distribution(v, l, pOf(v, l), cOf(v, l))
      <4>. HIDE DEF named, lanes, pOf, cOf
      <4>. QED  BY <2>6
    <3>2. pOf(v, l) \subseteq ps /\ cOf(v, l) \subseteq cs
      OBVIOUS
    <3>3. /\ r.vendor = v /\ r.lane = l /\ r.n = Cardinality(cOf(v, l))
          /\ r.p50 <= r.p90 /\ r.p90 <= r.p99
          /\ cOf(v, l) # {} => {r.p50, r.p90, r.p99} \subseteq {c.days : c \in cOf(v, l)}
      <4>. HIDE DEF named, lanes, pOf, cOf
      <4>. QED  BY <2>5, <3>1, <3>2
    <3>4. whole(r) = cOf(v, l)
      <4>1. v # Default
        OBVIOUS
      <4>2. \A c : (c.lane = r.lane /\ r.vendor \in {Default, c.vendor})
                     <=> (c.lane = l /\ c.vendor = v)
        BY <3>3, <4>1
      <4>. QED  BY <4>2
    <3>. HIDE DEF whole, cOf
    <3>. QED  BY <3>3, <3>4
  <2>7. ASSUME NEW r \in all PROVE good(r)
    <3>1. PICK l \in lanes : r \in Distribution(Default, l, OverAll(ps, l), OverAll(cs, l))
      <4>. HIDE DEF lanes
      <4>. QED  BY <2>7
    <3>2. OverAll(ps, l) \subseteq ps /\ OverAll(cs, l) \subseteq cs
      BY DEF OverAll
    <3>3. /\ r.vendor = Default /\ r.lane = l /\ r.n = Cardinality(OverAll(cs, l))
          /\ r.p50 <= r.p90 /\ r.p90 <= r.p99
          /\ OverAll(cs, l) # {} =>
               {r.p50, r.p90, r.p99} \subseteq {c.days : c \in OverAll(cs, l)}
      <4>. HIDE DEF lanes
      <4>. QED  BY <2>5, <3>1, <3>2
    <3>4. whole(r) = OverAll(cs, l)
      BY <3>3 DEF OverAll
    <3>. HIDE DEF whole
    <3>. QED  BY <3>3, <3>4
  <2>8. ASSUME NEW c \in cs PROVE \E r \in all : r.vendor = Default /\ r.lane = c.lane
    <3>1. c.lane \in lanes /\ c \in OverAll(cs, c.lane)
      BY <2>4 DEF OverAll
    <3>2. OverAll(ps, c.lane) \subseteq ps /\ OverAll(cs, c.lane) \subseteq cs
      BY DEF OverAll
    <3>3. PICK r \in Distribution(Default, c.lane, OverAll(ps, c.lane), OverAll(cs, c.lane)) :
             r.vendor = Default /\ r.lane = c.lane
      <4>. HIDE DEF lanes
      <4>. QED  BY <2>5, <3>1, <3>2
    <3>4. r \in all
      <4>. HIDE DEF lanes
      <4>. QED  BY <3>1
    <3>. QED  BY <3>3, <3>4
  <2>. HIDE DEF own, all, good
  <2>. QED  BY <2>3, <2>6, <2>7, <2>8
<1>. QED  BY <1>1, AnswersAreComputed, PTL

------------------------------------------------------------------------------
(* The candidate frontiers.                                               *)

\* What the actions of an option move is what is bought, fetched and given away.
LEMMA ActionsAddUp ==
  ASSUME NEW A, IsFiniteSet(A), \A a \in A : a.qty \in Int,
         \A a \in A : a.qty = 0 \/ a.kind \in {"purchase", "transfer_in"}
                                \/ a.kind \in {"transfer_out", "reduce_stock", "sell"}
  PROVE  Sum(A, "qty") = Sum(Moves(A, {"purchase"}), "qty") + Sum(Moves(A, {"transfer_in"}), "qty")
                           + Sum(Moves(A, {"transfer_out", "reduce_stock", "sell"}), "qty")
<1>. DEFINE f == [a \in A |-> a.qty]
            X == Moves(A, {"purchase"})
            Y == Moves(A, {"transfer_in"})
            Z == Moves(A, {"transfer_out", "reduce_stock", "sell"})
<1>1. /\ X \in SUBSET A /\ Y \in SUBSET A /\ Z \in SUBSET A
      /\ X \cap Y = {} /\ (X \cup Y) \cap Z = {}
      /\ \A a \in A \ ((X \cup Y) \cup Z) : a.qty = 0
  BY DEF Moves
<1>2. \A a \in A : f[a] = a.qty /\ f[a] \in Int
  OBVIOUS
<1>. HIDE DEF f, X, Y, Z
<1>3. ASSUME NEW T \in SUBSET A PROVE Sum(T, "qty") = SumFunctionOnSet(f, T)
  <2>. DEFINE g == [a \in T |-> a["qty"]]
  <2>1. Sum(T, "qty") = SumFunctionOnSet(g, T)
    BY Zenon DEF Sum, Total, SumFunction
  <2>2. IsFiniteSet(T)
    BY FS_Subset
  <2>3. \A a \in T : g[a] = f[a] /\ g[a] \in Int
    BY <1>2
  <2>. HIDE DEF g
  <2>. QED  BY <2>1, <2>2, <2>3, SumSame
<1>4. IsFiniteSet(X) /\ IsFiniteSet(Y) /\ IsFiniteSet(Z) /\ IsFiniteSet(X \cup Y)
  <2>1. X \cup Y \in SUBSET A
    BY <1>1
  <2>. QED  BY <1>1, <2>1, FS_Subset
<1>5. SumFunctionOnSet(f, A) = SumFunctionOnSet(f, (X \cup Y) \cup Z)
  <2>1. (X \cup Y) \cup Z \in SUBSET A
    BY <1>1
  <2>. QED  BY <1>1, <1>2, <2>1, SumRest
<1>6. SumFunctionOnSet(f, (X \cup Y) \cup Z) = SumFunctionOnSet(f, X \cup Y) + SumFunctionOnSet(f, Z)
  BY <1>1, <1>2, <1>4, SumUnion
<1>7. SumFunctionOnSet(f, X \cup Y) = SumFunctionOnSet(f, X) + SumFunctionOnSet(f, Y)
  BY <1>1, <1>2, <1>4, SumUnion
<1>8. A \in SUBSET A
  OBVIOUS
<1>9. /\ Sum(A, "qty") = SumFunctionOnSet(f, A) /\ Sum(X, "qty") = SumFunctionOnSet(f, X)
      /\ Sum(Y, "qty") = SumFunctionOnSet(f, Y) /\ Sum(Z, "qty") = SumFunctionOnSet(f, Z)
  BY <1>1, <1>3, <1>8
<1>10. Sum(A, "qty") = Sum(X, "qty") + Sum(Y, "qty") + Sum(Z, "qty")
  BY <1>5, <1>6, <1>7, <1>9
<1>. QED  BY <1>10 DEF X, Y, Z

\* The actions an option of a kind may be made of.
ActionsOf(kind, A) ==
    /\ IsFiniteSet(A) /\ A # {}
    /\ \A a \in A : /\ a.qty \in Nat /\ ActionAccepted(a)
                    /\ a.kind \in {"no_change", "adjust_policy", "purchase", "transfer_in",
                                   "reduce_stock", "sell"}
    /\ {a.kind : a \in A} \ {"adjust_policy"} = MovementsOf[kind]
    /\ kind = "adjust_policy" => \E a \in A : a.kind = "adjust_policy"

\* Made of them an option passes its validators, from any position.
LEMMA OptionIsAccepted ==
  ASSUME NEW kind, NEW current, NEW target, NEW A, NEW pos, NEW value, NEW aog, NEW confidence,
         NEW reasons, ActionsOf(kind, A), kind # "no_change"
  PROVE  LET o == ReconcileCandidate(kind, current, target, A, pos, value, aog, confidence, reasons)
         IN  o.actions = A /\ CandidateAccepted(o) /\ ~IsNoChange(o)
<1>. DEFINE o == ReconcileCandidate(kind, current, target, A, pos, value, aog, confidence, reasons)
            bought   == Sum(Moves(A, {"purchase"}), "qty")
            fetched  == Sum(Moves(A, {"transfer_in"}), "qty")
            outbound == Sum(Moves(A, {"transfer_out", "reduce_stock", "sell"}), "qty")
            before   == pos.available + pos.receipts
            net      == Units(before + bought + fetched - outbound) - pos.demand
            hard     == HardFailures(target, before, bought + fetched, outbound)
            cash     == Total(A, LAMBDA a : a.qty * a.unit)
            moved    == Sum(A, "qty")
<1>1. moved = bought + fetched + outbound
  <2>1. \A a \in A : a.qty = 0 \/ a.kind \in {"purchase", "transfer_in"}
                               \/ a.kind \in {"transfer_out", "reduce_stock", "sell"}
    BY DEF ActionsOf, ActionAccepted
  <2>2. IsFiniteSet(A) /\ \A a \in A : a.qty \in Int
    BY DEF ActionsOf
  <2>. QED  BY <2>1, <2>2, ActionsAddUp
<1>2. /\ o.kind = kind /\ o.actions = A /\ o.cash = cash /\ o.purchase = bought
      /\ o.transfer = fetched /\ o.outbound = outbound /\ o.moved = moved
      /\ o.available = pos.available /\ o.receipts = pos.receipts /\ o.demand = pos.demand
      /\ o.net = net /\ o.shortage = Most(0, -net) /\ o.excess = Most(0, net)
      /\ o.reasons = reasons /\ o.hard = hard
      /\ o.feasible = (reasons = {} /\ hard = {})
  BY Zenon DEF ReconcileCandidate
<1>3. o.feasible <=> (o.hard = {} /\ o.reasons = {})
  <2>. HIDE DEF o, hard
  <2>. QED  BY <1>2
<1>. HIDE DEF o, bought, fetched, outbound, hard, cash, moved
<1>4. o.net = Units(o.available + o.receipts + o.purchase + o.transfer - o.outbound) - o.demand
  BY <1>2
<1>5. o.shortage = Most(0, -o.net) /\ o.excess = Most(0, o.net)
  <2>. HIDE DEF net
  <2>. QED  BY <1>2
<1>6. ~IsNoChange(o)
  BY <1>2 DEF IsNoChange
<1>7. /\ A # {} /\ \A a \in A : ActionAccepted(a)
      /\ {a.kind : a \in A} \ {"adjust_policy"} = MovementsOf[kind]
      /\ kind = "adjust_policy" => \E a \in A : a.kind = "adjust_policy"
  BY DEF ActionsOf
<1>8. o.cash = Total(o.actions, LAMBDA a : a.qty * a.unit)
  BY <1>2, Zenon DEF cash
<1>9. o.moved = o.purchase + o.transfer + o.outbound
  BY <1>1, <1>2
<1>. HIDE DEF net
<1>10. CandidateAccepted(o)
  BY <1>2, <1>3, <1>4, <1>5, <1>6, <1>7, <1>8, <1>9, Zenon DEF CandidateAccepted
<1>. QED  BY <1>2, <1>6, <1>10 DEF o

\* Doing nothing passes them as well.
LEMMA NothingIsAccepted ==
  ASSUME NEW current, NEW pos, NEW value, NEW aog, NEW confidence
  PROVE  LET o == NoChange(current, pos, value, aog, confidence)
         IN  CandidateAccepted(o) /\ IsNoChange(o)
<1>. DEFINE A == {NoAction}
            o == ReconcileCandidate("no_change", current, current, A, pos, value, aog, confidence, {})
            bought   == Sum(Moves(A, {"purchase"}), "qty")
            fetched  == Sum(Moves(A, {"transfer_in"}), "qty")
            outbound == Sum(Moves(A, {"transfer_out", "reduce_stock", "sell"}), "qty")
            before   == pos.available + pos.receipts
            net      == Units(before + bought + fetched - outbound) - pos.demand
            hard     == HardFailures(current, before, bought + fetched, outbound)
            cash     == Total(A, LAMBDA a : a.qty * a.unit)
            moved    == Sum(A, "qty")
<1>1. /\ NoAction.kind = "no_change" /\ NoAction.qty = 0 /\ NoAction.unit = 0
      /\ IsFiniteSet(A) /\ IsFiniteSet({})
  BY FS_Singleton, FS_EmptySet DEF NoAction
<1>2. /\ Moves(A, {"purchase"}) = {} /\ Moves(A, {"transfer_in"}) = {}
      /\ Moves(A, {"transfer_out", "reduce_stock", "sell"}) = {}
  BY <1>1 DEF Moves
<1>3. Sum({}, "qty") = 0
  <2>. DEFINE g == [a \in {} |-> a["qty"]]
  <2>1. Sum({}, "qty") = SumFunctionOnSet(g, {})
    BY Zenon DEF Sum, Total, SumFunction
  <2>. HIDE DEF g
  <2>. QED  BY <2>1, SumEmpty
<1>4. moved = 0
  <2>1. \A a \in A : a.qty \in Int /\ a.qty = 0
    BY <1>1
  <2>2. moved = Sum({}, "qty") + Sum({}, "qty") + Sum({}, "qty")
    <3>. HIDE DEF A
    <3>. QED  BY <1>1, <1>2, <2>1, ActionsAddUp
  <2>. HIDE DEF moved
  <2>. QED  BY <1>3, <2>2
<1>5. cash = 0
  <2>. DEFINE g == [a \in A |-> a.qty * a.unit]
  <2>1. cash = SumFunctionOnSet(g, A)
    BY Zenon DEF Total, SumFunction
  <2>2. g[NoAction] = 0 /\ g[NoAction] \in Int
    BY <1>1
  <2>. HIDE DEF g
  <2>3. SumFunctionOnSet(g, {NoAction}) = g[NoAction]
    BY <2>2, SumOne
  <2>. QED  BY <2>1, <2>2, <2>3
<1>6. bought = 0 /\ fetched = 0 /\ outbound = 0
  BY <1>2, <1>3
<1>7. /\ o.kind = "no_change" /\ o.actions = A /\ o.cash = cash /\ o.purchase = bought
      /\ o.transfer = fetched /\ o.outbound = outbound /\ o.moved = moved
      /\ o.current = current /\ o.target = current
      /\ o.available = pos.available /\ o.receipts = pos.receipts /\ o.demand = pos.demand
      /\ o.net = net /\ o.shortage = Most(0, -net) /\ o.excess = Most(0, net)
      /\ o.reasons = {} /\ o.hard = hard
      /\ o.feasible = ({} = {} /\ hard = {})
  BY Zenon DEF ReconcileCandidate
<1>8. o.feasible <=> (o.hard = {} /\ o.reasons = {})
  <2>. HIDE DEF o, hard
  <2>. QED  BY <1>7
<1>. HIDE DEF o, bought, fetched, outbound, hard, cash, moved
<1>9. o.net = Units(o.available + o.receipts + o.purchase + o.transfer - o.outbound) - o.demand
  BY <1>7
<1>10. o.shortage = Most(0, -o.net) /\ o.excess = Most(0, o.net)
  <2>. HIDE DEF net
  <2>. QED  BY <1>7
<1>11. o.moved = o.purchase + o.transfer + o.outbound
  BY <1>4, <1>6, <1>7
<1>. HIDE DEF net
<1>12. /\ A # {} /\ \A a \in A : ActionAccepted(a)
       /\ {a.kind : a \in A} \ {"adjust_policy"} = MovementsOf["no_change"]
  BY <1>1 DEF ActionAccepted, MovementsOf
<1>13. o.cash = Total(o.actions, LAMBDA a : a.qty * a.unit)
  BY <1>7, Zenon DEF cash
<1>14. IsNoChange(o) /\ o.kind # "adjust_policy"
  BY <1>7 DEF IsNoChange
<1>. HIDE DEF A
<1>15. CandidateAccepted(o)
  BY <1>4, <1>5, <1>7, <1>8, <1>9, <1>10, <1>11, <1>12, <1>13, <1>14, Zenon DEF CandidateAccepted
<1>. QED  BY <1>14, <1>15 DEF o, A, NoChange

\* What an option may be made of: the change of levels, what is moved and counted, and
\* what is fetched from somewhere.
Offer(r) ==
    /\ r.type \in Types
    /\ r.type # "ADJUST" => r.qty \in Nat /\ r.qty > 0
    /\ r.type = "TRANSFER" => r.donor # None

Offered(G) == IsFiniteSet(G) /\ G # {} /\ \A r \in G : Offer(r)

TypesOf(G) == {r.type : r \in G} \ {"ADJUST"}

\* The actions of the kinds that a set of recommendations has, and that it has one.
LEMMA ActionsAre ==
  ASSUME NEW G, Offered(G), NEW u
  PROVE  /\ \A kind \in CandidateKinds(G) :
               ActionsOf(kind, {ActionOf(r, u) : r \in G}) /\ kind # "no_change"
         /\ TypesOf(G) \subseteq Inbound => CandidateKinds(G) # {}
         /\ (\E t \in Outbound : TypesOf(G) = {t}) => CandidateKinds(G) # {}
<1>. DEFINE P == TypesOf(G)
            act == [r \in G |-> ActionOf(r, u)]
            A == {ActionOf(r, u) : r \in G}
<1>1. P \subseteq {"PURCHASE", "TRANSFER", "REDUCE", "SELL"}
  BY DEF TypesOf, Offered, Offer, Types
<1>2. IsFiniteSet(A) /\ A # {}
  <2>1. {act[r] : r \in G} = A
    OBVIOUS
  <2>2. IsFiniteSet({act[r] : r \in G})
    <3>. HIDE DEF act
    <3>. QED  BY ImageFinite DEF Offered
  <2>. HIDE DEF act
  <2>. QED  BY <2>1, <2>2 DEF Offered
<1>3. ASSUME NEW r \in G
      PROVE  LET a == ActionOf(r, u) IN
             /\ a.qty \in Nat /\ ActionAccepted(a) /\ a.kind = KindOf[r.type]
             /\ a.kind \in {"no_change", "adjust_policy", "purchase", "transfer_in",
                            "reduce_stock", "sell"}
  <2>. DEFINE a == ActionOf(r, u)
  <2>. SUFFICES /\ a.qty \in Nat /\ ActionAccepted(a) /\ a.kind = KindOf[r.type]
                /\ a.kind \in {"no_change", "adjust_policy", "purchase", "transfer_in",
                               "reduce_stock", "sell"}
    OBVIOUS
  <2>1. /\ a.kind = KindOf[r.type] /\ a.qty = IF r.type = "ADJUST" THEN 0 ELSE r.qty
        /\ a.unit = IF r.type = "PURCHASE" THEN u ELSE 0
        /\ a.source = r.donor
    BY Zenon DEF ActionOf
  <2>. HIDE DEF a
  <2>2. /\ r.type \in Types
        /\ r.type # "ADJUST" => r.qty \in Nat /\ r.qty > 0
        /\ r.type = "TRANSFER" => r.donor # None
    BY DEF Offered, Offer
  <2>3. CASE r.type = "ADJUST"
    BY <2>1, <2>2, <2>3 DEF KindOf, ActionAccepted
  <2>4. CASE r.type = "PURCHASE"
    BY <2>1, <2>2, <2>4 DEF KindOf, ActionAccepted
  <2>5. CASE r.type = "TRANSFER"
    BY <2>1, <2>2, <2>5 DEF KindOf, ActionAccepted
  <2>6. CASE r.type \in {"REDUCE", "SELL"}
    BY <2>1, <2>2, <2>6 DEF KindOf, ActionAccepted
  <2>. QED  BY <2>2, <2>3, <2>4, <2>5, <2>6 DEF Types
<1>4. {a.kind : a \in A} \ {"adjust_policy"} = {KindOf[t] : t \in P}
  <2>1. \A t \in Types : KindOf[t] = "adjust_policy" <=> t = "ADJUST"
    BY DEF Types, KindOf
  <2>2. \A r \in G : r.type \in Types /\ ActionOf(r, u).kind = KindOf[r.type]
    BY <1>3 DEF Offered, Offer
  <2>3. {a.kind : a \in A} = {KindOf[r.type] : r \in G}
    BY <2>2
  <2>. QED  BY <2>1, <2>2, <2>3 DEF TypesOf
<1>5. /\ P = Inbound => CandidateKinds(G) = {"transfer_purchase"}
      /\ P = {"TRANSFER"} => CandidateKinds(G) = {"transfer"}
      /\ \A t \in {"PURCHASE", "REDUCE", "SELL"} :
            P = {t} => CandidateKinds(G) = {KindOf[t]}
      /\ P = {} => CandidateKinds(G) = {"adjust_policy"}
      /\ CandidateKinds(G) # {} =>
            P = Inbound \/ P = {} \/ \E t \in {"PURCHASE", "TRANSFER", "REDUCE", "SELL"} : P = {t}
  <2>1. CandidateKinds(G) =
          CASE P = Inbound        -> {"transfer_purchase"}
            [] P = {"TRANSFER"}   -> {"transfer"}
            [] Cardinality(P) = 1 /\ P # {"TRANSFER"} -> {KindOf[t] : t \in P}
            [] P = {} /\ G # {} -> {"adjust_policy"}
            [] OTHER -> {}
    BY Zenon DEF CandidateKinds, TypesOf
  <2>2. Cardinality(Inbound) # 1 /\ Inbound # {"TRANSFER"}
    <3>1. \A t : Inbound # {t}
      BY DEF Inbound
    <3>2. IsFiniteSet(Inbound)
      <4>1. IsFiniteSet({"PURCHASE"} \cup {"TRANSFER"})
        BY FS_Singleton, FS_Union
      <4>. QED  BY <4>1 DEF Inbound
    <3>. QED  BY <3>1, <3>2, FS_Singleton
  <2>3. Cardinality(P) = 1 => \E t \in P : P = {t}
    <3>. DEFINE f == [r \in G |-> r.type]
    <3>1. P \subseteq {f[r] : r \in G}
      BY DEF TypesOf
    <3>. HIDE DEF f, P
    <3>2. IsFiniteSet({f[r] : r \in G})
      BY ImageFinite DEF Offered
    <3>3. IsFiniteSet(P)
      BY <3>1, <3>2, FS_Subset
    <3>. QED  BY <3>3, FS_Singleton
  <2>4. \A t : Cardinality({t}) = 1
    BY FS_Singleton
  <2>5. Cardinality({}) = 0 /\ G # {}
    BY FS_EmptySet DEF Offered
  <2>6. Inbound # {} /\ \A t : {t} # {}
    BY DEF Inbound
  <2>. HIDE DEF P
  <2>7. P = Inbound => CandidateKinds(G) = {"transfer_purchase"}
    BY <2>1, <2>2, <2>6
  <2>8. P = {"TRANSFER"} => CandidateKinds(G) = {"transfer"}
    BY <2>1, <2>2, <2>6
  <2>9. ASSUME NEW t \in {"PURCHASE", "REDUCE", "SELL"}, P = {t}
        PROVE  CandidateKinds(G) = {KindOf[t]}
    <3>1. P # Inbound /\ P # {"TRANSFER"} /\ Cardinality(P) = 1
      BY <2>9, <2>2, <2>4
    <3>2. CandidateKinds(G) = {KindOf[x] : x \in P}
      BY <2>1, <2>6, <2>9, <3>1
    <3>. QED  BY <2>9, <3>2
  <2>10. P = {} => CandidateKinds(G) = {"adjust_policy"}
    BY <2>1, <2>5, <2>6
  <2>11. CandidateKinds(G) # {} =>
            P = Inbound \/ P = {} \/ \E t \in {"PURCHASE", "TRANSFER", "REDUCE", "SELL"} : P = {t}
    <3>1. CandidateKinds(G) # {} => P = Inbound \/ P = {"TRANSFER"} \/ Cardinality(P) = 1 \/ P = {}
      BY <2>1
    <3>. QED  BY <1>1, <2>3, <3>1
  <2>. QED  BY <2>7, <2>8, <2>9, <2>10, <2>11
<1>6. P = {} => \E a \in A : a.kind = "adjust_policy"
  <2>. SUFFICES ASSUME P = {} PROVE \E a \in A : a.kind = "adjust_policy"
    OBVIOUS
  <2>1. PICK r \in G : r.type = "ADJUST"
    BY DEF TypesOf, Offered
  <2>2. ActionOf(r, u).kind = "adjust_policy"
    BY <1>3, <2>1 DEF KindOf
  <2>. QED  BY <2>2
<1>. HIDE DEF P, act
<1>7. ASSUME NEW kind \in CandidateKinds(G)
      PROVE  /\ {KindOf[t] : t \in P} = MovementsOf[kind] /\ kind # "no_change"
             /\ kind = "adjust_policy" => \E a \in A : a.kind = "adjust_policy"
  <2>. HIDE DEF A
  <2>1. CASE P = Inbound
    <3>1. kind = "transfer_purchase"
      BY <1>5, <2>1
    <3>2. {KindOf[t] : t \in Inbound} = {"transfer_in", "purchase"}
      BY DEF Inbound, KindOf
    <3>. QED  BY <2>1, <3>1, <3>2 DEF MovementsOf
  <2>2. CASE P = {}
    <3>1. kind = "adjust_policy"
      BY <1>5, <2>2
    <3>2. {KindOf[t] : t \in {}} = {}
      OBVIOUS
    <3>. QED  BY <1>6, <2>2, <3>1, <3>2 DEF MovementsOf
  <2>3. ASSUME NEW t \in {"PURCHASE", "TRANSFER", "REDUCE", "SELL"}, P = {t}
        PROVE  {KindOf[x] : x \in P} = MovementsOf[kind] /\ kind # "no_change"
               /\ kind # "adjust_policy"
    <3>1. {KindOf[x] : x \in P} = {KindOf[t]}
      BY <2>3
    <3>2. CASE t = "TRANSFER"
      <4>1. kind = "transfer"
        BY <1>5, <2>3, <3>2
      <4>. QED  BY <3>1, <3>2, <4>1 DEF MovementsOf, KindOf
    <3>3. CASE t # "TRANSFER"
      <4>1. kind = KindOf[t]
        BY <1>5, <2>3, <3>3
      <4>. QED  BY <2>3, <3>1, <3>3, <4>1 DEF MovementsOf, KindOf
    <3>. QED  BY <3>2, <3>3
  <2>. QED  BY <1>5, <2>1, <2>2, <2>3
<1>8. ASSUME NEW kind \in CandidateKinds(G) PROVE ActionsOf(kind, A)
  <2>1. \A a \in A : /\ a.qty \in Nat /\ ActionAccepted(a)
                     /\ a.kind \in {"no_change", "adjust_policy", "purchase", "transfer_in",
                                    "reduce_stock", "sell"}
    BY <1>3
  <2>. HIDE DEF A
  <2>. QED  BY <1>2, <1>4, <1>7, <2>1 DEF ActionsOf
<1>9. P \subseteq Inbound => CandidateKinds(G) # {}
  <2>1. P \subseteq Inbound => P = {} \/ P = Inbound \/ P = {"TRANSFER"} \/ P = {"PURCHASE"}
    BY DEF Inbound
  <2>. QED  BY <1>5, <2>1
<1>10. ASSUME NEW t \in Outbound, P = {t} PROVE CandidateKinds(G) # {}
  <2>1. t \in {"PURCHASE", "REDUCE", "SELL"}
    BY DEF Outbound
  <2>2. CandidateKinds(G) = {KindOf[t]}
    BY <1>5, <1>10, <2>1
  <2>. QED  BY <2>2
<1>. QED  BY <1>7, <1>8, <1>9, <1>10 DEF P

\* The actions of a set of recommendations.
ActionsFor(call, G) == {ActionOf(r, Economics(call.ctx).cost) : r \in G}

\* The options made of a set of recommendations have all of it, and pass their validators.
LEMMA MadeOfAll ==
  ASSUME NEW call, NEW pos, NEW G, Offered(G), NEW target, NEW aog
  PROVE  LET made == FromRecommendations(call, pos, G, target, aog) IN
         /\ \A o \in made : /\ CandidateAccepted(o) /\ ~IsNoChange(o)
                            /\ o.actions = ActionsFor(call, G)
         /\ CandidateKinds(G) # {} => made # {}
<1>. DEFINE A == {ActionOf(r, Economics(call.ctx).cost) : r \in G}
            option(kind) == ReconcileCandidate(kind, call.ctx.current, target, A, pos,
                              Economics(call.ctx).cost, aog, Confidence(call.ctx),
                              InfeasibilityReasons(G))
            made == FromRecommendations(call, pos, G, target, aog)
<1>1. made = {option(kind) : kind \in CandidateKinds(G)}
  BY Zenon DEF FromRecommendations
<1>2. \A kind \in CandidateKinds(G) : ActionsOf(kind, A) /\ kind # "no_change"
  BY ActionsAre
<1>3. ASSUME NEW kind \in CandidateKinds(G)
      PROVE  /\ CandidateAccepted(option(kind)) /\ ~IsNoChange(option(kind))
             /\ option(kind).actions = A
  <2>. HIDE DEF A
  <2>. QED  BY <1>2, OptionIsAccepted
<1>. HIDE DEF made, option, A
<1>4. \A o \in made : CandidateAccepted(o) /\ ~IsNoChange(o) /\ o.actions = A
  BY <1>1, <1>3
<1>5. CandidateKinds(G) # {} => made # {}
  BY <1>1
<1>. QED  BY <1>4, <1>5 DEF made, A, ActionsFor

\* The options of a key at a position are accepted, one of them is to do nothing, and each
\* group of movements that one option may have is in one.
LEMMA OptionsAre ==
  ASSUME NEW call, NEW pos, NEW R, IsFiniteSet(R), \A r \in R : Offer(r)
  PROVE  LET options == OptionsAt(call, pos, R) IN
         /\ \A o \in options : CandidateAccepted(o)
         /\ Cardinality({o \in options : IsNoChange(o)}) = 1
         /\ \A g \in PhysicalGroups(R) : CandidateKinds(g) # {} =>
               \E o \in options : o.actions = ActionsFor(call, g)
<1>. DEFINE adjust   == {r \in R : r.type = "ADJUST"}
            proposed == [f \in Fields |-> call.levels[f]]
            now      == RiskLevel(call.ctx, pos.shortage > 0)
            after(g) == RiskLevel(call.ctx, EndingNet(pos.net, g) < 0)
            moves(g) == FromRecommendations(call, pos, g, call.ctx.current, after(g))
            both(g)  == FromRecommendations(call, pos, g \cup adjust, proposed, after(g))
            groups   == PhysicalGroups(R)
            physical == UNION {moves(g) : g \in groups}
            combined == UNION {both(g) : g \in groups}
            none     == NoChange(call.ctx.current, pos, Economics(call.ctx).cost, now, Confidence(call.ctx))
            levels   == FromRecommendations(call, pos, adjust, proposed, now)
            rest     == IF adjust = {} THEN {} ELSE levels \cup combined
            options  == OptionsAt(call, pos, R)
            sound(o) == CandidateAccepted(o) /\ ~IsNoChange(o)
<1>1. options = {none} \cup physical \cup rest
  BY Zenon DEF OptionsAt
<1>2. CandidateAccepted(none) /\ IsNoChange(none)
  BY NothingIsAccepted
<1>3. \A T \in SUBSET R : T # {} => Offered(T)
  BY FS_Subset DEF Offered
<1>4. groups \subseteq SUBSET R /\ adjust \in SUBSET R /\ \A g \in groups : g # {}
  BY DEF PhysicalGroups
<1>. HIDE DEF adjust, groups, none
<1>5. ASSUME NEW g \in groups
      PROVE  /\ \A o \in moves(g) : sound(o) /\ o.actions = ActionsFor(call, g)
             /\ CandidateKinds(g) # {} => moves(g) # {}
  <2>1. Offered(g)
    BY <1>3, <1>4
  <2>. HIDE DEF after
  <2>. QED  BY <2>1, MadeOfAll
<1>6. ASSUME NEW g \in groups PROVE \A o \in both(g) : sound(o)
  <2>1. Offered(g \cup adjust)
    BY <1>3, <1>4
  <2>. HIDE DEF after, proposed
  <2>. QED  BY <2>1, MadeOfAll
<1>7. ASSUME adjust # {} PROVE \A o \in levels : sound(o)
  <2>1. Offered(adjust)
    BY <1>3, <1>4, <1>7
  <2>. HIDE DEF now, proposed
  <2>. QED  BY <2>1, MadeOfAll
<1>. HIDE DEF moves, both, levels, sound, options
<1>8. \A o \in physical : sound(o)
  BY <1>5
<1>9. \A o \in combined : sound(o)
  BY <1>6
<1>10. \A o \in rest : sound(o)
  BY <1>7, <1>9
<1>11. \A g \in groups : CandidateKinds(g) # {} =>
          \E o \in physical : o.actions = ActionsFor(call, g)
  <2>. SUFFICES ASSUME NEW g \in groups, CandidateKinds(g) # {}
                PROVE  \E o \in physical : o.actions = ActionsFor(call, g)
    OBVIOUS
  <2>1. PICK o \in moves(g) : TRUE
    BY <1>5
  <2>2. o \in physical
    OBVIOUS
  <2>. QED  BY <1>5, <2>1, <2>2
<1>. HIDE DEF physical, rest
<1>12. \A o \in options : CandidateAccepted(o)
  BY <1>1, <1>2, <1>8, <1>10 DEF sound
<1>13. {o \in options : IsNoChange(o)} = {none}
  BY <1>1, <1>2, <1>8, <1>10 DEF sound
<1>14. Cardinality({o \in options : IsNoChange(o)}) = 1
  BY <1>13, FS_Singleton
<1>. QED  BY <1>1, <1>11, <1>12, <1>14 DEF options, groups

\* What a key is told, from its positions.
LEMMA AdvisedAre ==
  ASSUME NEW c, WorkListTyped(c), NEW k \in Served(c.contexts)
  PROVE  LET call == CallOf(c, k) IN
         /\ IsFiniteSet(RecommendKey(call))
         /\ \A r \in RecommendKey(call) :
               /\ Offer(r)
               /\ r.type \in Inbound => r.evidence = call.net /\ call.net.net < 0
               /\ r.type \in Outbound => r.evidence = call.near /\ ~(call.net.net < 0)
<1>. DEFINE call == CallOf(c, k)
            B == Arbitrate(call, Proposed(call))
<1>1. CallTyped(call)
  BY CallsTyped DEF CallOf
<1>2. RecommendKey(call) \subseteq Advice(c)
  BY DEF Advice, Calls, CallOf
<1>3. IsFiniteSet(RecommendKey(call))
  <2>1. IsFiniteSet(Advice(c))
    BY AdviceIsRankable DEF Rankable
  <2>. HIDE DEF call
  <2>. QED  BY <1>2, <2>1, FS_Subset
<1>. HIDE DEF call
<1>4. RecommendKey(call) = {Finalized(call, s) : s \in B}
  BY Zenon DEF RecommendKey
<1>5. ASSUME NEW s \in B
      PROVE  LET r == Finalized(call, s) IN
             /\ Offer(r)
             /\ r.type \in Inbound => r.evidence = call.net /\ call.net.net < 0
             /\ r.type \in Outbound => r.evidence = call.near /\ ~(call.net.net < 0)
  <2>. DEFINE r == Finalized(call, s)
  <2>. SUFFICES /\ Offer(r)
                /\ r.type \in Inbound => r.evidence = call.net /\ call.net.net < 0
                /\ r.type \in Outbound => r.evidence = call.near /\ ~(call.net.net < 0)
    OBVIOUS
  <2>1. /\ Proposal(call, s) /\ RestsOn(call, s) /\ s.type \in Types
        /\ s.type \in Inbound => call.net.net < 0
        /\ s.type \in Outbound => ~(call.net.net < 0)
    BY <1>1, ArbitratedAre
  <2>2. r.type = s.type /\ r.qty = s.qty /\ r.evidence = s.evidence /\ r.donor = s.donor
    BY FinalIs
  <2>. HIDE DEF r, B
  <2>. QED  BY <2>1, <2>2 DEF Proposal, RestsOn, Offer
<1>. HIDE DEF B
<1>6. \A r \in RecommendKey(call) :
         /\ Offer(r)
         /\ r.type \in Inbound => r.evidence = call.net /\ call.net.net < 0
         /\ r.type \in Outbound => r.evidence = call.near /\ ~(call.net.net < 0)
  BY <1>4, <1>5
<1>. QED  BY <1>3, <1>6 DEF call

\* The least of numbers that are all the same.
LEMMA LeastOfSame ==
  ASSUME NEW S, S # {}, NEW w \in Int, \A x \in S : x = w
  PROVE  Min(S) = w
<1>1. S = {w}
  OBVIOUS
<1>2. Min(S) \in {x \in S : \A y \in S : x <= y}
  BY <1>1 DEF Min
<1>. QED  BY <1>1, <1>2

\* The positions of the call of a key.
LEMMA PositionsAre ==
  ASSUME NEW c, WorkListTyped(c), NEW k \in Served(c.contexts)
  PROVE  LET call == CallOf(c, k) IN
         /\ call.key = k /\ k \in call.pool /\ call.pool \subseteq Expected(c.graphs, k)
         /\ call.window \in Nat /\ c.horizon \in Nat
         /\ call.net = NetPosition(c.contexts, call.pool, Expected(c.graphs, k) \ call.pool,
                                   call.window)
         /\ call.near = NetPosition(c.contexts, {k}, {}, c.horizon)
         /\ call.net.horizon = call.window /\ call.near.horizon = c.horizon
<1>. DEFINE call == CallOf(c, k)
            served == Served(c.contexts)
<1>1. /\ call.key = k /\ call.pool = PoolOf(c.graphs, served, k)
      /\ call.window = Most(LeadDays(c.contexts[k]), c.horizon)
  BY CallFields DEF CallOf
<1>2. k \in call.pool /\ call.pool \subseteq Expected(c.graphs, k)
  <2>1. served \in SUBSET DOMAIN c.contexts /\ k \in served
    BY ServedKeys
  <2>. HIDE DEF call, served
  <2>. QED  BY <1>1, <2>1, PoolIs
<1>3. call.window \in Nat /\ c.horizon \in Nat
  BY CallIs DEF CallOf, WorkListTyped
<1>4. /\ call.net = NetPosition(c.contexts, PoolOf(c.graphs, served, k),
                                Expected(c.graphs, k) \ PoolOf(c.graphs, served, k),
                                Most(LeadDays(c.contexts[k]), c.horizon))
      /\ call.near = NetPosition(c.contexts, {k}, {}, c.horizon)
  <2>. HIDE DEF served
  <2>. QED  BY Zenon DEF CallOf, CallAmong, CallOver, OwnPosition, served
<1>5. \A pool, rest, w : NetPosition(c.contexts, pool, rest, w).horizon = w
  BY Zenon DEF NetPosition, RollUp
<1>. HIDE DEF call, served
<1>. QED  BY <1>1, <1>2, <1>3, <1>4, <1>5 DEF call

\* Advice that is to be an option rests on the position of the frontier.
LEMMA AdviceRests ==
  ASSUME NEW c, WorkListTyped(c), NEW k \in Served(c.contexts),
         NEW r \in RecommendKey(CallOf(c, k)),
         r.type \in Inbound \/ (r.type \in Outbound /\ Expected(c.graphs, k) = {k})
  PROVE  r.evidence = NetPosition(c.contexts, CallOf(c, k).pool,
                                  Expected(c.graphs, k) \ CallOf(c, k).pool,
                                  CanonicalHorizon(CallOf(c, k), RecommendKey(CallOf(c, k))))
<1>. DEFINE call == CallOf(c, k)
            recs == RecommendKey(call)
            priority(x) == IF x.type \in Inbound THEN 0 ELSE IF x.type \in Outbound THEN 1 ELSE 2
            first == {x \in recs : \A y \in recs : priority(x) <= priority(y)}
            horizons == {x.evidence.horizon : x \in first}
<1>1. /\ call.pool \subseteq Expected(c.graphs, k) /\ k \in call.pool
      /\ call.window \in Nat /\ c.horizon \in Nat
      /\ call.net = NetPosition(c.contexts, call.pool, Expected(c.graphs, k) \ call.pool,
                                call.window)
      /\ call.near = NetPosition(c.contexts, {k}, {}, c.horizon)
      /\ call.net.horizon = call.window /\ call.near.horizon = c.horizon
  BY PositionsAre
<1>2. \A x \in recs : /\ x.type \in Inbound => x.evidence = call.net /\ call.net.net < 0
                      /\ x.type \in Outbound => x.evidence = call.near /\ ~(call.net.net < 0)
  BY AdvisedAre
<1>. HIDE DEF call
<1>3. r \in recs
  BY DEF call
<1>. HIDE DEF recs
<1>4. CanonicalHorizon(call, recs) = Min(horizons)
  <2>1. recs # {}
    BY <1>3
  <2>2. CanonicalHorizon(call, recs) = IF recs = {} THEN call.window ELSE Min(horizons)
    BY Zenon DEF CanonicalHorizon
  <2>. HIDE DEF horizons
  <2>. QED  BY <2>1, <2>2
<1>5. CASE r.type \in Inbound
  <2>1. priority(r) = 0 /\ \A x \in recs : priority(x) \in {0, 1, 2}
    BY <1>5
  <2>2. r \in first /\ \A x \in first : x \in recs /\ priority(x) <= 0
    BY <1>3, <2>1
  <2>3. \A x \in first : x.type \in Inbound
    BY <2>2
  <2>. HIDE DEF first
  <2>4. r.evidence = call.net /\ \A x \in first : x.evidence.horizon = call.window
    BY <1>1, <1>2, <1>3, <1>5, <2>2, <2>3
  <2>5. horizons # {} /\ \A x \in horizons : x = call.window
    BY <2>2, <2>4
  <2>. HIDE DEF horizons
  <2>6. CanonicalHorizon(call, recs) = call.window
    BY <1>1, <1>4, <2>5, LeastOfSame
  <2>. QED  BY <1>1, <2>4, <2>6 DEF call, recs
<1>6. CASE r.type \notin Inbound
  <2>1. r.type \in Outbound /\ Expected(c.graphs, k) = {k}
    BY <1>6
  <2>2. r.evidence = call.near /\ \A x \in recs : x.type \notin Inbound
    BY <1>2, <1>3, <2>1
  <2>3. priority(r) = 1 /\ \A x \in recs : priority(x) \in {1, 2}
    BY <1>6, <2>1, <2>2
  <2>4. r \in first /\ \A x \in first : x \in recs /\ priority(x) <= 1
    BY <1>3, <2>3
  <2>5. \A x \in first : x.type \in Outbound
    BY <2>2, <2>4
  <2>. HIDE DEF first
  <2>6. \A x \in first : x.evidence.horizon = c.horizon
    BY <1>1, <1>2, <2>4, <2>5
  <2>7. horizons # {} /\ \A x \in horizons : x = c.horizon
    BY <2>4, <2>6
  <2>. HIDE DEF horizons
  <2>8. CanonicalHorizon(call, recs) = c.horizon
    BY <1>1, <1>4, <2>7, LeastOfSame
  <2>9. call.pool = {k} /\ Expected(c.graphs, k) \ call.pool = {}
    BY <1>1, <2>1
  <2>. QED  BY <1>1, <2>2, <2>8, <2>9 DEF call, recs
<1>. QED  BY <1>5, <1>6

\* What a key is told to move is in an option of its frontier, at the position it rests on.
LEMMA AdviceIsInAnOption ==
  ASSUME NEW call, NEW pos, NEW recs, IsFiniteSet(recs), \A x \in recs : Offer(x),
         NEW r \in recs, r.type \in Inbound \cup Outbound, r.evidence = pos
  PROVE  \E o \in AdviceAt(call, recs, pos) :
            \E a \in o.actions : a.kind = KindOf[r.type] /\ a.qty = r.qty
<1>. DEFINE R == {x \in recs : x.evidence = pos}
            g == IF r.type \in Inbound THEN {x \in R : x.type \in Inbound}
                 ELSE {x \in R : x.type = r.type}
            u == Economics(call.ctx).cost
<1>1. IsFiniteSet(R) /\ \A x \in R : Offer(x)
  <2>1. R \subseteq recs
    OBVIOUS
  <2>. HIDE DEF R
  <2>. QED  BY <2>1, FS_Subset
<1>2. r \in g /\ g \subseteq R
  OBVIOUS
<1>3. g \in PhysicalGroups(R)
  BY <1>2 DEF PhysicalGroups, Outbound
<1>4. Offered(g)
  <2>. HIDE DEF g, R
  <2>1. IsFiniteSet(g)
    BY <1>1, <1>2, FS_Subset
  <2>. QED  BY <1>1, <1>2, <2>1 DEF Offered
<1>5. CandidateKinds(g) # {}
  <2>1. CASE r.type \in Inbound
    <3>1. TypesOf(g) \subseteq Inbound
      BY <2>1 DEF TypesOf
    <3>. HIDE DEF g
    <3>. QED  BY <1>4, <3>1, ActionsAre
  <2>2. CASE r.type \notin Inbound
    <3>1. r.type \in Outbound /\ r.type # "ADJUST"
      BY <2>2 DEF Outbound
    <3>2. TypesOf(g) = {r.type}
      BY <1>2, <2>2, <3>1 DEF TypesOf
    <3>. HIDE DEF g
    <3>. QED  BY <1>4, <3>1, <3>2, ActionsAre
  <2>. QED  BY <2>1, <2>2
<1>. HIDE DEF R, g
<1>6. PICK o \in OptionsAt(call, pos, R) : o.actions = ActionsFor(call, g)
  BY <1>1, <1>3, <1>5, OptionsAre
<1>7. o \in AdviceAt(call, recs, pos)
  <2>1. AdviceAt(call, recs, pos) = OptionsAt(call, pos, R)
    BY Zenon DEF AdviceAt, R
  <2>. QED  BY <1>6, <2>1
<1>8. ActionOf(r, u) \in o.actions
  BY <1>2, <1>6 DEF ActionsFor
<1>9. ActionOf(r, u).kind = KindOf[r.type] /\ ActionOf(r, u).qty = r.qty
  <2>1. r.type # "ADJUST"
    BY DEF Inbound, Outbound
  <2>2. /\ ActionOf(r, u).kind = KindOf[r.type]
        /\ ActionOf(r, u).qty = IF r.type = "ADJUST" THEN 0 ELSE r.qty
    BY Zenon DEF ActionOf
  <2>. QED  BY <2>1, <2>2
<1>. QED  BY <1>7, <1>8, <1>9

\* What the planner is told to bring in, and what a key served alone is told to give up, is
\* an option of the frontier, for work lists of any size, and no frontier is refused
\* (candidate/service.py, candidate/planner.py, contracts/candidate.py).
THEOREM OfferedAdvice ==
    AlgorithmSpec => []AdviceIsOffered
<1>1. Typed(case) /\ Answers => AdviceIsOffered
  <2>. DEFINE served == Served(case.contexts)
              frontiers == [k \in served |-> ServiceFrontier(case, k)]
              pos(k) == NetPosition(case.contexts, CallOf(case, k).pool,
                           Expected(case.graphs, k) \ CallOf(case, k).pool,
                           CanonicalHorizon(CallOf(case, k), RecommendKey(CallOf(case, k))))
              options(k) == AdviceAt(CallOf(case, k), RecommendKey(CallOf(case, k)), pos(k))
  <2>. SUFFICES ASSUME Typed(case), Answers, Computed("preview")
                PROVE  /\ ~result.raised
                       /\ \A k \in DOMAIN result.frontiers :
                             \A r \in RecommendKey(Call(case, k)) :
                                r.type \in Inbound
                                   \/ (r.type \in Outbound /\ Expected(case.graphs, k) = {k})
                                => \E o \in result.frontiers[k].considered :
                                      \E a \in o.actions : a.kind = KindOf[r.type] /\ a.qty = r.qty
    BY DEF AdviceIsOffered
  <2>1. WorkListTyped(case) /\ result = Preview(case)
    BY DEF Typed, Answers, Computed
  <2>2. /\ result.raised = (\E k \in DOMAIN frontiers : ~FrontierAccepted(frontiers[k]))
        /\ result.frontiers = frontiers
    <3>1. result = Previewed(frontiers)
      BY <2>1, Zenon DEF Preview
    <3>. HIDE DEF frontiers
    <3>. QED  BY <3>1, Zenon DEF Previewed
  <2>3. \A k : Call(case, k) = CallOf(case, k)
    BY DEF Call, CallOf
  <2>4. ASSUME NEW k \in served
        PROVE  /\ frontiers[k].key = k /\ frontiers[k].members = CallOf(case, k).pool
               /\ frontiers[k].considered = options(k)
    <3>1. frontiers[k] = ServiceFrontier(case, k)
      OBVIOUS
    <3>2. /\ ServiceFrontier(case, k).key = CallOf(case, k).key
          /\ ServiceFrontier(case, k).members = CallOf(case, k).pool
          /\ ServiceFrontier(case, k).considered =
               ServiceOptions(case, CallOf(case, k), RecommendKey(CallOf(case, k)))
      <4>1. ServiceFrontier(case, k) = FrontierOf(case, CallOf(case, k))
        BY <2>3 DEF ServiceFrontier
      <4>2. \A call, seen : /\ Frontier(call, seen).key = call.key
                            /\ Frontier(call, seen).members = call.pool
                            /\ Frontier(call, seen).considered = seen
        BY DEF Frontier
      <4>3. \A call : FrontierOf(case, call) =
                         Frontier(call, ServiceOptions(case, call, RecommendKey(call)))
        BY DEF FrontierOf
      <4>. QED  BY <4>1, <4>2, <4>3
    <3>3. CallOf(case, k).key = k
      BY <2>1, PositionsAre
    <3>4. ServiceOptions(case, CallOf(case, k), RecommendKey(CallOf(case, k))) = options(k)
      BY <3>3 DEF ServiceOptions
    <3>. HIDE DEF frontiers, options
    <3>. QED  BY <3>1, <3>2, <3>3, <3>4
  <2>5. ASSUME NEW k \in served
        PROVE  IsFiniteSet(RecommendKey(CallOf(case, k)))
               /\ \A r \in RecommendKey(CallOf(case, k)) : Offer(r)
    BY <2>1, AdvisedAre
  <2>6. ASSUME NEW k \in served PROVE FrontierAccepted(frontiers[k])
    <3>1. k \in CallOf(case, k).pool
      BY <2>1, PositionsAre
    <3>. DEFINE R == {r \in RecommendKey(CallOf(case, k)) : r.evidence = pos(k)}
    <3>2. options(k) = OptionsAt(CallOf(case, k), pos(k), R)
      BY DEF AdviceAt
    <3>3. IsFiniteSet(R) /\ \A r \in R : Offer(r)
      <4>1. R \subseteq RecommendKey(CallOf(case, k))
        OBVIOUS
      <4>. HIDE DEF R
      <4>. QED  BY <2>5, <4>1, FS_Subset
    <3>. HIDE DEF R
    <3>4. /\ \A o \in OptionsAt(CallOf(case, k), pos(k), R) : CandidateAccepted(o)
          /\ Cardinality({o \in OptionsAt(CallOf(case, k), pos(k), R) : IsNoChange(o)}) = 1
      <4>. HIDE DEF pos
      <4>. QED  BY <3>3, OptionsAre
    <3>. HIDE DEF frontiers, options, pos
    <3>. QED  BY <2>4, <3>1, <3>2, <3>4 DEF FrontierAccepted
  <2>7. ~result.raised
    <3>1. DOMAIN frontiers = served
      OBVIOUS
    <3>. HIDE DEF frontiers, served
    <3>. QED  BY <2>2, <2>6, <3>1
  <2>8. ASSUME NEW k \in served, NEW r \in RecommendKey(CallOf(case, k)),
               r.type \in Inbound \/ (r.type \in Outbound /\ Expected(case.graphs, k) = {k})
        PROVE  \E o \in options(k) : \E a \in o.actions : a.kind = KindOf[r.type] /\ a.qty = r.qty
    <3>1. r.evidence = pos(k)
      BY <2>1, <2>8, AdviceRests
    <3>2. r.type \in Inbound \cup Outbound
      BY <2>8
    <3>. HIDE DEF pos
    <3>. QED  BY <2>5, <3>1, <3>2, AdviceIsInAnOption
  <2>9. DOMAIN result.frontiers = served
    BY <2>2
  <2>. HIDE DEF frontiers, options, served
  <2>. QED  BY <2>2, <2>3, <2>4, <2>7, <2>8, <2>9
<1>. QED  BY <1>1, AnswersAreComputed, PTL

------------------------------------------------------------------------------
(* Products of counts.                                                   *)

Product(f, S) == FoldFunctionOnSet(LAMBDA a, b : a * b, 1, f, S)

\* The function the product over a set is the last value of, given the products over less.
Factors(f, S) == [T \in SUBSET S |-> IF T = {} THEN 1
              ELSE LET x == CHOOSE x \in T : TRUE IN f[x] * Product(f, T \ {x})]

IsFactors(h, f, S) == h = [T \in SUBSET S |-> IF T = {} THEN 1
              ELSE LET x == CHOOSE x \in T : TRUE IN f[x] * h[T \ {x}]]

\* What the product is by its definition: the value of a recursive function that is chosen.
LEMMA ProductChosen ==
  ASSUME NEW f, NEW S
  PROVE  Product(f, S) = (CHOOSE h : IsFactors(h, f, S))[S]
BY Zenon DEF Product, FoldFunctionOnSet, MapThenFoldSet, IsFactors

\* There is one such function over a finite set.
LEMMA ProductUnique ==
  ASSUME NEW f, NEW S, IsFiniteSet(S)
  PROVE  /\ IsFactors(Factors(f, S), f, S)
         /\ \A h : IsFactors(h, f, S) => h = Factors(f, S)
<1>. DEFINE G == {T \in SUBSET S : /\ IsFactors(Factors(f, T), f, T)
                                   /\ \A h : IsFactors(h, f, T) => h = Factors(f, T)}
<1>1. ASSUME NEW T \in SUBSET S, \A U \in SUBSET T : U # T => U \in G
      PROVE  T \in G
  <2>1. \A U \in SUBSET T : U # T => Product(f, U) = Factors(f, U)[U]
    <3>. SUFFICES ASSUME NEW U \in SUBSET T, U # T PROVE Product(f, U) = Factors(f, U)[U]
      OBVIOUS
    <3>1. IsFactors(Factors(f, U), f, U) /\ \A h : IsFactors(h, f, U) => h = Factors(f, U)
      BY <1>1
    <3>2. (CHOOSE h : IsFactors(h, f, U)) = Factors(f, U)
      BY <3>1
    <3>. QED  BY <3>2, ProductChosen
  <2>2. \A U \in SUBSET T : U # T => Product(f, U) = Factors(f, T)[U]
    BY <2>1 DEF Factors
  <2>3. \A U \in SUBSET T : U # {} => LET x == CHOOSE x \in U : TRUE IN
           U \ {x} \in SUBSET T /\ U \ {x} # T
    <3>. SUFFICES ASSUME NEW U \in SUBSET T, U # {}
                  PROVE  LET x == CHOOSE x \in U : TRUE IN U \ {x} \in SUBSET T /\ U \ {x} # T
      OBVIOUS
    <3>1. (CHOOSE x \in U : TRUE) \in U
      OBVIOUS
    <3>. QED  BY <3>1
  <2>4. IsFactors(Factors(f, T), f, T)
    <3>1. \A U \in SUBSET T : U # {} => LET x == CHOOSE x \in U : TRUE IN
             Factors(f, T)[U \ {x}] = Product(f, U \ {x})
      BY <2>2, <2>3
    <3>. DEFINE g == Factors(f, T)
    <3>2. \A U \in SUBSET T : U # {} => LET x == CHOOSE x \in U : TRUE IN
             g[U] = f[x] * g[U \ {x}]
      BY <3>1 DEF Factors
    <3>3. g = [U \in SUBSET T |-> g[U]] /\ g[{}] = 1
      BY DEF Factors
    <3>4. \A U \in SUBSET T : g[U] = IF U = {} THEN 1
              ELSE LET x == CHOOSE x \in U : TRUE IN f[x] * g[U \ {x}]
      BY <3>2, <3>3
    <3>. HIDE DEF g
    <3>5. IsFactors(g, f, T)
      BY <3>3, <3>4, Zenon DEF IsFactors
    <3>. QED  BY <3>5 DEF g
  <2>5. ASSUME NEW h, IsFactors(h, f, T) PROVE h = Factors(f, T)
    <3>1. ASSUME NEW U \in SUBSET T, U # T PROVE h[U] = Product(f, U)
      <4>. DEFINE k == [V \in SUBSET U |-> h[V]]
      <4>1. \A V \in SUBSET U : V # {} => V \ {CHOOSE x \in V : TRUE} \in SUBSET U
        OBVIOUS
      <4>2. \A V \in SUBSET U : h[V] = IF V = {} THEN 1
              ELSE LET x == CHOOSE x \in V : TRUE IN f[x] * h[V \ {x}]
        BY <2>5 DEF IsFactors
      <4>3. IsFactors(k, f, U)
        BY <4>1, <4>2 DEF IsFactors
      <4>4. k = Factors(f, U)
        BY <1>1, <3>1, <4>3
      <4>. QED  BY <2>1, <3>1, <4>4
    <3>2. \A U \in SUBSET T : U # {} => LET x == CHOOSE x \in U : TRUE IN
             h[U \ {x}] = Product(f, U \ {x})
      BY <2>3, <3>1
    <3>. QED  BY <2>5, <3>2 DEF Factors, IsFactors
  <2>. QED  BY <2>4, <2>5
<1>2. S \in G
  <2>. HIDE DEF G
  <2>. QED  BY <1>1, SubsetInduction
<1>. QED  BY <1>2

\* The product over a finite set takes one element away.
LEMMA ProductIs ==
  ASSUME NEW f, NEW S, IsFiniteSet(S)
  PROVE  Product(f, S) =
           IF S = {} THEN 1
           ELSE LET x == CHOOSE x \in S : TRUE IN f[x] * Product(f, S \ {x})
<1>1. (CHOOSE h : IsFactors(h, f, S)) = Factors(f, S)
  BY ProductUnique
<1>. QED  BY <1>1, ProductChosen DEF Factors

\* The product of two counts is no larger than that of two that are as large.
LEMMA FactorsAtMost ==
  ASSUME NEW a \in Nat, NEW b \in Nat, NEW c \in Nat, NEW d \in Nat, a <= b, c <= d
  PROVE  a * c \in Nat /\ b * d \in Nat /\ a * c <= b * d
<1>1. PICK e \in Nat : b = a + e
  <2>1. b - a \in Nat /\ b = a + (b - a)
    OBVIOUS
  <2>. QED  BY <2>1
<1>2. PICK k \in Nat : d = c + k
  <2>1. d - c \in Nat /\ d = c + (d - c)
    OBVIOUS
  <2>. QED  BY <2>1
<1>4. b * d = a * c + a * k + e * c + e * k
  BY <1>1, <1>2
<1>3. a * c \in Nat /\ b * d \in Nat /\ a * k \in Nat /\ e * c \in Nat /\ e * k \in Nat
  OBVIOUS
<1>. QED  BY <1>3, <1>4

\* The product of counts is a count, and no larger where no factor is.
LEMMA ProductAtMost ==
  ASSUME NEW S, IsFiniteSet(S), NEW f, NEW g,
         \A x \in S : f[x] \in Nat /\ g[x] \in Nat /\ f[x] <= g[x]
  PROVE  /\ Product(f, S) \in Nat /\ Product(g, S) \in Nat
         /\ Product(f, S) <= Product(g, S)
<1>. DEFINE G == {T \in SUBSET S : /\ Product(f, T) \in Nat /\ Product(g, T) \in Nat
                                   /\ Product(f, T) <= Product(g, T)}
<1>1. ASSUME NEW T \in SUBSET S, \A U \in SUBSET T : U # T => U \in G
      PROVE  T \in G
  <2>1. IsFiniteSet(T)
    BY FS_Subset
  <2>2. CASE T = {}
    <3>1. Product(f, T) = 1 /\ Product(g, T) = 1
      BY <2>1, <2>2, ProductIs
    <3>. QED  BY <3>1
  <2>3. CASE T # {}
    <3>. DEFINE x == CHOOSE x \in T : TRUE
    <3>1. x \in T /\ T \ {x} \in SUBSET T /\ T \ {x} # T
      BY <2>3
    <3>2. /\ Product(f, T) = f[x] * Product(f, T \ {x})
          /\ Product(g, T) = g[x] * Product(g, T \ {x})
      BY <2>1, <2>3, ProductIs
    <3>. HIDE DEF x
    <3>3. /\ Product(f, T \ {x}) \in Nat /\ Product(g, T \ {x}) \in Nat
          /\ Product(f, T \ {x}) <= Product(g, T \ {x})
      BY <1>1, <3>1
    <3>4. f[x] \in Nat /\ g[x] \in Nat /\ f[x] <= g[x]
      BY <3>1
    <3>. HIDE DEF G
    <3>5. /\ f[x] * Product(f, T \ {x}) \in Nat /\ g[x] * Product(g, T \ {x}) \in Nat
          /\ f[x] * Product(f, T \ {x}) <= g[x] * Product(g, T \ {x})
      BY <3>3, <3>4, FactorsAtMost
    <3>. QED  BY <3>2, <3>5 DEF G
  <2>. QED  BY <2>2, <2>3
<1>2. S \in G
  <2>. HIDE DEF G
  <2>. QED  BY <1>1, SubsetInduction
<1>. QED  BY <1>2

------------------------------------------------------------------------------
(* What comes back of repair work.                                       *)

\* A part of a finite set can be counted, and is no larger.
LEMMA PartIsCounted ==
  ASSUME NEW S, IsFiniteSet(S), NEW T \in SUBSET S
  PROVE  IsFiniteSet(T) /\ Cardinality(T) \in Nat /\ Cardinality(T) <= Cardinality(S)
BY FS_Subset, FS_CardinalityType

\* What is known of the lines that are credited.
CreditTyped(p) ==
    /\ IsFiniteSet(DOMAIN p.included) /\ DOMAIN p.age = DOMAIN p.included
    /\ \A i \in DOMAIN p.included : p.included[i] \in Nat /\ p.age[i] \in Nat
    /\ p.eligible = SumFunctionOnSet(p.included, DOMAIN p.included)

\* What ends on a day was at risk until then.
LEMMA RiskIs ==
  ASSUME NEW cycles, WholeDays(cycles), NEW p, CreditTyped(p), NEW t \in Int
  PROVE  /\ AtRisk(cycles, p, t) \in Nat /\ Ended(cycles, t) \in Nat
         /\ Ended(cycles, t) <= AtRisk(cycles, p, t)
<1>. DEFINE A == {c \in DOMAIN cycles : cycles[c] >= t}
            B == {i \in DOMAIN p.included : p.age[i] >= t}
            E == {c \in DOMAIN cycles : cycles[c] = t}
            f == [i \in B |-> p.included[i]]
<1>1. /\ IsFiniteSet(A) /\ Cardinality(A) \in Nat
      /\ Cardinality(E) \in Nat /\ Cardinality(E) <= Cardinality(A)
  <2>1. IsFiniteSet(DOMAIN cycles) /\ A \in SUBSET DOMAIN cycles /\ E \in SUBSET A
    BY DEF WholeDays
  <2>. HIDE DEF A, E
  <2>. QED  BY <2>1, PartIsCounted
<1>2. IsFiniteSet(B) /\ \A i \in B : f[i] \in Nat
  BY PartIsCounted DEF CreditTyped
<1>3. AtRisk(cycles, p, t) = Cardinality(A) + SumFunctionOnSet(f, B)
  BY DEF AtRisk, Total, SumFunction
<1>4. SumFunctionOnSet(f, B) \in Nat
  <2>. HIDE DEF f, B
  <2>. QED  BY <1>2, SumNat
<1>5. Ended(cycles, t) = Cardinality(E)
  BY DEF Ended
<1>. HIDE DEF A, B, E, f
<1>. QED  BY <1>1, <1>3, <1>4, <1>5

\* The product over all that were at risk falls from day to day.
LEMMA KaplanMeierFalls ==
  ASSUME NEW cycles, WholeDays(cycles), NEW p, CreditTyped(p),
         NEW day \in Int, NEW later \in Int, day <= later
  PROVE  /\ KaplanMeier(cycles, p, day) \in Nat /\ KaplanMeier(cycles, p, later) \in Nat
         /\ KaplanMeier(cycles, p, later) <= KaplanMeier(cycles, p, day)
<1>. DEFINE S == {cycles[c] : c \in DOMAIN cycles}
            left(d) == [t \in S |-> IF t <= d THEN AtRisk(cycles, p, t) - Ended(cycles, t)
                                    ELSE AtRisk(cycles, p, t)]
<1>1. IsFiniteSet(S) /\ S \subseteq Int
  BY ImageFinite DEF WholeDays
<1>2. \A d : KaplanMeier(cycles, p, d) = Product(left(d), S)
  <2>. SUFFICES ASSUME NEW d PROVE KaplanMeier(cycles, p, d) = Product(left(d), S)
    OBVIOUS
  <2>1. DOMAIN left(d) = S
    OBVIOUS
  <2>2. KaplanMeier(cycles, p, d) = FoldFunction(LAMBDA a, b : a * b, 1, left(d))
    BY DEF KaplanMeier
  <2>. HIDE DEF left, S
  <2>3. FoldFunction(LAMBDA a, b : a * b, 1, left(d))
          = FoldFunctionOnSet(LAMBDA a, b : a * b, 1, left(d), DOMAIN left(d))
    BY DEF FoldFunction
  <2>. QED  BY <2>1, <2>2, <2>3 DEF Product
<1>3. \A t \in S : /\ left(day)[t] \in Nat /\ left(later)[t] \in Nat
                   /\ left(later)[t] <= left(day)[t]
  <2>. SUFFICES ASSUME NEW t \in S
                PROVE  /\ left(day)[t] \in Nat /\ left(later)[t] \in Nat
                       /\ left(later)[t] <= left(day)[t]
    OBVIOUS
  <2>1. t \in Int
    BY <1>1
  <2>. QED  BY <2>1, RiskIs
<1>. HIDE DEF S, left
<1>. QED  BY <1>1, <1>2, <1>3, ProductAtMost

\* Whatever the evidence, what lasts longer is counted, and is less from day to day.
LEMMA SurvivalFalls ==
  ASSUME NEW r, RepairTyped(r), NEW p, CreditTyped(p),
         NEW day \in Int, NEW later \in Int, day <= later
  PROVE  /\ Survival(r, p, day) \in Nat /\ Survival(r, p, later) \in Nat
         /\ Survival(r, p, later) <= Survival(r, p, day)
<1>1. SelectModel(r) \in {"kaplan_meier", "lognormal_quantile", "deterministic_promise", "unavailable"}
  BY DEF SelectModel
<1>2. CASE SelectModel(r) = "kaplan_meier"
  <2>1. WholeDays(CleanDurations(r.durations))
    BY FS_Subset DEF RepairTyped, WholeDays, CleanDurations
  <2>2. \A d : Survival(r, p, d) = KaplanMeier(CleanDurations(r.durations), p, d)
    BY <1>2 DEF Survival
  <2>. QED  BY <2>1, <2>2, KaplanMeierFalls
<1>3. CASE SelectModel(r) = "lognormal_quantile"
  <2>. DEFINE s == r.cycle.sample
              lasting(d) == {u \in DOMAIN s : s[u] > d}
  <2>1. \A d : Survival(r, p, d) = Cardinality(lasting(d))
    BY <1>3 DEF Survival
  <2>2. IsFiniteSet(DOMAIN s) /\ lasting(day) \in SUBSET DOMAIN s /\ lasting(later) \in SUBSET lasting(day)
    BY DEF RepairTyped, WholeDays
  <2>. HIDE DEF lasting, s
  <2>. QED  BY <2>1, <2>2, PartIsCounted
<1>4. CASE SelectModel(r) = "deterministic_promise"
  <2>1. \A d : Survival(r, p, d) = IF d < r.cycle.promised THEN 1 ELSE 0
    BY <1>4 DEF Survival
  <2>2. r.cycle.promised \in Int
    BY DEF RepairTyped
  <2>. QED  BY <2>1, <2>2
<1>5. CASE SelectModel(r) = "unavailable"
  BY <1>5 DEF Survival
<1>. QED  BY <1>1, <1>2, <1>3, <1>4, <1>5

\* Quotients rise with what is divided and fall with what divides.
LEMMA QuotientRises ==
  ASSUME NEW a \in Int, NEW b \in Int, NEW n \in Nat, n > 0, a <= b
  PROVE  a \div n \in Int /\ b \div n \in Int /\ a \div n <= b \div n
<1>. DEFINE x == a \div n  y == b \div n
<1>1. /\ x \in Int /\ y \in Int /\ a % n \in 0..(n - 1) /\ b % n \in 0..(n - 1)
      /\ a = n * x + (a % n) /\ b = n * y + (b % n)
  OBVIOUS
<1>2. ASSUME y < x PROVE FALSE
  <2>1. PICK k \in Nat : x = y + 1 + k
    <3>1. x - y - 1 \in Nat /\ x = y + 1 + (x - y - 1)
      BY <1>1, <1>2
    <3>. QED  BY <3>1
  <2>. HIDE DEF x, y
  <2>2. n * x = n * y + n + n * k /\ n * k \in Nat /\ n * y \in Int
    BY <1>1, <2>1
  <2>. QED  BY <1>1, <2>2
<1>. HIDE DEF x, y
<1>3. x <= y
  BY <1>1, <1>2
<1>. QED  BY <1>1, <1>3 DEF x, y

\* A quotient falls with a greater divisor.
LEMMA QuotientFalls ==
  ASSUME NEW a \in Nat, NEW n \in Nat, NEW m \in Nat, n > 0, n <= m
  PROVE  a \div n \in Nat /\ a \div m \in Nat /\ a \div m <= a \div n
<1>. DEFINE x == a \div m  y == a \div n
<1>1. /\ x \in Int /\ y \in Int /\ a % m \in 0..(m - 1) /\ a % n \in 0..(n - 1)
      /\ a = m * x + (a % m) /\ a = n * y + (a % n)
  OBVIOUS
<1>2. 0 \div m = 0 /\ 0 \div n = 0
  OBVIOUS
<1>3. x >= 0 /\ y >= 0
  BY <1>2, QuotientRises
<1>4. PICK j \in Nat : m = n + j
  <2>1. m - n \in Nat /\ m = n + (m - n)
    OBVIOUS
  <2>. QED  BY <2>1
<1>. HIDE DEF x, y
<1>5. ASSUME y < x PROVE FALSE
  <2>1. PICK k \in Nat : x = y + 1 + k
    <3>1. x - y - 1 \in Nat /\ x = y + 1 + (x - y - 1)
      BY <1>1, <1>5
    <3>. QED  BY <3>1
  <2>2. m * x = n * x + j * x /\ j * x \in Nat /\ n * x \in Int
    BY <1>1, <1>3, <1>4
  <2>3. n * x = n * y + n + n * k /\ n * k \in Nat /\ n * y \in Int
    BY <1>1, <2>1
  <2>. QED  BY <1>1, <2>2, <2>3
<1>6. x <= y
  BY <1>1, <1>5
<1>. QED  BY <1>1, <1>3, <1>6 DEF x, y

\* The share that stands for certainty is above zero.
LEMMA SureIsNat == Sure \in Nat /\ 0 < Sure
BY DEF Sure

\* A number held between nothing and all still rises.
LEMMA ClampRises ==
  ASSUME NEW s \in Nat, NEW v \in Int, NEW w \in Int, v <= w
  PROVE  /\ Most(0, Least(s, v)) \in 0..s /\ Most(0, Least(s, w)) \in 0..s
         /\ Most(0, Least(s, v)) <= Most(0, Least(s, w))
<1>1. CASE v > s
  BY <1>1 DEF Most, Least
<1>2. CASE v <= s /\ w > s
  BY <1>2 DEF Most, Least
<1>3. CASE w <= s
  BY <1>3 DEF Most, Least
<1>. QED  BY <1>1, <1>2, <1>3

\* What is gone is a share, and more of it by a later day.
LEMMA GoneRises ==
  ASSUME NEW r, RepairTyped(r), NEW p, CreditTyped(p),
         NEW from \in Int, NEW to \in Int, NEW later \in Int, from <= to, to <= later
  PROVE  /\ Gone(r, p, from, to) \in 0..Sure /\ Gone(r, p, from, later) \in 0..Sure
         /\ Gone(r, p, from, to) <= Gone(r, p, from, later)
<1>. DEFINE n == Survival(r, p, from)
            x == Survival(r, p, to)
            y == Survival(r, p, later)
<1>1. n \in Nat /\ x \in Nat /\ y \in Nat /\ y <= x
  BY SurvivalFalls
<1>2. /\ Gone(r, p, from, to)
           = IF n <= 0 THEN 0 ELSE Most(0, Least(Sure, (Sure * (n - x)) \div n))
      /\ Gone(r, p, from, later)
           = IF n <= 0 THEN 0 ELSE Most(0, Least(Sure, (Sure * (n - y)) \div n))
  BY DEF Gone
<1>. HIDE DEF n, x, y
<1>3. CASE n = 0
  BY <1>2, <1>3 DEF Sure
<1>4. CASE n > 0
  <2>1. /\ Sure * (n - x) \in Int /\ Sure * (n - y) \in Int /\ Sure * (n - x) <= Sure * (n - y)
    BY <1>1 DEF Sure
  <2>. DEFINE v == (Sure * (n - x)) \div n
              w == (Sure * (n - y)) \div n
  <2>2. v \in Int /\ w \in Int /\ v <= w
    BY <1>1, <1>4, <2>1, QuotientRises
  <2>3. /\ Gone(r, p, from, to) = Most(0, Least(Sure, v))
        /\ Gone(r, p, from, later) = Most(0, Least(Sure, w))
    BY <1>1, <1>2, <1>4
  <2>. HIDE DEF v, w
  <2>4. /\ Most(0, Least(Sure, v)) \in 0..Sure /\ Most(0, Least(Sure, w)) \in 0..Sure
        /\ Most(0, Least(Sure, v)) <= Most(0, Least(Sure, w))
    BY <2>2, SureIsNat, ClampRises
  <2>. QED  BY <2>3, <2>4, Zenon
<1>. QED  BY <1>1, <1>3, <1>4

\* A later day, and repairs that are not slower, leave no smaller chance.
LEMMA ChanceRises ==
  ASSUME NEW r, RepairTyped(r), NEW p, CreditTyped(p), NEW age \in Nat,
         NEW days \in Int, NEW later \in Int, days <= later,
         NEW tat \in Nat, NEW slower \in Nat, tat > 0, tat <= slower
  PROVE  /\ Conditional(r, p, age, days, slower) \in 0..Sure
         /\ Conditional(r, p, age, later, tat) \in 0..Sure
         /\ Conditional(r, p, age, days, slower) <= Conditional(r, p, age, later, tat)
<1>. DEFINE x == (10 * days) \div slower
            y == (10 * later) \div tat
<1>1. CASE days > 0
  <2>1. x \in Nat /\ y \in Nat /\ x <= y
    <3>1. /\ (10 * days) \div tat \in Nat /\ x \in Nat /\ x <= (10 * days) \div tat
      BY <1>1, QuotientFalls
    <3>2. y \in Int /\ (10 * days) \div tat <= y
      BY <1>1, QuotientRises
    <3>. HIDE DEF x, y
    <3>. QED  BY <3>1, <3>2
  <2>2. /\ Conditional(r, p, age, days, slower) = Gone(r, p, age, age + x)
        /\ Conditional(r, p, age, later, tat) = Gone(r, p, age, age + y)
    BY <1>1 DEF Conditional
  <2>. HIDE DEF x, y
  <2>3. age \in Int /\ age + x \in Int /\ age + y \in Int /\ age <= age + x /\ age + x <= age + y
    BY <2>1
  <2>. QED  BY <2>2, <2>3, GoneRises
<1>2. CASE ~(days > 0) /\ later > 0
  <2>1. y \in Nat
    BY <1>2, QuotientFalls
  <2>2. /\ Conditional(r, p, age, days, slower) = 0
        /\ Conditional(r, p, age, later, tat) = Gone(r, p, age, age + y)
    BY <1>2 DEF Conditional
  <2>. HIDE DEF x, y
  <2>3. age \in Int /\ age + y \in Int /\ age <= age + y
    BY <2>1
  <2>4. Gone(r, p, age, age + y) \in 0..Sure
    BY <2>3, GoneRises
  <2>. QED  BY <2>2, <2>4, SureIsNat
<1>3. CASE ~(days > 0) /\ ~(later > 0)
  <2>1. Conditional(r, p, age, days, slower) = 0 /\ Conditional(r, p, age, later, tat) = 0
    BY <1>3 DEF Conditional
  <2>. QED  BY <2>1 DEF Sure
<1>. QED  BY <1>1, <1>2, <1>3

\* What comes back in working order is part of what comes back, and of more of it more.
LEMMA YieldIs ==
  ASSUME NEW yield \in 0..100, NEW c \in Nat, NEW d \in Nat, c <= d
  PROVE  /\ (c * yield) \div 100 \in Nat /\ (d * yield) \div 100 \in Nat
         /\ (c * yield) \div 100 <= c /\ (c * yield) \div 100 <= (d * yield) \div 100
<1>1. c * yield \in Nat /\ d * yield \in Nat /\ c * yield <= d * yield
  BY FactorsAtMost
<1>2. c * yield <= c * 100
  <2>1. yield <= 100 /\ yield \in Nat /\ 100 \in Nat
    OBVIOUS
  <2>. QED  BY <2>1, FactorsAtMost
<1>. DEFINE a == c * yield  b == d * yield
<1>3. a \in Nat /\ b \in Nat /\ a <= b /\ a <= c * 100
  BY <1>1, <1>2
<1>. HIDE DEF a, b
<1>4. a \div 100 \in Nat /\ b \div 100 \in Nat /\ a \div 100 <= c /\ a \div 100 <= b \div 100
  BY <1>3
<1>. QED  BY <1>4 DEF a, b

\* What is expected on a horizon: a share of each line, and of all no more than all.
LEMMA HorizonIs ==
  ASSUME NEW r, RepairTyped(r), ~ReturnsRefused(r), NEW p, CreditTyped(p),
         NEW days \in Int, NEW tat \in Nat, tat > 0
  PROVE  LET h == Horizon(r, p, days, tat)
             I == DOMAIN p.included
         IN  /\ DOMAIN h.chance = I /\ DOMAIN h.useful = I /\ DOMAIN h.units = I
             /\ \A i \in I : /\ h.chance[i] = Conditional(r, p, p.age[i], days, tat)
                             /\ h.chance[i] \in 0..Sure
                             /\ h.useful[i] = (h.chance[i] * r.yield) \div 100
                             /\ h.useful[i] \in Nat /\ h.useful[i] <= h.chance[i]
                             /\ h.units[i] = p.included[i] * h.useful[i] /\ h.units[i] \in Nat
             /\ h.expected = SumFunctionOnSet(h.units, I) /\ h.expected \in Nat
             /\ p.eligible \in Nat /\ h.expected <= Sure * p.eligible
             /\ h.days = days /\ h.eligible = p.eligible
             /\ h.low = Most(0, h.expected - r.spread)
             /\ h.high = Least(Sure * p.eligible, h.expected + r.spread)
<1>. DEFINE h == Horizon(r, p, days, tat)
            I == DOMAIN p.included
            n == p.included
            all == [i \in I |-> Sure * n[i]]
<1>0. /\ DOMAIN h.chance = I /\ DOMAIN h.useful = I /\ DOMAIN h.units = I
      /\ \A i \in I : /\ h.chance[i] = Conditional(r, p, p.age[i], days, tat)
                      /\ h.useful[i] = (h.chance[i] * r.yield) \div 100
                      /\ h.units[i] = n[i] * h.useful[i]
      /\ h.expected = SumFunctionOnSet(h.units, I)
      /\ h.days = days /\ h.eligible = p.eligible
      /\ h.low = Most(0, h.expected - r.spread)
      /\ h.high = Least(Sure * p.eligible, h.expected + r.spread)
  BY DEF Horizon, SumFunction
<1>1. /\ IsFiniteSet(I) /\ \A i \in I : n[i] \in Nat /\ p.age[i] \in Nat
      /\ p.eligible = SumFunctionOnSet(n, I) /\ r.yield \in 0..100
  BY DEF CreditTyped, RepairTyped, ReturnsRefused
<1>. HIDE DEF h, I, n
<1>2. ASSUME NEW i \in I
      PROVE  /\ h.chance[i] \in 0..Sure /\ h.useful[i] \in Nat /\ h.useful[i] <= h.chance[i]
             /\ h.units[i] \in Nat /\ h.units[i] <= Sure * n[i] /\ Sure * n[i] \in Nat
  <2>1. h.chance[i] \in 0..Sure
    <3>1. p.age[i] \in Nat /\ days <= days /\ tat <= tat
      BY <1>1
    <3>2. Conditional(r, p, p.age[i], days, tat) \in 0..Sure
      BY <3>1, ChanceRises
    <3>. QED  BY <1>0, <3>2
  <2>2. h.chance[i] \in Nat
    BY <2>1, SureIsNat
  <2>3. h.useful[i] \in Nat /\ h.useful[i] <= h.chance[i]
    <3>1. h.chance[i] <= h.chance[i] /\ r.yield \in 0..100
      BY <1>1, <2>2
    <3>2. /\ (h.chance[i] * r.yield) \div 100 \in Nat
          /\ (h.chance[i] * r.yield) \div 100 <= h.chance[i]
      BY <2>2, <3>1, YieldIs
    <3>. QED  BY <1>0, <3>2
  <2>4. h.useful[i] <= Sure /\ Sure \in Nat
    BY <2>1, <2>3, SureIsNat
  <2>. DEFINE u == h.useful[i]
  <2>5. u \in Nat /\ u <= Sure /\ Sure \in Nat /\ n[i] \in Nat /\ n[i] <= n[i]
    BY <1>1, <2>3, <2>4
  <2>. HIDE DEF u
  <2>6. u * n[i] \in Nat /\ Sure * n[i] \in Nat /\ u * n[i] <= Sure * n[i] /\ u * n[i] = n[i] * u
    BY <2>5, FactorsAtMost
  <2>. QED  BY <1>0, <2>1, <2>3, <2>6 DEF u
<1>3. h.expected \in Nat
  BY <1>0, <1>1, <1>2, SumNat
<1>4. p.eligible \in Nat
  BY <1>1, SumNat
<1>5. h.expected <= Sure * p.eligible
  <2>1. \A i \in I : n[i] \in Int /\ all[i] = Sure * n[i] /\ all[i] \in Int
                     /\ h.units[i] \in Int /\ h.units[i] <= all[i]
    BY <1>1, <1>2
  <2>. HIDE DEF all
  <2>2. SumFunctionOnSet(h.units, I) <= SumFunctionOnSet(all, I)
    BY <1>1, <2>1, SumAtMost
  <2>3. SumFunctionOnSet(all, I) = Sure * SumFunctionOnSet(n, I)
    BY <1>1, <2>1, SumTimes DEF Sure
  <2>. QED  BY <1>0, <1>1, <2>2, <2>3
<1>. QED  BY <1>0, <1>2, <1>3, <1>4, <1>5 DEF h, I, n

\* On a later horizon, with repairs that are not slower, no less is expected.
LEMMA HorizonRises ==
  ASSUME NEW r, RepairTyped(r), ~ReturnsRefused(r), NEW p, CreditTyped(p),
         NEW days \in Int, NEW later \in Int, days <= later,
         NEW tat \in Nat, NEW slower \in Nat, tat > 0, tat <= slower
  PROVE  LET g == Horizon(r, p, days, slower)
             h == Horizon(r, p, later, tat)
         IN  /\ g.expected <= h.expected
             /\ \A i \in DOMAIN p.included : g.chance[i] <= h.chance[i]
<1>. DEFINE g == Horizon(r, p, days, slower)
            h == Horizon(r, p, later, tat)
            I == DOMAIN p.included
<1>1. /\ \A i \in I : /\ g.chance[i] = Conditional(r, p, p.age[i], days, slower)
                      /\ g.chance[i] \in 0..Sure
                      /\ g.useful[i] = (g.chance[i] * r.yield) \div 100 /\ g.useful[i] \in Nat
                      /\ g.units[i] = p.included[i] * g.useful[i] /\ g.units[i] \in Nat
      /\ g.expected = SumFunctionOnSet(g.units, I)
  BY HorizonIs
<1>2. /\ \A i \in I : /\ h.chance[i] = Conditional(r, p, p.age[i], later, tat)
                      /\ h.chance[i] \in 0..Sure
                      /\ h.useful[i] = (h.chance[i] * r.yield) \div 100 /\ h.useful[i] \in Nat
                      /\ h.units[i] = p.included[i] * h.useful[i] /\ h.units[i] \in Nat
      /\ h.expected = SumFunctionOnSet(h.units, I)
  BY HorizonIs
<1>3. /\ IsFiniteSet(I) /\ \A i \in I : p.included[i] \in Nat /\ p.age[i] \in Nat
      /\ r.yield \in 0..100
  BY DEF CreditTyped, RepairTyped, ReturnsRefused
<1>. HIDE DEF g, h, I
<1>4. ASSUME NEW i \in I PROVE g.chance[i] <= h.chance[i] /\ g.units[i] <= h.units[i]
  <2>1. g.chance[i] <= h.chance[i]
    <3>1. Conditional(r, p, p.age[i], days, slower) <= Conditional(r, p, p.age[i], later, tat)
      BY <1>3, ChanceRises
    <3>. QED  BY <1>1, <1>2, <3>1
  <2>2. g.chance[i] \in Nat /\ h.chance[i] \in Nat
    BY <1>1, <1>2, SureIsNat
  <2>3. g.useful[i] <= h.useful[i]
    BY <1>1, <1>2, <1>3, <2>1, <2>2, YieldIs
  <2>4. p.included[i] * g.useful[i] <= p.included[i] * h.useful[i]
    <3>1. p.included[i] <= p.included[i] /\ p.included[i] \in Nat
      BY <1>3
    <3>. QED  BY <1>1, <1>2, <2>3, <3>1, FactorsAtMost
  <2>. QED  BY <1>1, <1>2, <2>1, <2>4
<1>5. \A i \in I : g.units[i] \in Int /\ h.units[i] \in Int /\ g.units[i] <= h.units[i]
  BY <1>1, <1>2, <1>4
<1>6. g.expected <= h.expected
  BY <1>1, <1>2, <1>3, <1>5, SumAtMost
<1>. QED  BY <1>4, <1>6 DEF g, h, I

\* Without evidence nothing is expected back.
LEMMA NothingIsExpected ==
  ASSUME NEW r, RepairTyped(r), ~ReturnsRefused(r), NEW p, CreditTyped(p),
         SelectModel(r) = "unavailable", NEW days \in Int, NEW tat \in Nat, tat > 0
  PROVE  Horizon(r, p, days, tat).expected = 0
<1>. DEFINE h == Horizon(r, p, days, tat)
            I == DOMAIN p.included
<1>1. /\ \A i \in I : /\ h.chance[i] = Conditional(r, p, p.age[i], days, tat)
                      /\ h.useful[i] = (h.chance[i] * r.yield) \div 100
                      /\ h.units[i] = p.included[i] * h.useful[i] /\ h.units[i] \in Nat
      /\ h.expected = SumFunctionOnSet(h.units, I)
  BY HorizonIs
<1>2. \A from, to : Gone(r, p, from, to) = 0
  <2>1. \A d : Survival(r, p, d) = 1
    BY DEF Survival
  <2>2. (Sure * (1 - 1)) \div 1 = 0
    BY SureIsNat
  <2>3. Most(0, Least(Sure, 0)) = 0
    BY SureIsNat DEF Most, Least
  <2>. QED  BY <2>1, <2>2, <2>3 DEF Gone
<1>3. \A i \in I : Conditional(r, p, p.age[i], days, tat) = 0
  BY <1>2 DEF Conditional
<1>4. r.yield \in Int /\ IsFiniteSet(I) /\ \A i \in I : p.included[i] \in Nat
  BY DEF RepairTyped, CreditTyped
<1>. HIDE DEF h, I
<1>5. \A i \in I : h.units[i] = 0
  <2>1. (0 * r.yield) \div 100 = 0
    BY <1>4
  <2>. QED  BY <1>1, <1>3, <1>4, <2>1
<1>6. SumFunctionOnSet(h.units, I) = 0
  BY <1>1, <1>4, <1>5, SumNat
<1>. QED  BY <1>1, <1>6 DEF h

\* A horizon passes the validators of its contract.
LEMMA HorizonIsAccepted ==
  ASSUME NEW r, RepairTyped(r), ~ReturnsRefused(r), NEW p, CreditTyped(p),
         NEW days \in Int, NEW tat \in Nat, tat > 0
  PROVE  HorizonAccepted(p, Horizon(r, p, days, tat))
<1>. DEFINE h == Horizon(r, p, days, tat)
            I == DOMAIN p.included
            x == h.expected
            e == p.eligible
<1>1. /\ DOMAIN h.units = I
      /\ \A i \in I : /\ h.chance[i] \in 0..Sure
                      /\ h.useful[i] \in Nat /\ h.useful[i] <= h.chance[i]
                      /\ h.units[i] = p.included[i] * h.useful[i]
      /\ x = SumFunctionOnSet(h.units, I) /\ x \in Nat
      /\ e \in Nat /\ x <= Sure * e /\ h.eligible = e
      /\ h.low = Most(0, x - r.spread) /\ h.high = Least(Sure * e, x + r.spread)
  BY HorizonIs
<1>2. r.spread \in Nat
  BY DEF RepairTyped
<1>. HIDE DEF h, I
<1>3. \A i \in DOMAIN h.units :
         /\ 0 <= h.useful[i] /\ h.useful[i] <= h.chance[i] /\ h.chance[i] <= Sure
         /\ h.units[i] = p.included[i] * h.useful[i]
  BY <1>1, SureIsNat
<1>4. /\ 0 <= h.low /\ h.low <= x /\ x <= h.high /\ h.high <= Sure * h.eligible
      /\ h.eligible = 0 => x = 0
  <2>. DEFINE a == Sure * e
  <2>1. a \in Nat /\ (e = 0 => a = 0)
    BY <1>1, SureIsNat
  <2>2. x <= a /\ h.low = Most(0, x - r.spread) /\ h.high = Least(a, x + r.spread) /\ x \in Nat
    BY <1>1
  <2>. HIDE DEF a, x, e
  <2>3. 0 <= h.low /\ h.low <= x /\ x <= h.high /\ h.high <= a
    BY <1>2, <2>1, <2>2 DEF Most, Least
  <2>4. e = 0 => x = 0
    BY <2>1, <2>2
  <2>. QED  BY <1>1, <2>3, <2>4 DEF a
<1>5. SumFunction(h.units) = x
  BY <1>1 DEF SumFunction
<1>. QED  BY <1>3, <1>4, <1>5 DEF HorizonAccepted, h

\* What is projected passes them too.
LEMMA ProfileIsAccepted ==
  ASSUME NEW r, RepairTyped(r), ~ReturnsRefused(r), NEW p, CreditTyped(p)
  PROVE  ProfileAccepted(p, ProjectReturns(r, p))
<1>. DEFINE f == ProjectReturns(r, p)
            H(d) == Horizon(r, p, d, r.tat)
<1>1. r.tat \in Nat /\ r.tat > 0 /\ r.horizons \subseteq Int
  BY DEF RepairTyped, ReturnsRefused
<1>2. /\ f.horizons = {H(d) : d \in r.horizons} /\ f.eligible = p.eligible
      /\ f.status = "unavailable" => SelectModel(r) = "unavailable"
  BY DEF ProjectReturns
<1>3. \A d \in r.horizons :
         /\ HorizonAccepted(p, H(d)) /\ H(d).eligible = p.eligible
         /\ H(d).days = d /\ DOMAIN H(d).chance = DOMAIN p.included
  BY <1>1, HorizonIs, HorizonIsAccepted
<1>4. \A d, e \in r.horizons : d <= e =>
         /\ H(d).expected <= H(e).expected
         /\ \A i \in DOMAIN p.included : H(d).chance[i] <= H(e).chance[i]
  <2>. SUFFICES ASSUME NEW d \in r.horizons, NEW e \in r.horizons, d <= e
                PROVE  /\ H(d).expected <= H(e).expected
                       /\ \A i \in DOMAIN p.included : H(d).chance[i] <= H(e).chance[i]
    OBVIOUS
  <2>1. d \in Int /\ e \in Int /\ r.tat <= r.tat
    BY <1>1
  <2>. HIDE DEF H
  <2>. QED  BY <1>1, <2>1, HorizonRises DEF H
<1>5. f.status = "unavailable" => \A d \in r.horizons : H(d).expected = 0
  BY <1>1, <1>2, NothingIsExpected
<1>. HIDE DEF f, H
<1>. QED  BY <1>2, <1>3, <1>4, <1>5 DEF ProfileAccepted, f

\* Nothing speaks against the work behind a credited line.
LEMMA CreditedItem ==
  ASSUME NEW orders, OrdersTyped(orders), NEW i \in Creditable(orders)
  PROVE  ItemAccepted(orders[i])
<1>1. i \in KnownRows(orders) /\ i \in Repairs(orders) /\ i \in DOMAIN orders
  BY RepairSets
<1>2. LineKnown(orders[i]) /\ orders[i].qty > 0
  BY <1>1 DEF KnownRows, Repairs
<1>3. /\ orders[i].opened = None => "missing_opened_at" \in Objections(orders, i)
      /\ orders[i].loc = "nowhere" => "missing_location" \in Objections(orders, i)
      /\ StatusOf(orders[i]) = "terminal" => "terminal_status" \in Objections(orders, i)
      /\ StatusOf(orders[i]) = "unsupported" => "ineligible_status" \in Objections(orders, i)
      /\ orders[i].serial # Missing /\ orders[i].qty # 1
           => "serial_quantity_mismatch" \in Objections(orders, i)
  BY DEF Objections
<1>4. Objections(orders, i) = {}
  BY DEF Creditable
<1>5. StatusOf(orders[i]) \in {"open", "terminal", "unsupported"}
  BY <1>1 DEF OrdersTyped, StatusOf
<1>. QED  BY <1>2, <1>3, <1>4, <1>5 DEF ItemAccepted

\* What is excluded is a count.
LEMMA ExcludedIsCounted ==
  ASSUME NEW orders, OrdersTyped(orders), NEW wip \in Nat, NEW residual \in Nat,
         NEW x \in ExclusionsOf(orders, wip, residual)
  PROVE  x.qty \in Nat
<1>1. /\ \A i \in Repairs(orders) : orders[i].qty \in Nat
      /\ LineRows(orders) \subseteq Repairs(orders) /\ Creditable(orders) \subseteq Repairs(orders)
  BY RepairSets
<1>2. \A i \in Creditable(orders) :
         Granted(orders, wip, i) \in Nat /\ Granted(orders, wip, i) <= orders[i].qty
  BY GrantWithinCapacity
<1>3. CASE \E i \in Repairs(orders) : x.qty = orders[i].qty
  BY <1>1, <1>3
<1>4. CASE \E i \in Creditable(orders) : x.qty = orders[i].qty - Granted(orders, wip, i)
  BY <1>1, <1>2, <1>4
<1>5. CASE x.qty = residual
  BY <1>5
<1>6. \/ \E i \in Repairs(orders) \ KnownRows(orders) :
            \E y : x = Exclusion(i, orders[i].qty, y)
      \/ \E i \in LineRows(orders) \ Creditable(orders) :
            \E y : x = Exclusion(i, orders[i].qty, y)
      \/ \E i \in Creditable(orders) :
            \E y : x = Exclusion(i, orders[i].qty - Granted(orders, wip, i), y)
      \/ \E y : x = Exclusion(Missing, residual, y)
  BY Zenon DEF ExclusionsOf
<1>. QED  BY <1>1, <1>3, <1>4, <1>5, <1>6 DEF Exclusion

\* A pipeline without warnings has neither residual nor overflow, and excludes nothing.
LEMMA UnwarnedIsWhole ==
  ASSUME NEW orders, NEW wip, NEW residual \in Nat, NEW overflow \in Nat,
         WarningCodes(ReasonsOf(orders, ExclusionsOf(orders, wip, residual)), FALSE, residual, overflow) = {}
  PROVE  residual = 0 /\ overflow = 0 /\ ExclusionsOf(orders, wip, residual) = {}
<1>. DEFINE X == ExclusionsOf(orders, wip, residual)
            R == ReasonsOf(orders, X)
            W == WarningCodes(R, FALSE, residual, overflow)
<1>1. /\ residual > 0 => "repair_residual_unidentified" \in W
      /\ overflow > 0 => "repair_wip_mismatch" \in W
      /\ R \ {"unidentified_aggregate_residual"} # {} => "repair_work_excluded" \in W
  <2>. HIDE DEF R
  <2>. QED  BY DEF WarningCodes
<1>0. W = {}
  OBVIOUS
<1>2. residual = 0 /\ overflow = 0 /\ R \subseteq {"unidentified_aggregate_residual"}
  <2>. HIDE DEF R, W
  <2>. QED  BY <1>0, <1>1
<1>3. ASSUME NEW x \in X PROVE FALSE
  <2>1. x.reason \in R
    BY DEF ReasonsOf
  <2>2. x.reason = "unidentified_aggregate_residual"
    BY <1>2, <2>1
  <2>3. PICK i \in LineRows(orders) \ Creditable(orders) : TRUE
    BY <1>2, <1>3, <2>2 DEF ExclusionsOf, Exclusion
  <2>4. Objections(orders, i) \subseteq R /\ Objections(orders, i) # {}
    BY <2>3 DEF ReasonsOf, Creditable
  <2>5. "unidentified_aggregate_residual" \notin Objections(orders, i)
    BY DEF Objections
  <2>. QED  BY <1>2, <2>4, <2>5
<1>. QED  BY <1>2, <1>3

\* The pipeline of a snapshot passes the validators of its contract.
LEMMA KnownIsAccepted ==
  ASSUME NEW orders, OrdersTyped(orders), NEW wip \in Nat
  PROVE  PipelineAccepted(orders, Known(orders, wip)) /\ CreditTyped(Known(orders, wip))
<1>. DEFINE p == Known(orders, wip)
            C == Creditable(orders)
            l == Quantity(orders, LineRows(orders))
            u == Quantity(orders, Repairs(orders) \ KnownRows(orders))
            amb == Quantity(orders, Ambiguous(orders))
            some == {j \in C : Granted(orders, wip, j) > 0}
            residual == Most(0, wip - (l + u))
            overflow == Most(0, l + u - wip)
            X == ExclusionsOf(orders, wip, residual)
            W == WarningCodes(ReasonsOf(orders, X), FALSE, residual, overflow)
<1>1. /\ p.wip = wip /\ p.identified = l /\ p.unidentified = u
      /\ p.residual = residual /\ p.overflow = overflow /\ p.exclusions = X /\ p.warnings = W
      /\ p.included = [i \in some |-> Granted(orders, wip, i)]
      /\ p.age = [i \in some |-> Most(0, -orders[i].opened)]
      /\ p.eligible = SumFunction(p.included) /\ p.excluded = l - p.eligible
      /\ p.status = IF W = {} THEN "available" ELSE "partial"
  BY DEF Known
<1>2. /\ IsFiniteSet(C) /\ C \subseteq DOMAIN orders
      /\ \A i \in C : /\ Granted(orders, wip, i) \in Nat /\ Granted(orders, wip, i) <= orders[i].qty
                      /\ orders[i].opened \in Int
  BY RepairSets, FS_Subset, GrantWithinCapacity, OrderNumbers
<1>3. l \in Nat /\ u \in Nat /\ amb \in Nat /\ Quantity(orders, C) \in Nat
      /\ Quantity(orders, C) <= l
  <2>1. /\ LineRows(orders) \in SUBSET Repairs(orders)
        /\ Repairs(orders) \ KnownRows(orders) \in SUBSET Repairs(orders)
        /\ Ambiguous(orders) \in SUBSET Repairs(orders)
        /\ C \in SUBSET LineRows(orders) /\ C \in SUBSET Repairs(orders)
        /\ LineRows(orders) \ C \in SUBSET Repairs(orders)
    BY RepairSets DEF Ambiguous
  <2>2. l = Quantity(orders, C) + Quantity(orders, LineRows(orders) \ C)
    <3>. HIDE DEF C
    <3>. QED  BY <2>1, QuantityParts
  <2>3. /\ l \in Nat /\ u \in Nat /\ amb \in Nat /\ Quantity(orders, C) \in Nat
        /\ Quantity(orders, LineRows(orders) \ C) \in Nat
    <3>. HIDE DEF C
    <3>. QED  BY <2>1, QuantityParts
  <2>. HIDE DEF l, u, amb, C
  <2>. QED  BY <2>2, <2>3
<1>4. p.eligible \in Nat /\ p.eligible <= Capacity(orders, wip) /\ p.eligible <= Quantity(orders, C)
  <2>. DEFINE short == {j \in C : Granted(orders, wip, j) < orders[j].qty}
              left == [i \in short |-> orders[i].qty - Granted(orders, wip, i)]
  <2>1. /\ p.eligible \in Nat /\ p.eligible <= Capacity(orders, wip)
        /\ p.eligible + SumFunctionOnSet(left, short) = Quantity(orders, C)
    BY CreditedAndShort DEF Known
  <2>2. IsFiniteSet(short) /\ \A i \in short : left[i] \in Nat
    <3>1. \A i \in C : orders[i].qty \in Nat
      BY RepairSets
    <3>. QED  BY <1>2, <3>1, FS_Subset
  <2>. HIDE DEF left, short, p, C
  <2>3. SumFunctionOnSet(left, short) \in Nat
    BY <2>2, SumNat
  <2>. QED  BY <1>3, <2>1, <2>3
<1>5. Capacity(orders, wip) = Most(0, wip - amb)
  BY DEF Capacity
<1>6. CreditTyped(p)
  <2>1. IsFiniteSet(some) /\ DOMAIN p.included = some /\ DOMAIN p.age = some
    BY <1>1, <1>2, FS_Subset
  <2>2. \A i \in some : p.included[i] \in Nat /\ p.age[i] \in Nat
    <3>1. \A i \in some : Most(0, -orders[i].opened) \in Nat
      BY <1>2 DEF Most
    <3>. QED  BY <1>1, <1>2, <3>1
  <2>3. p.eligible = SumFunctionOnSet(p.included, DOMAIN p.included)
    BY <1>1 DEF SumFunction
  <2>. HIDE DEF p, some
  <2>. QED  BY <2>1, <2>2, <2>3 DEF CreditTyped
<1>7. /\ residual \in Nat /\ overflow \in Nat
      /\ p.eligible <= wip /\ p.eligible <= l /\ p.excluded \in Nat /\ p.eligible + p.excluded = l
  <2>. HIDE DEF p, l, u, amb, C, X, W, some
  <2>1. residual \in Nat /\ overflow \in Nat
    BY <1>3 DEF Most
  <2>. HIDE DEF residual, overflow
  <2>2. p.eligible <= wip /\ p.eligible <= l /\ p.eligible \in Nat
    BY <1>3, <1>4, <1>5 DEF Most
  <2>. QED  BY <1>1, <1>3, <2>1, <2>2
<1>8. \A x \in X : x.qty >= 0
  <2>. HIDE DEF residual
  <2>1. \A x \in X : x.qty \in Nat
    BY <1>7, ExcludedIsCounted
  <2>. QED  BY <2>1
<1>9. \A n \in {p.wip, p.identified, p.unidentified, p.eligible, p.excluded, p.residual, p.overflow}
                 \cup {x.qty : x \in p.exclusions} : n >= 0
  <2>. HIDE DEF p, l, u, residual, overflow, X, W, some
  <2>. QED  BY <1>1, <1>3, <1>4, <1>7, <1>8
<1>10. \A i \in C : ItemAccepted(orders[i])
  BY CreditedItem
<1>11. \A i \in DOMAIN p.included :
          0 < p.included[i] /\ p.included[i] <= orders[i].qty /\ p.age[i] >= 0
  <2>1. \A i \in some : p.included[i] = Granted(orders, wip, i) /\ DOMAIN p.included = some
    BY <1>1
  <2>2. \A i \in DOMAIN p.included : p.age[i] \in Nat
    BY <1>6 DEF CreditTyped
  <2>. QED  BY <1>1, <1>2, <2>1, <2>2
<1>12. p.status = "available" => p.exclusions = {} /\ p.warnings = {} /\ p.residual = 0 /\ p.overflow = 0
  <2>. SUFFICES ASSUME p.status = "available"
                PROVE  p.exclusions = {} /\ p.warnings = {} /\ p.residual = 0 /\ p.overflow = 0
    OBVIOUS
  <2>1. W = {}
    BY <1>1
  <2>2. residual = 0 /\ overflow = 0 /\ X = {}
    <3>. HIDE DEF residual, overflow
    <3>. QED  BY <1>7, <2>1, UnwarnedIsWhole
  <2>. HIDE DEF p, residual, overflow, X, W
  <2>. QED  BY <1>1, <2>1, <2>2
<1>13. p.status # "unavailable"
  BY <1>1
<1>14. SumFunction(p.included) = p.eligible
  BY <1>1
<1>15. p.residual = Most(0, p.wip - (p.identified + p.unidentified))
       /\ p.overflow = Most(0, p.identified + p.unidentified - p.wip)
  BY <1>1
<1>16. p.eligible <= p.wip /\ p.eligible <= p.identified /\ p.eligible + p.excluded = p.identified
  BY <1>1, <1>7
<1>. HIDE DEF p, C
<1>17. PipelineAccepted(orders, p)
  BY <1>9, <1>10, <1>11, <1>12, <1>13, <1>14, <1>15, <1>16 DEF PipelineAccepted, C
<1>. QED  BY <1>6, <1>17 DEF p

\* So does that without a snapshot.
LEMMA UnknownIsAccepted ==
  ASSUME NEW orders, OrdersTyped(orders), NEW wip \in Nat
  PROVE  PipelineAccepted(orders, Unknown(wip)) /\ CreditTyped(Unknown(wip))
<1>. DEFINE p == Unknown(wip)
            X == {Exclusion(Missing, wip, x) : x \in {y \in {"unidentified_aggregate_residual"} : wip > 0}}
<1>1. /\ p.wip = wip /\ p.identified = 0 /\ p.unidentified = 0 /\ p.eligible = 0 /\ p.excluded = 0
      /\ p.residual = wip /\ p.overflow = 0 /\ p.exclusions = X /\ p.status = "unavailable"
      /\ p.warnings = WarningCodes({x.reason : x \in X}, TRUE, wip, 0)
      /\ DOMAIN p.included = {} /\ DOMAIN p.age = {}
  BY DEF Unknown
<1>2. SumFunction(p.included) = 0
  <2>. HIDE DEF p
  <2>. QED  BY <1>1, SumEmpty DEF SumFunction
<1>3. CreditTyped(p)
  <2>. HIDE DEF p
  <2>. QED  BY <1>1, <1>2, FS_EmptySet DEF CreditTyped, SumFunction
<1>4. \A n \in {p.wip, p.identified, p.unidentified, p.eligible, p.excluded, p.residual, p.overflow}
                 \cup {x.qty : x \in p.exclusions} : n >= 0
  <2>1. \A x \in X : x.qty = wip
    BY DEF Exclusion
  <2>. HIDE DEF p, X
  <2>. QED  BY <1>1, <2>1
<1>5. "repair_pipeline_unavailable" \in p.warnings
  <2>1. \A R : "repair_pipeline_unavailable" \in WarningCodes(R, TRUE, wip, 0)
    BY DEF WarningCodes
  <2>. HIDE DEF p, X
  <2>. QED  BY <1>1, <2>1
<1>6. \A i \in Creditable(orders) : ItemAccepted(orders[i])
  BY CreditedItem
<1>7. /\ p.eligible <= p.wip /\ p.eligible <= p.identified /\ p.eligible + p.excluded = p.identified
      /\ p.residual = Most(0, p.wip - (p.identified + p.unidentified))
      /\ p.overflow = Most(0, p.identified + p.unidentified - p.wip)
  <2>. HIDE DEF p
  <2>. QED  BY <1>1 DEF Most
<1>. HIDE DEF p, X
<1>8. PipelineAccepted(orders, p)
  BY <1>1, <1>2, <1>4, <1>5, <1>6, <1>7 DEF PipelineAccepted
<1>. QED  BY <1>3, <1>8 DEF p

\* repair_returns.py projects what its contract accepts, whatever the snapshot, the
\* evidence and the parameters it does not refuse, and slower repairs bring no more back.
THEOREM ReturnsBelieved ==
    AlgorithmSpec => []ReturnsAreBelievable
<1>1. Typed(case) /\ Answers => ReturnsAreBelievable
  <2>. SUFFICES ASSUME Typed(case), Answers, Computed("repair"), ~ReturnsRefused(case)
                PROVE  ReturnsAreBelievable
    BY DEF ReturnsAreBelievable
  <2>. DEFINE orders == case.snapshot.orders
              wip == Most(0, case.wip)
              p == Pipeline(case.snapshot, case.wip)
              f == ProjectReturns(case, p)
  <2>1. RepairTyped(case) /\ result = Repair(case)
    BY DEF Typed, Answers, Computed
  <2>2. OrdersTyped(orders) /\ wip \in Nat
    BY <2>1 DEF RepairTyped, Most
  <2>3. PipelineAccepted(orders, p) /\ CreditTyped(p)
    <3>1. p = IF case.snapshot.absent THEN Unknown(wip) ELSE Known(orders, wip)
      BY DEF Pipeline
    <3>. HIDE DEF p, orders, wip
    <3>. QED  BY <2>2, <3>1, KnownIsAccepted, UnknownIsAccepted
  <2>4. ProfileAccepted(p, f)
    <3>. HIDE DEF p
    <3>. QED  BY <2>1, <2>3, ProfileIsAccepted
  <2>5. /\ result.raised = ~ProfileAccepted(p, f) /\ result.pipeline = p /\ result.profile = f
    BY <2>1, <2>3 DEF Repair
  <2>6. /\ case.tat \in Nat /\ case.tat > 0 /\ case.horizons \subseteq Int
        /\ f.horizons = {Horizon(case, p, d, case.tat) : d \in case.horizons}
    BY <2>1 DEF RepairTyped, ReturnsRefused, ProjectReturns
  <2>. HIDE DEF p, f
  <2>7. ASSUME NEW h \in f.horizons, NEW slower \in case.tat..(2 * case.tat)
        PROVE  Horizon(case, p, h.days, slower).expected <= h.expected
    <3>1. PICK d \in case.horizons : h = Horizon(case, p, d, case.tat)
      BY <2>6
    <3>2. d \in Int /\ d <= d /\ slower \in Nat /\ case.tat <= slower
      BY <2>6
    <3>3. h.days = d
      BY <2>1, <2>3, <2>6, <3>1, <3>2, HorizonIs
    <3>4. Horizon(case, p, d, slower).expected <= Horizon(case, p, d, case.tat).expected
      BY <2>1, <2>3, <2>6, <3>2, HorizonRises
    <3>. QED  BY <3>1, <3>3, <3>4
  <2>. QED  BY <2>4, <2>5, <2>7 DEF ReturnsAreBelievable
<1>. QED  BY <1>1, AnswersAreComputed, PTL

------------------------------------------------------------------------------
(* What becomes of an upload.                                            *)

\* The rows of a file that is there are the entries of its sequence.
LEMMA RowsAre ==
  ASSUME NEW files, NEW f
  PROVE  /\ \A r \in RowSet(files, f) : f \in DOMAIN files /\ \E i \in DOMAIN files[f] : r = files[f][i]
         /\ f \in DOMAIN files => Rows(files, f) = files[f] /\ RowSet(files, f) = ToSet(files[f])
         /\ f \notin DOMAIN files => Rows(files, f) = <<>> /\ RowSet(files, f) = {}
         /\ \A i \in DOMAIN Rows(files, f) : f \in DOMAIN files /\ Rows(files, f)[i] \in RowSet(files, f)
         /\ \A r \in RowSet(files, f) : \E i \in DOMAIN Rows(files, f) : r = Rows(files, f)[i]
<1>1. CASE f \in DOMAIN files
  BY <1>1 DEF RowSet, Rows, ToSet
<1>2. CASE f \notin DOMAIN files
  <2>1. Rows(files, f) = <<>> /\ DOMAIN <<>> = {}
    BY <1>2 DEF Rows
  <2>. QED  BY <1>2, <2>1 DEF RowSet, ToSet
<1>. QED  BY <1>1, <1>2

\* An upload has finitely many rows.
LEMMA RowsAreFinite ==
  ASSUME NEW files, UploadTyped(files), NEW f
  PROVE  /\ IsFiniteSet(RowSet(files, f)) /\ IsFiniteSet(DOMAIN Rows(files, f))
         /\ \E n \in Nat : DOMAIN Rows(files, f) = 1..n /\ Len(Rows(files, f)) = n
<1>1. \E n \in Nat : DOMAIN Rows(files, f) = 1..n /\ Len(Rows(files, f)) = n
  <2>1. CASE f \in DOMAIN files
    <3>1. files[f] \in Seq(ToSet(files[f]))
      BY <2>1 DEF UploadTyped
    <3>2. DOMAIN files[f] = 1..Len(files[f]) /\ Len(files[f]) \in Nat
      BY <3>1
    <3>. QED  BY <2>1, <3>2 DEF Rows
  <2>2. CASE f \notin DOMAIN files
    <3>1. DOMAIN <<>> = 1..0 /\ Len(<<>>) = 0
      OBVIOUS
    <3>. QED  BY <2>2, <3>1 DEF Rows
  <2>. QED  BY <2>1, <2>2
<1>2. IsFiniteSet(DOMAIN Rows(files, f))
  BY <1>1, FS_Interval
<1>3. RowSet(files, f) = {Rows(files, f)[i] : i \in DOMAIN Rows(files, f)}
  BY DEF RowSet, ToSet
<1>. QED  BY <1>1, <1>2, <1>3, ImageFinite

\* An upload without errors has none of any kind.
LEMMA NothingFails ==
  ASSUME NEW files, NEW quota, Errors(files, quota) = {}
  PROVE  /\ CostErrors(files) = {} /\ WindowErrors(files) = {}
         /\ \A f \in DOMAIN files : \A r \in RowSet(files, f) :
               /\ ~CellFails(f, r) /\ ~ReferenceFails(files, f, r)
               /\ f = "repairs" => ~RepairFails(r)
<1>. DEFINE Bad(f) == {j \in DOMAIN files[f] :
                      \/ CellFails(f, files[f][j])
                      \/ ReferenceFails(files, f, files[f][j])
                      \/ Repeated(files, f, j)
                      \/ f = "repairs" /\ RepairFails(files[f][j])
                      \/ f = "parts" /\ files[f][j].code \notin Codes \cup {Blank}}
            All == UNION {{<<f, i>> : i \in Bad(f)} : f \in DOMAIN files}
<1>1. CostErrors(files) = {} /\ WindowErrors(files) = {} /\ All = {}
  BY Zenon DEF Errors
<1>2. \A f \in DOMAIN files : Bad(f) = {}
  <2>. SUFFICES ASSUME NEW f \in DOMAIN files, NEW i \in Bad(f) PROVE FALSE
    OBVIOUS
  <2>. HIDE DEF Bad
  <2>1. <<f, i>> \in {<<f, j>> : j \in Bad(f)}
    OBVIOUS
  <2>2. <<f, i>> \in All
    BY <2>1, Zenon
  <2>. QED  BY <1>1, <2>2
<1>3. ASSUME NEW f \in DOMAIN files, NEW r \in RowSet(files, f)
      PROVE  ~CellFails(f, r) /\ ~ReferenceFails(files, f, r) /\ (f = "repairs" => ~RepairFails(r))
  <2>1. PICK i \in DOMAIN files[f] : r = files[f][i]
    BY <1>3, RowsAre
  <2>2. i \notin Bad(f)
    BY <1>2
  <2>. QED  BY <2>1, <2>2
<1>. QED  BY <1>1, <1>3, Zenon

\* A stock row that is not refused is of a place, and of a part of the upload.
LEMMA StockPasses ==
  ASSUME NEW files, NEW r, ~CellFails("stock", r), ~ReferenceFails(files, "stock", r)
  PROVE  Identified(r) /\ r.pn \in PartKeys(files)
<1>1. Names["stock"] = {"pn", "loc"}
  BY DEF Names
<1>2. r.pn # Blank /\ r.loc # Blank
  BY <1>1 DEF CellFails
<1>. QED  BY <1>2 DEF ReferenceFails, Identified

\* A cost that is not refused is absent or above zero.
LEMMA CostPasses ==
  ASSUME NEW r, ~CellFails("parts", r), r.cost \in Int
  PROVE  r.cost = Empty \/ r.cost > 0
<1>1. Positive["parts"] = {"cost"}
  BY DEF Positive
<1>2. r.cost # Garbled /\ (Readable(r.cost) => r.cost > 0)
  BY <1>1 DEF CellFails
<1>. QED  BY <1>2 DEF Readable

\* A price that is not refused is above zero, and so is its promise.
LEMMA PricePasses ==
  ASSUME NEW r, ~CellFails("vendors", r), r.price \in Int, r.days \in Int
  PROVE  Readable(r.price) /\ r.price > 0 /\ r.days > 0
<1>1. Needed["vendors"] = {"price", "days"} /\ {"price", "days"} \subseteq Positive["vendors"]
  BY DEF Positive, Needed
<1>2. ASSUME NEW c \in {"price", "days"}
      PROVE  r[c] # Empty /\ r[c] # Garbled /\ (Readable(r[c]) => ~(r[c] <= 0))
  BY <1>1, <1>2 DEF CellFails
<1>3. /\ r.price # Empty /\ r.price # Garbled /\ (Readable(r.price) => ~(r.price <= 0))
      /\ r.days # Empty /\ r.days # Garbled /\ (Readable(r.days) => ~(r.days <= 0))
  BY <1>2
<1>. QED  BY <1>3 DEF Readable

\* Demand that is not refused has a day and whole units.
LEMMA DemandPasses ==
  ASSUME NEW r, ~CellFails("demand", r), r.qty \in Int
  PROVE  /\ Readable(r.period) /\ r.start # Garbled /\ r.end # Garbled
         /\ r.qty >= 0 /\ r.qty % 10 = 0
<1>1. /\ Needed["demand"] = {"period", "qty"} /\ Counts["demand"] = {"qty"}
      /\ Dates["demand"] = {"period", "start", "end"}
  BY DEF Needed, Counts, Dates
<1>2. r.period # Empty /\ r.qty # Empty
  BY <1>1 DEF CellFails
<1>3. r.period # Garbled /\ r.qty # Garbled /\ r.start # Garbled /\ r.end # Garbled
  BY <1>1 DEF CellFails
<1>4. Readable(r.qty) => ~(r.qty < 0 \/ r.qty % 10 # 0)
  BY <1>1 DEF CellFails
<1>. QED  BY <1>2, <1>3, <1>4 DEF Readable

\* A repair that is not refused passes the validators of an observation as well.
LEMMA RepairPasses ==
  ASSUME NEW files, NEW r, ~CellFails("repairs", r), ~ReferenceFails(files, "repairs", r),
         ~RepairFails(r), r.qty \in Int, r.start \in Int, r.end \in Int
  PROVE  ObservationAccepted(r) /\ r.pn \in PartKeys(files) /\ r.start <= r.end
<1>1. /\ Names["repairs"] = {"order", "line", "pn", "status"}
      /\ Needed["repairs"] = {"qty", "start", "end"} /\ Counts["repairs"] = {"qty"}
      /\ Positive["repairs"] = {"qty"} /\ Dates["repairs"] = {"start", "end"}
  BY DEF Names, Needed, Counts, Positive, Dates
<1>2. r.order # Blank /\ r.line # Blank /\ r.pn # Blank /\ r.status # Blank
  BY <1>1 DEF CellFails
<1>3. r.qty # Empty /\ r.start # Empty /\ r.end # Empty
  BY <1>1 DEF CellFails
<1>4. r.qty # Garbled /\ r.start # Garbled /\ r.end # Garbled
  BY <1>1 DEF CellFails
<1>5. Readable(r.qty) => ~(r.qty < 0 \/ r.qty % 10 # 0) /\ ~(r.qty <= 0)
  BY <1>1 DEF CellFails
<1>6. r.pn \in PartKeys(files)
  BY <1>2 DEF ReferenceFails
<1>7. Readable(r.qty) /\ Readable(r.start) /\ Readable(r.end)
  BY <1>3, <1>4 DEF Readable
<1>8. r.status \in Statuses /\ r.start <= r.end
  BY <1>2, <1>7 DEF RepairFails
<1>. QED  BY <1>2, <1>5, <1>6, <1>7, <1>8 DEF ObservationAccepted

\* The same of every file of an upload without errors.
LEMMA RowsPass ==
  ASSUME NEW files, UploadTyped(files), NEW quota, Errors(files, quota) = {}
  PROVE  /\ \A r \in RowSet(files, "stock") : Identified(r) /\ r.pn \in PartKeys(files)
         /\ \A r \in RowSet(files, "parts") : r.cost \in Int /\ (r.cost = Empty \/ r.cost > 0)
         /\ \A r \in RowSet(files, "vendors") :
               /\ r.price \in Int /\ Readable(r.price) /\ r.price > 0
               /\ r.days \in Int /\ r.days > 0 /\ r.preferred \in BOOLEAN
         /\ \A r \in RowSet(files, "demand") :
               /\ r.period \in Int /\ Readable(r.period) /\ r.start \in Int /\ r.end \in Int
               /\ r.start # Garbled /\ r.end # Garbled /\ r.qty \in Nat /\ r.qty % 10 = 0
         /\ \A r \in RowSet(files, "repairs") :
               /\ ObservationAccepted(r) /\ r.pn \in PartKeys(files)
               /\ r.start \in Int /\ r.end \in Int /\ r.start <= r.end
<1>1. \A f \in DOMAIN files : \A r \in RowSet(files, f) :
         /\ ~CellFails(f, r) /\ ~ReferenceFails(files, f, r)
         /\ f = "repairs" => ~RepairFails(r)
  BY NothingFails
<1>2. ASSUME NEW f \in DOMAIN files, NEW r \in RowSet(files, f),
             NEW c \in Counts[f] \cup Positive[f] \cup Dates[f]
      PROVE  r[c] \in Int
  BY RowsAre DEF UploadTyped
<1>3. \A f : \A r \in RowSet(files, f) : f \in DOMAIN files
  BY RowsAre
<1>4. \A r \in RowSet(files, "stock") : Identified(r) /\ r.pn \in PartKeys(files)
  BY <1>1, <1>3, StockPasses
<1>5. \A r \in RowSet(files, "parts") : r.cost \in Int /\ (r.cost = Empty \/ r.cost > 0)
  <2>1. "cost" \in Counts["parts"] \cup Positive["parts"] \cup Dates["parts"]
    BY DEF Positive
  <2>2. \A r \in RowSet(files, "parts") : r.cost \in Int
    BY <1>2, <1>3, <2>1
  <2>. QED  BY <1>1, <1>3, <2>2, CostPasses
<1>6. \A r \in RowSet(files, "vendors") :
               /\ r.price \in Int /\ Readable(r.price) /\ r.price > 0
               /\ r.days \in Int /\ r.days > 0 /\ r.preferred \in BOOLEAN
  <2>1. {"price", "days"} \subseteq Counts["vendors"] \cup Positive["vendors"] \cup Dates["vendors"]
    BY DEF Positive
  <2>2. \A r \in RowSet(files, "vendors") : r.price \in Int /\ r.days \in Int
    BY <1>2, <1>3, <2>1
  <2>3. \A r \in RowSet(files, "vendors") : r.preferred \in BOOLEAN
    BY RowsAre DEF UploadTyped
  <2>. QED  BY <1>1, <1>3, <2>2, <2>3, PricePasses
<1>7. \A r \in RowSet(files, "demand") :
               /\ r.period \in Int /\ Readable(r.period) /\ r.start \in Int /\ r.end \in Int
               /\ r.start # Garbled /\ r.end # Garbled /\ r.qty \in Nat /\ r.qty % 10 = 0
  <2>1. {"qty", "period", "start", "end"}
           \subseteq Counts["demand"] \cup Positive["demand"] \cup Dates["demand"]
    BY DEF Counts, Dates
  <2>2. \A r \in RowSet(files, "demand") :
           r.qty \in Int /\ r.period \in Int /\ r.start \in Int /\ r.end \in Int
    BY <1>2, <1>3, <2>1
  <2>. QED  BY <1>1, <1>3, <2>2, DemandPasses
<1>8. \A r \in RowSet(files, "repairs") :
               /\ ObservationAccepted(r) /\ r.pn \in PartKeys(files)
               /\ r.start \in Int /\ r.end \in Int /\ r.start <= r.end
  <2>1. {"qty", "start", "end"} \subseteq Counts["repairs"] \cup Positive["repairs"] \cup Dates["repairs"]
    BY DEF Counts, Dates
  <2>2. \A r \in RowSet(files, "repairs") : r.qty \in Int /\ r.start \in Int /\ r.end \in Int
    BY <1>2, <1>3, <2>1
  <2>. QED  BY <1>1, <1>3, <2>2, RepairPasses
<1>. QED  BY <1>4, <1>5, <1>6, <1>7, <1>8

\* A window has two ends that are days, and there are finitely many.
LEMMA WindowsAre ==
  ASSUME NEW files, UploadTyped(files)
  PROVE  /\ IsFiniteSet(RowWindows(files)) /\ IsFiniteSet(Window(files))
         /\ \A w \in RowWindows(files) \cup FileWindow(files) : w[1] \in Int /\ w[2] \in Int
         /\ Window(files) \subseteq RowWindows(files) \cup FileWindow(files)
<1>1. ASSUME NEW f \in {"demand", "window"}, NEW r \in RowSet(files, f)
      PROVE  r.start \in Int /\ r.end \in Int
  <2>1. {"start", "end"} \subseteq Dates[f]
    BY DEF Dates
  <2>2. f \in DOMAIN files /\ r \in ToSet(files[f])
    BY RowsAre
  <2>3. \A c \in {"start", "end"} : r[c] \in Int
    BY <2>1, <2>2 DEF UploadTyped
  <2>. QED  BY <2>3
<1>. DEFINE rows == Rows(files, "demand")
            of == {j \in Windowed(files) : Interval(files["demand"][j])}
            span == [i \in of |-> <<files["demand"][i].start, files["demand"][i].end>>]
<1>2. of \subseteq DOMAIN rows
  BY DEF Windowed
<1>3. IsFiniteSet(of)
  BY <1>2, RowsAreFinite, FS_Subset
<1>4. RowWindows(files) = {span[i] : i \in of}
  BY DEF RowWindows
<1>5. IsFiniteSet(RowWindows(files))
  <2>. HIDE DEF of, span
  <2>. QED  BY <1>3, <1>4, ImageFinite
<1>6. \A w \in RowWindows(files) : w[1] \in Int /\ w[2] \in Int
  <2>1. \A i \in of : files["demand"][i] \in RowSet(files, "demand")
    BY <1>2, RowsAre
  <2>2. \A i \in of : span[i][1] \in Int /\ span[i][2] \in Int
    BY <1>1, <2>1
  <2>. HIDE DEF of, span
  <2>. QED  BY <1>4, <2>2
<1>7. IsFiniteSet(FileWindow(files)) /\ \A w \in FileWindow(files) : w[1] \in Int /\ w[2] \in Int
  <2>. DEFINE first == Rows(files, "window")[1]
  <2>1. CASE FileWindow(files) = {}
    BY <2>1, FS_EmptySet
  <2>2. CASE FileWindow(files) # {}
    <3>1. Len(Rows(files, "window")) = 1 /\ FileWindow(files) = {<<first.start, first.end>>}
      BY <2>2 DEF FileWindow
    <3>2. 1 \in DOMAIN Rows(files, "window")
      BY <3>1, RowsAreFinite
    <3>3. first \in RowSet(files, "window")
      BY <3>2, RowsAre
    <3>4. first.start \in Int /\ first.end \in Int
      BY <1>1, <3>3
    <3>. HIDE DEF first
    <3>. DEFINE w == <<first.start, first.end>>
    <3>5. w[1] \in Int /\ w[2] \in Int
      BY <3>4
    <3>. HIDE DEF w
    <3>6. FileWindow(files) = {w}
      BY <3>1 DEF w
    <3>. QED  BY <3>5, <3>6, FS_Singleton
  <2>. QED  BY <2>1, <2>2
<1>8. \/ Window(files) = FileWindow(files) \/ Window(files) = RowWindows(files)
      \/ Window(files) = {}
  BY Zenon DEF Window, RowWindow
<1>. QED  BY <1>5, <1>6, <1>7, <1>8, FS_EmptySet

\* What validate finds of the windows is what the mapper looks for: demand that is accepted
\* has one window that is stated once and the days of all its rows are in it.
LEMMA WindowFits ==
  ASSUME NEW files, UploadTyped(files), NEW quota, Errors(files, quota) = {},
         "demand" \in DOMAIN files
  PROVE  /\ WindowMaps(files)
         /\ Window(files) # {}
         /\ \A r \in RowSet(files, "demand") : \A w \in Window(files) : r.period \in w[1]..w[2]
<1>. DEFINE rows == files["demand"]
            inside(r) == \A w \in Window(files) : r.period \in w[1]..w[2]
<1>1. Rows(files, "demand") = rows /\ \A i \in DOMAIN rows : rows[i] \in RowSet(files, "demand")
  BY RowsAre
<1>2. /\ "window" \in DOMAIN files => /\ FileWindow(files) # {}
                                      /\ RowWindow(files) \in {{}, FileWindow(files)}
      /\ Windowed(files) \in {{}, DOMAIN rows}
      /\ ~(Cardinality(RowWindows(files)) > 1)
      /\ Window(files) # {}
      /\ \A j \in DOMAIN rows :
            /\ (rows[j].start = Empty) <=> (rows[j].end = Empty)
            /\ Readable(rows[j].start) /\ Readable(rows[j].end) => ~(rows[j].end < rows[j].start)
            /\ Readable(rows[j].period) => inside(rows[j])
  <2>. DEFINE wrong == {j \in DOMAIN rows :
                \/ (rows[j].start = Empty) # (rows[j].end = Empty)
                \/ /\ Readable(rows[j].start) /\ Readable(rows[j].end)
                   /\ rows[j].end < rows[j].start
                \/ /\ Readable(rows[j].period)
                   /\ \E w \in Window(files) : rows[j].period \notin w[1]..w[2]}
  <2>1. /\ FileError("window", /\ "window" \in DOMAIN files
                               /\ \/ ~("demand" \in DOMAIN files)
                                  \/ FileWindow(files) = {}
                                  \/ RowWindow(files) \notin {{}, FileWindow(files)}) = {}
        /\ FileError("demand", \/ Windowed(files) \notin {{}, DOMAIN rows}
                               \/ Cardinality(RowWindows(files)) > 1
                               \/ "demand" \in DOMAIN files /\ Window(files) = {}) = {}
        /\ {<<"demand", i>> : i \in wrong} = {}
    <3>1. WindowErrors(files) = {} /\ rows = Rows(files, "demand")
      BY <1>1, NothingFails
    <3>. HIDE DEF rows
    <3>. QED  BY <3>1, Zenon DEF WindowErrors
  <2>2. \A f, failed : FileError(f, failed) = {} => ~failed
    BY DEF FileError
  <2>3. /\ "window" \in DOMAIN files => /\ FileWindow(files) # {}
                                        /\ RowWindow(files) \in {{}, FileWindow(files)}
        /\ Windowed(files) \in {{}, DOMAIN rows}
        /\ ~(Cardinality(RowWindows(files)) > 1)
        /\ Window(files) # {}
    <3>. HIDE DEF rows, wrong
    <3>. QED  BY <2>1, <2>2, Zenon
  <2>4. wrong = {}
    <3>. HIDE DEF wrong
    <3>. QED  BY <2>1
  <2>. QED  BY <2>3, <2>4
<1>3. \A i \in DOMAIN rows :
         /\ rows[i].start \in Int /\ rows[i].start # Garbled
         /\ rows[i].end \in Int /\ rows[i].end # Garbled
         /\ Readable(rows[i].period)
  BY <1>1, RowsPass
<1>4. \A i \in DOMAIN rows : (rows[i].start = Empty /\ rows[i].end = Empty) \/ Interval(rows[i])
  <2>. SUFFICES ASSUME NEW i \in DOMAIN rows, rows[i].start # Empty \/ rows[i].end # Empty
                PROVE  Interval(rows[i])
    OBVIOUS
  <2>1. Readable(rows[i].start) /\ Readable(rows[i].end)
    BY <1>2, <1>3 DEF Readable
  <2>. QED  BY <1>2, <1>3, <2>1 DEF Interval
<1>5. Cardinality(RowWindows(files)) \in Nat /\ Cardinality(RowWindows(files)) <= 1
  BY <1>2, WindowsAre, FS_CardinalityType
<1>6. RowWindows(files) # {} => Windowed(files) = DOMAIN rows
  BY <1>2 DEF RowWindows
<1>7. RowWindows(files) # {} => RowWindow(files) = RowWindows(files)
  <2>1. RowWindows(files) # {} => Cardinality(RowWindows(files)) # 0
    BY WindowsAre, FS_EmptySet
  <2>2. RowWindows(files) # {} => Cardinality(RowWindows(files)) = 1
    BY <1>5, <2>1
  <2>. QED  BY <1>1, <1>6, <2>2 DEF RowWindow
<1>8. FileWindow(files) # {} => "window" \in DOMAIN files
  <2>1. FileWindow(files) # {} => Len(Rows(files, "window")) = 1
    BY DEF FileWindow
  <2>2. "window" \notin DOMAIN files => Len(Rows(files, "window")) # 1
    BY DEF Rows
  <2>. QED  BY <2>1, <2>2
<1>9. RowWindows(files) # {} /\ FileWindow(files) # {} => RowWindows(files) = FileWindow(files)
  BY <1>2, <1>7, <1>8
<1>10. \A r \in RowSet(files, "demand") : inside(r)
  <2>1. \A i \in DOMAIN rows : inside(rows[i])
    BY <1>2, <1>3
  <2>. HIDE DEF inside
  <2>. QED  BY <1>1, <2>1, RowsAre
<1>11. \E w \in FileWindow(files) \cup RowWindows(files) :
          \A i \in DOMAIN rows : rows[i].period \in w[1]..w[2]
  BY <1>1, <1>2, <1>10, WindowsAre
<1>12. WindowMaps(files)
  <2>. HIDE DEF rows
  <2>. QED  BY <1>1, <1>2, <1>4, <1>5, <1>6, <1>9, <1>11, Zenon DEF WindowMaps
<1>. QED  BY <1>2, <1>10, <1>12

\* So an upload that is accepted is mapped, and all its observed repairs are accepted.
LEMMA AcceptedMaps ==
  ASSUME NEW files, UploadTyped(files), NEW quota, Errors(files, quota) = {}
  PROVE  Maps(files)
<1>1. "demand" \in DOMAIN files => WindowMaps(files)
  BY WindowFits
<1>2. \A r \in RowSet(files, "repairs") : ObservationAccepted(r)
  BY RowsPass
<1>. QED  BY <1>1, <1>2 DEF Maps

\* No demand of an upload lies after its date.
LEMMA DemandIsPast ==
  ASSUME NEW files, UploadTyped(files), NEW quota, Errors(files, quota) = {},
         NEW r \in RowSet(files, "demand")
  PROVE  r.period <= AsOf(files)
<1>. DEFINE ends == {w[2] : w \in Window(files)}
            came == {x.end : x \in RowSet(files, "repairs")}
            told == ends \cup came
<1>1. "demand" \in DOMAIN files
  BY RowsAre
<1>2. PICK w \in Window(files) : r.period \in w[1]..w[2]
  BY <1>1, WindowFits
<1>3. w[2] \in told /\ told # {}
  BY <1>2
<1>4. told \in SUBSET Int
  <2>1. \A v \in Window(files) : v[2] \in Int
    BY WindowsAre
  <2>2. \A x \in RowSet(files, "repairs") : x.end \in Int
    BY RowsPass
  <2>. QED  BY <2>1, <2>2
<1>5. IsFiniteSet(told)
  <2>. DEFINE second == [v \in Window(files) |-> v[2]]
              last == [x \in RowSet(files, "repairs") |-> x.end]
  <2>1. ends = {second[v] : v \in Window(files)} /\ came = {last[x] : x \in RowSet(files, "repairs")}
    OBVIOUS
  <2>2. IsFiniteSet({second[v] : v \in Window(files)})
    <3>. HIDE DEF second
    <3>. QED  BY WindowsAre, ImageFinite
  <2>3. IsFiniteSet({last[x] : x \in RowSet(files, "repairs")})
    <3>. HIDE DEF last
    <3>. QED  BY RowsAreFinite, ImageFinite
  <2>. QED  BY <2>1, <2>2, <2>3, FS_Union
<1>6. AsOf(files) = Max(told)
  <2>. HIDE DEF ends, came
  <2>1. AsOf(files) = IF ends \cup came = {} THEN Undated ELSE Max(ends \cup came)
    BY DEF AsOf, ends, came
  <2>. QED  BY <1>3, <2>1
<1>. HIDE DEF told
<1>7. \A x \in told : x <= Max(told) /\ Max(told) \in Int
  <2>. DEFINE id == [x \in told |-> x]
  <2>1. \A x \in told : id[x] \in Int
    BY <1>4
  <2>. HIDE DEF id
  <2>2. PICK m \in told : \A x \in told : id[x] <= id[m]
    BY <1>3, <1>5, <2>1, MostOfFinite
  <2>3. \A x \in told : x <= m
    BY <2>2 DEF id
  <2>. QED  BY <1>3, <1>4, <2>3, BoundedMax
<1>8. r.period \in Int /\ w[2] \in Int
  BY <1>2, RowsPass, WindowsAre
<1>9. r.period <= w[2]
  BY <1>2, <1>8
<1>. QED  BY <1>3, <1>6, <1>7, <1>8, <1>9

\* What may be offered for a part: finitely many prices above zero, each with a promise.
LEMMA FeedIs ==
  ASSUME NEW files, UploadTyped(files), NEW quota, Errors(files, quota) = {}
  PROVE  /\ IsFiniteSet(PriceFeed(files))
         /\ \A p \in PriceFeed(files) : /\ p.price \in Int /\ p.price > 0
                                        /\ p.days \in Int /\ p.days > 0 /\ p.preferred \in BOOLEAN
<1>. DEFINE sold == RowSet(files, "vendors")
            own == {r \in RowSet(files, "parts") :
                      r.cost # Empty /\ r.pn \notin {v.pn : v \in RowSet(files, "vendors")}}
            offer == [v \in sold |-> [pn |-> v.pn, vendor |-> v.vendor, price |-> v.price, days |-> v.days,
                        moq |-> v.moq, condition |-> v.condition, preferred |-> v.preferred]]
            made == [r \in own |-> [pn |-> r.pn, vendor |-> Default, price |-> r.cost, days |-> 210,
                        moq |-> 10, condition |-> "NEW", preferred |-> TRUE]]
<1>1. PriceFeed(files) = {offer[v] : v \in sold} \cup {made[r] : r \in own}
  BY DEF PriceFeed, DerivedPrices
<1>2. IsFiniteSet(sold) /\ IsFiniteSet(own)
  BY RowsAreFinite, FS_Subset
<1>3. IsFiniteSet({offer[v] : v \in sold}) /\ IsFiniteSet({made[r] : r \in own})
  <2>. HIDE DEF sold, own, offer, made
  <2>. QED  BY <1>2, ImageFinite
<1>4. \A v \in sold : /\ offer[v].price \in Int /\ offer[v].price > 0
                      /\ offer[v].days \in Int /\ offer[v].days > 0 /\ offer[v].preferred \in BOOLEAN
  <2>. TAKE v \in sold
  <2>1. v.price \in Int /\ v.price > 0 /\ v.days \in Int /\ v.days > 0 /\ v.preferred \in BOOLEAN
    BY RowsPass
  <2>2. offer[v].price = v.price /\ offer[v].days = v.days /\ offer[v].preferred = v.preferred
    BY Zenon
  <2>. HIDE DEF offer
  <2>. QED  BY <2>1, <2>2, Zenon
<1>5. \A r \in own : /\ made[r].price \in Int /\ made[r].price > 0
                     /\ made[r].days \in Int /\ made[r].days > 0 /\ made[r].preferred \in BOOLEAN
  <2>. TAKE r \in own
  <2>1. r.cost \in Int /\ r.cost > 0
    BY RowsPass
  <2>2. made[r].price = r.cost /\ made[r].days = 210 /\ made[r].preferred = TRUE
    BY Zenon
  <2>. HIDE DEF made
  <2>3. made[r].preferred \in BOOLEAN
    BY <2>2, Zenon
  <2>. QED  BY <2>1, <2>2, <2>3
<1>6. \A p \in PriceFeed(files) : (\E v \in sold : p = offer[v]) \/ (\E r \in own : p = made[r])
  <2>. HIDE DEF sold, own, offer, made
  <2>. QED  BY <1>1
<1>7. IsFiniteSet(PriceFeed(files))
  <2>. HIDE DEF sold, own, offer, made
  <2>. QED  BY <1>1, <1>3, FS_Union
<1>. HIDE DEF sold, own, offer, made
<1>. QED  BY <1>4, <1>5, <1>6, <1>7

\* The prices of one part.
LEMMA PricesAre ==
  ASSUME NEW files, UploadTyped(files), NEW quota, Errors(files, quota) = {}, NEW pn
  PROVE  /\ PromisesTyped(PriceFor(files, pn))
         /\ \A p \in PriceFor(files, pn) : p.price > 0 /\ p.days > 0 /\ p.type = Blank
<1>. DEFINE mine == {x \in PriceFeed(files) : x.pn = pn}
            form == [p \in mine |-> [vendor |-> p.vendor, rank |-> IF p.vendor = Default THEN 1 ELSE 2,
               price |-> p.price, preferred |-> p.preferred, moq |-> Max({1, WholeUnits(p.moq, 1)}),
               type |-> Blank, hint |-> ConditionHint(p.condition), days |-> p.days]]
<1>1. PriceFor(files, pn) = {form[p] : p \in mine}
  BY Zenon DEF PriceFor
<1>2. IsFiniteSet(mine)
  BY FeedIs, FS_Subset
<1>3. \A p \in mine : /\ form[p].price \in Int /\ form[p].price > 0 /\ form[p].rank \in Int
                      /\ form[p].days \in Int /\ form[p].days > 0
                      /\ form[p].preferred \in BOOLEAN /\ form[p].type = Blank
  <2>. SUFFICES ASSUME NEW p \in mine
                PROVE  /\ form[p].price \in Int /\ form[p].price > 0 /\ form[p].rank \in Int
                       /\ form[p].days \in Int /\ form[p].days > 0
                       /\ form[p].preferred \in BOOLEAN /\ form[p].type = Blank
    OBVIOUS
  <2>1. /\ form[p].price = p.price /\ form[p].days = p.days /\ form[p].preferred = p.preferred
        /\ form[p].rank = (IF p.vendor = Default THEN 1 ELSE 2) /\ form[p].type = Blank
    OBVIOUS
  <2>2. p \in PriceFeed(files)
    OBVIOUS
  <2>. HIDE DEF form, mine
  <2>. QED  BY <2>1, <2>2, FeedIs
<1>. HIDE DEF mine, form
<1>4. IsFiniteSet(PriceFor(files, pn))
  BY <1>1, <1>2, ImageFinite
<1>. QED  BY <1>1, <1>3, <1>4 DEF PromisesTyped

\* A part in stock that is sold new, if at all, has a price for new parts: of a vendor, or its cost.
LEMMA StockIsSold ==
  ASSUME NEW files, UploadTyped(files), NEW quota, Errors(files, quota) = {},
         NEW r \in RowSet(files, "stock"), SoldNew(files, r.pn)
  PROVE  \E p \in PriceFor(files, r.pn) : p.hint = "NEW"
<1>1. \E p \in PriceFeed(files) : p.pn = r.pn /\ ConditionHint(p.condition) = "NEW"
  <2>1. CASE \E v \in RowSet(files, "vendors") : v.pn = r.pn
    <3>1. PICK v \in RowSet(files, "vendors") : v.pn = r.pn
      BY <2>1
    <3>2. ConditionHint(v.condition) = "NEW"
      BY <3>1 DEF SoldNew
    <3>. DEFINE p == [pn |-> v.pn, vendor |-> v.vendor, price |-> v.price, days |-> v.days,
                      moq |-> v.moq, condition |-> v.condition, preferred |-> v.preferred]
    <3>3. p \in PriceFeed(files) /\ p.pn = v.pn /\ p.condition = v.condition
      BY DEF PriceFeed
    <3>. HIDE DEF p
    <3>. QED  BY <3>1, <3>2, <3>3
  <2>2. CASE ~\E v \in RowSet(files, "vendors") : v.pn = r.pn
    <3>. DEFINE rows == files["parts"]
                own == rows[LastOf(rows, r.pn)]
                mine == {i \in DOMAIN rows : rows[i].pn = r.pn}
    <3>1. r.pn \in PartKeys(files)
      BY RowsPass
    <3>2. own.cost # Empty
      <4>1. CostErrors(files) = {}
        BY NothingFails
      <4>. DEFINE sold == {v.pn : v \in {x \in RowSet(files, "vendors") : Readable(x.price) /\ x.price > 0}}
                  stocked == ({x.pn : x \in RowSet(files, "stock")} \ sold) \cap PartKeys(files)
                  free == {k \in stocked : rows[LastOf(rows, k)].cost = Empty}
      <4>2. r.pn \in stocked
        BY <2>2, <3>1
      <4>3. CostErrors(files) = {<<"parts", LastOf(rows, k)>> : k \in free}
        BY Zenon DEF CostErrors
      <4>. HIDE DEF stocked
      <4>4. free = {}
        <5>. HIDE DEF free, rows
        <5>. QED  BY <4>1, <4>3
      <4>5. r.pn \notin free
        BY <4>4, Zenon
      <4>. HIDE DEF rows
      <4>. QED  BY <4>2, <4>5 DEF free
    <3>3. PICK x \in RowSet(files, "parts") : x.pn = r.pn
      BY <3>1 DEF PartKeys
    <3>4. "parts" \in DOMAIN files /\ Rows(files, "parts") = rows
      BY <3>3, RowsAre
    <3>5. PICK n \in Nat : DOMAIN rows = 1..n
      BY <3>4, RowsAreFinite
    <3>6. mine \in SUBSET Int /\ mine # {} /\ \A i \in mine : i <= n
      BY <3>3, <3>4, <3>5, RowsAre
    <3>7. LastOf(rows, r.pn) \in mine
      <4>1. Max(mine) \in mine
        <5>. HIDE DEF mine
        <5>. QED  BY <3>6, BoundedMax
      <4>. QED  BY <4>1 DEF LastOf
    <3>8. own \in RowSet(files, "parts") /\ own.pn = r.pn
      BY <3>4, <3>7, RowsAre
    <3>. HIDE DEF own
    <3>9. own.pn \notin {v.pn : v \in RowSet(files, "vendors")}
      BY <2>2, <3>8
    <3>. DEFINE p == [pn |-> own.pn, vendor |-> Default, price |-> own.cost, days |-> 210, moq |-> 10,
                      condition |-> "NEW", preferred |-> TRUE]
    <3>10. p \in PriceFeed(files) /\ p.pn = own.pn /\ p.condition = "NEW"
      BY <3>2, <3>8, <3>9 DEF PriceFeed, DerivedPrices
    <3>11. ConditionHint("NEW") = "NEW"
      BY DEF ConditionHint, Blank
    <3>. HIDE DEF p
    <3>. QED  BY <3>8, <3>10, <3>11
  <2>. QED  BY <2>1, <2>2
<1>2. PICK p \in PriceFeed(files) : p.pn = r.pn /\ ConditionHint(p.condition) = "NEW"
  BY <1>1
<1>. DEFINE form == [vendor |-> p.vendor, rank |-> IF p.vendor = Default THEN 1 ELSE 2,
               price |-> p.price, preferred |-> p.preferred, moq |-> Max({1, WholeUnits(p.moq, 1)}),
               type |-> Blank, hint |-> ConditionHint(p.condition), days |-> p.days]
<1>3. form \in PriceFor(files, r.pn)
  BY <1>2, Zenon DEF PriceFor
<1>4. form.hint = ConditionHint(p.condition)
  BY Zenon
<1>. HIDE DEF form
<1>. QED  BY <1>2, <1>3, <1>4

\* So it costs something, and there is a lead time of new parts over all its vendors.
LEMMA StockIsPriced ==
  ASSUME NEW files, UploadTyped(files), NEW quota, Errors(files, quota) = {},
         NEW r \in RowSet(files, "stock"), SoldNew(files, r.pn)
  PROVE  Priced(Load(files), r.pn)
<1>. DEFINE pn == r.pn
            all == PriceFor(files, pn)
            new == {p \in all : p.hint = "NEW"}
            costs == CostsOf(files, pn)
            from(v) == IF v = Default THEN new ELSE {p \in new : p.vendor = v}
<1>1. pn \in PartKeys(files)
  BY RowsPass
<1>2. /\ Load(files).prices = [x \in PartKeys(files) |-> CostsOf(files, x)]
      /\ Load(files).cycles = [x \in PartKeys(files) |-> SupplyCycles(files, x)]
  BY Zenon DEF Load
<1>3. /\ Load(files).prices[pn] = costs
      /\ Load(files).cycles[pn] = SupplyCycles(files, pn)
  BY <1>1, <1>2
<1>4. /\ IsFiniteSet(all)
      /\ \A p \in all : /\ p.preferred \in BOOLEAN /\ p.price \in Int /\ p.rank \in Int
                        /\ p.days \in Int /\ p.price > 0 /\ p.days > 0 /\ p.type = Blank
  BY PricesAre DEF PromisesTyped
<1>5. new # {}
  BY StockIsSold
<1>6. costs = [v \in {p.vendor : p \in new} \cup {x \in {Default} : new # {}} |->
                 BestConfigured(from(v)).price]
  BY DEF CostsOf
<1>7. Default \in DOMAIN costs
  <2>. HIDE DEF new, costs, from
  <2>. QED  BY <1>5, <1>6
<1>8. ASSUME NEW v \in DOMAIN costs PROVE costs[v] > 0
  <2>1. v \in {p.vendor : p \in new} \cup {Default} /\ costs[v] = BestConfigured(from(v)).price
    <3>. HIDE DEF new, costs, from
    <3>. QED  BY <1>6, <1>8
  <2>2. from(v) # {} /\ from(v) \subseteq all
    BY <1>5, <2>1
  <2>. HIDE DEF from, all, costs
  <2>3. BestConfigured(from(v)) \in from(v)
    <3>1. IsFiniteSet(from(v))
      BY <1>4, <2>2, FS_Subset
    <3>2. \E p \in from(v) : \A o \in from(v) : ~Before(o, p)
      BY <1>4, <2>2, <3>1, SomeRowIsBest
    <3>. QED  BY <3>2 DEF BestConfigured
  <2>. QED  BY <1>4, <2>1, <2>2, <2>3
<1>9. \E d \in SupplyCycles(files, pn) : d.lane = "NEW" /\ d.vendor = Default
  <2>. DEFINE ps == OverAll(PriceRows(all), "NEW")
              cs == OverAll(CycleRows(Cycles(files, pn)), "NEW")
              row == Distribution(Default, "NEW", ps, cs)
  <2>1. row \subseteq SupplyCycles(files, pn)
    <3>. DEFINE qs == PriceRows(all)
                ys == CycleRows(Cycles(files, pn))
                whole == UNION {Distribution(Default, l, OverAll(qs, l), OverAll(ys, l)) :
                                  l \in {"NEW", "REP"}}
    <3>. HIDE DEF all
    <3>. HIDE DEF qs, ys
    <3>1. PICK own : LeadTimes(all, Cycles(files, pn)) = {own \cup whole}
      <4>. DEFINE of(rows, v, l) == {x \in rows : x.lane = l /\ x.vendor = v}
                  named == {x.vendor : x \in qs \cup ys} \ {Default}
                  mine == UNION {Distribution(v, l, of(qs, v, l), of(ys, v, l)) :
                                   v \in named, l \in {"NEW", "REP"}}
      <4>1. LeadTimes(all, Cycles(files, pn)) = {mine \cup whole}
        BY DEF LeadTimes, qs, ys
      <4>. HIDE DEF mine, whole
      <4>. QED  BY <4>1
    <3>2. row \subseteq whole
      <4>1. row = Distribution(Default, "NEW", OverAll(qs, "NEW"), OverAll(ys, "NEW"))
        BY DEF qs, ys
      <4>. HIDE DEF row
      <4>. QED  BY <4>1
    <3>. HIDE DEF whole, row
    <3>3. SupplyCycles(files, pn) = UNION {own \cup whole}
      BY <3>1 DEF SupplyCycles, all
    <3>. QED  BY <3>2, <3>3
  <2>2. \A q \in PriceRows(all) : /\ q.preferred \in BOOLEAN /\ q.price \in Int /\ q.rank \in Int
                                  /\ q.promised \in Int /\ q.promised > 0
    <3>. HIDE DEF all
    <3>. QED  BY <1>4 DEF PriceRows
  <2>3. IsFiniteSet(PriceRows(all))
    <3>1. TurnaroundsTyped({})
      BY FS_EmptySet DEF TurnaroundsTyped
    <3>2. PromisesTyped(all)
      BY PricesAre
    <3>. HIDE DEF all
    <3>. QED  BY <3>1, <3>2, EvidenceIs
  <2>4. ps # {}
    <3>1. PICK p \in new : TRUE
      BY <1>5
    <3>2. p \in all /\ p.hint = "NEW" /\ p.type = Blank
      BY <1>4
    <3>3. Lane(p.type, IF p.hint = Blank THEN "NEW" ELSE p.hint) = "NEW"
      BY <3>2 DEF Lane, Blank
    <3>. DEFINE q == [vendor |-> Named(p.vendor), preferred |-> p.preferred, price |-> p.price,
                      rank |-> p.rank, lane |-> Lane(p.type, IF p.hint = Blank THEN "NEW" ELSE p.hint),
                      promised |-> IF p.days > 0 THEN p.days ELSE 0]
    <3>4. q \in PriceRows(all)
      <4>. HIDE DEF all
      <4>1. Lane(p.type, IF p.hint = Blank THEN "NEW" ELSE p.hint) # Blank
        BY <3>3 DEF Blank
      <4>. QED  BY <3>2, <4>1, Zenon DEF PriceRows
    <3>5. q.lane = "NEW"
      BY <3>3
    <3>. HIDE DEF q, all
    <3>. QED  BY <3>4, <3>5 DEF OverAll
  <2>5. BestConfigured(ps).promised > 0 /\ BestConfigured(ps).promised \in Int
    <3>. HIDE DEF all
    <3>1. ps \subseteq PriceRows(all)
      BY DEF OverAll
    <3>. HIDE DEF ps
    <3>2. IsFiniteSet(ps)
      BY <2>3, <3>1, FS_Subset
    <3>3. \E p \in ps : \A o \in ps : ~Before(o, p)
      BY <2>2, <2>4, <3>1, <3>2, SomeRowIsBest
    <3>4. BestConfigured(ps) \in ps
      BY <3>3 DEF BestConfigured
    <3>. QED  BY <2>2, <3>1, <3>4
  <2>6. \E d \in row : d.lane = "NEW" /\ d.vendor = Default
    <3>. HIDE DEF ps, cs
    <3>. QED  BY <2>4, <2>5 DEF Distribution
  <2>. HIDE DEF row
  <2>. QED  BY <2>1, <2>6
<1>. HIDE DEF costs
<1>. QED  BY <1>3, <1>7, <1>8, <1>9 DEF Priced

\* Whole units stay as they are, and a removal counts at least what it says.
LEMMA UnitsCount ==
  ASSUME NEW files, NEW r, r.qty \in Nat, r.qty % 10 = 0
  PROVE  /\ DemandUnits(files, r) \in Nat /\ r.qty \div 10 \in Nat
         /\ r.qty \div 10 <= DemandUnits(files, r)
<1>1. CoerceInt(r.qty) = r.qty \div 10
  BY DEF CoerceInt, HalfEven
<1>2. r.qty \div 10 \in Nat
  OBVIOUS
<1>3. /\ DemandUnits(files, r) \in {1, CoerceInt(r.qty)}
      /\ CoerceInt(r.qty) # 0 => DemandUnits(files, r) = CoerceInt(r.qty)
  BY DEF DemandUnits
<1>. QED  BY <1>1, <1>2, <1>3

\* What the months of a place add up to is all that was asked of it, or more.
LEMMA DemandAddsUp ==
  ASSUME NEW files, UploadTyped(files), NEW quota, Errors(files, quota) = {}, NEW place
  PROVE  Total(Demanded(files, place), LAMBDA m : m.units) >= UnitsAt(files, place)
<1>. DEFINE rows == Rows(files, "demand")
            du == [i \in DOMAIN rows |-> DemandUnits(files, rows[i])]
            said == [i \in DOMAIN rows |-> rows[i].qty \div 10]
            g == [i \in DOMAIN rows |-> Month(rows[i].period)]
            mine == {i \in DOMAIN rows : Place(rows[i]) = place}
            some == {i \in mine : du[i] > 0}
            in(m) == {i \in some : g[i] = m}
            months == {g[i] : i \in some}
            h == [m \in months |-> [month |-> m, units |-> SumFunctionOnSet(du, in(m)),
                                    events |-> Cardinality(in(m))]]
            sums == [m \in months |-> SumFunctionOnSet(du, in(m))]
            table == {h[m] : m \in months}
            units == [x \in table |-> x.units]
<1>1. IsFiniteSet(DOMAIN rows) /\ \A i \in DOMAIN rows : rows[i] \in RowSet(files, "demand")
  BY RowsAreFinite, RowsAre
<1>2. \A i \in DOMAIN rows : du[i] \in Nat /\ said[i] \in Nat /\ said[i] <= du[i]
  <2>. TAKE i \in DOMAIN rows
  <2>1. rows[i].qty \in Nat /\ rows[i].qty % 10 = 0
    BY <1>1, RowsPass
  <2>. QED  BY <2>1, UnitsCount
<1>3. mine \subseteq DOMAIN rows /\ some \subseteq mine
  OBVIOUS
<1>4. Demanded(files, place) = table
  <2>. DEFINE of(m) == {i \in DOMAIN rows : /\ Place(rows[i]) = place /\ Month(rows[i].period) = m
                                            /\ DemandUnits(files, rows[i]) > 0}
  <2>1. \A m : of(m) = in(m)
    OBVIOUS
  <2>2. {Month(rows[i].period) : i \in {j \in DOMAIN rows : Place(rows[j]) = place
                                                   /\ DemandUnits(files, rows[j]) > 0}} = months
    OBVIOUS
  <2>3. \A m : Total(of(m), LAMBDA i : DemandUnits(files, rows[i])) = SumFunctionOnSet(du, in(m))
    <3>. TAKE m
    <3>. DEFINE part == [i \in of(m) |-> DemandUnits(files, rows[i])]
    <3>1. IsFiniteSet(of(m)) /\ of(m) \subseteq DOMAIN rows
      BY <1>1, FS_Subset
    <3>2. \A i \in of(m) : part[i] = du[i] /\ part[i] \in Int
      BY <1>2
    <3>3. Total(of(m), LAMBDA i : DemandUnits(files, rows[i])) = SumFunctionOnSet(part, of(m))
      BY DEF Total, SumFunction
    <3>. HIDE DEF part, of, du, in
    <3>. QED  BY <2>1, <3>1, <3>2, <3>3, SumSame
  <2>4. Demanded(files, place) =
          {[month |-> m, units |-> Total(of(m), LAMBDA i : DemandUnits(files, rows[i])),
            events |-> Cardinality(of(m))] :
              m \in {Month(rows[i].period) : i \in {j \in DOMAIN rows : Place(rows[j]) = place
                                                   /\ DemandUnits(files, rows[j]) > 0}}}
    BY Zenon DEF Demanded
  <2>5. Demanded(files, place) = {[month |-> m, units |-> SumFunctionOnSet(du, in(m)),
                                   events |-> Cardinality(in(m))] : m \in months}
    <3>. HIDE DEF in, du, of, months, rows
    <3>. QED  BY <2>1, <2>2, <2>3, <2>4
  <2>. HIDE DEF in, du, months
  <2>. QED  BY <2>5
<1>. HIDE DEF du, said, g
<1>5. IsFiniteSet(mine) /\ IsFiniteSet(some) /\ IsFiniteSet(months)
  <2>1. IsFiniteSet(mine) /\ IsFiniteSet(some)
    BY <1>1, <1>3, FS_Subset
  <2>. HIDE DEF some
  <2>. QED  BY <2>1, ImageFinite
<1>6. \A i \in mine : du[i] \in Int /\ said[i] \in Int /\ said[i] <= du[i]
  BY <1>2, <1>3
<1>7. SumFunctionOnSet(said, mine) <= SumFunctionOnSet(du, mine)
  <2>. HIDE DEF mine
  <2>. QED  BY <1>5, <1>6, SumAtMost
<1>8. SumFunctionOnSet(du, mine) = SumFunctionOnSet(du, some)
  <2>1. \A i \in mine \ some : du[i] = 0
    BY <1>2, <1>3
  <2>. HIDE DEF mine, some
  <2>. QED  BY <1>3, <1>5, <1>6, <2>1, SumRest
<1>9. SumFunctionOnSet(du, some) = SumFunctionOnSet(sums, months)
  <2>1. \A i \in some : du[i] \in Int
    BY <1>3, <1>6
  <2>. HIDE DEF some
  <2>. QED  BY <1>5, <2>1, SumByGroup
<1>10. \A m \in months : sums[m] \in Int /\ sums[m] = units[h[m]] /\ h[m].month = m
  <2>. TAKE m \in months
  <2>1. IsFiniteSet(in(m)) /\ \A i \in in(m) : du[i] \in Int
    BY <1>3, <1>5, <1>6, FS_Subset
  <2>. HIDE DEF in
  <2>2. SumFunctionOnSet(du, in(m)) \in Int
    BY <2>1, SumType
  <2>3. h[m] \in table
    <3>. HIDE DEF h, months
    <3>. QED  OBVIOUS
  <2>4. /\ h[m] = [month |-> m, units |-> SumFunctionOnSet(du, in(m)), events |-> Cardinality(in(m))]
        /\ sums[m] = SumFunctionOnSet(du, in(m))
    <3>. HIDE DEF months
    <3>. QED  OBVIOUS
  <2>5. units[h[m]] = h[m].units
    <3>. HIDE DEF h, table
    <3>. QED  BY <2>3
  <2>. HIDE DEF h, sums, units, months
  <2>. QED  BY <2>2, <2>4, <2>5
<1>11. SumFunctionOnSet(units, table) = SumFunctionOnSet(sums, months)
  <2>1. \A m, n \in months : h[m] = h[n] => m = n
    <3>. HIDE DEF h, months, sums, units
    <3>. QED  BY <1>10
  <2>. HIDE DEF h, sums, units, months
  <2>. QED  BY <1>5, <1>10, <2>1, SumImage
<1>12. Total(Demanded(files, place), LAMBDA m : m.units) = SumFunctionOnSet(units, table)
  <2>. HIDE DEF table
  <2>. QED  BY <1>4 DEF Total, SumFunction
<1>13. UnitsAt(files, place) = SumFunctionOnSet(said, mine)
  <2>. DEFINE at == {i \in DOMAIN rows : Place(files["demand"][i]) = place}
              part == [i \in at |-> files["demand"][i].qty \div 10]
  <2>1. \A i \in DOMAIN rows : files["demand"][i] = rows[i]
    BY RowsAre
  <2>2. at = mine
    BY <2>1
  <2>3. \A i \in mine : part[i] = said[i] /\ part[i] \in Int
    BY <1>6, <2>1, <2>2 DEF said
  <2>4. UnitsAt(files, place) = SumFunctionOnSet(part, at)
    BY DEF UnitsAt, Total, SumFunction
  <2>. HIDE DEF at, part, mine
  <2>. QED  BY <1>5, <2>2, <2>3, <2>4, SumSame
<1>14. SumFunctionOnSet(du, mine) \in Int /\ SumFunctionOnSet(said, mine) \in Int
  <2>. HIDE DEF mine
  <2>. QED  BY <1>5, <1>6, SumType
<1>. HIDE DEF sums, units, table, mine, some, months
<1>. QED  BY <1>7, <1>8, <1>9, <1>11, <1>12, <1>13, <1>14

\* The repairs of a part that came back are its observed cycles, each of them once.
LEMMA CyclesAre ==
  ASSUME NEW files, UploadTyped(files), NEW quota, Errors(files, quota) = {}, NEW pn
  PROVE  LET rows == Rows(files, "repairs")
             back == {i \in DOMAIN rows : IsReturn(rows[i]) /\ rows[i].pn = pn}
             cs   == CycleRows(Cycles(files, pn))
         IN  /\ TurnaroundsTyped(Cycles(files, pn))
             /\ IsFiniteSet(cs) /\ Cardinality(cs) = Cardinality(back)
             /\ \A c \in cs : c.days \in Int /\ c.lane = "REP"
<1>. DEFINE rows == Rows(files, "repairs")
            back == {i \in DOMAIN rows : IsReturn(rows[i]) /\ rows[i].pn = pn}
            order == [i \in back |->
              [id |-> i, vendor |-> rows[i].shop, type |-> "RO", host |-> Blank, order |-> Blank,
               ok |-> TRUE, days |-> 10 * (rows[i].end - rows[i].start)]]
            cycle == [i \in back |->
              [id |-> i, vendor |-> Named(rows[i].shop), lane |-> "REP",
               days |-> 10 * (rows[i].end - rows[i].start)]]
            orders == Cycles(files, pn)
<1>1. IsFiniteSet(back) /\ back \subseteq DOMAIN rows
  BY RowsAreFinite, FS_Subset
<1>2. \A i \in DOMAIN rows : rows[i] \in RowSet(files, "repairs") /\ files["repairs"][i] = rows[i]
  BY RowsAre
<1>3. \A i \in back : 10 * (rows[i].end - rows[i].start) \in Nat
  <2>. TAKE i \in back
  <2>1. rows[i].start \in Int /\ rows[i].end \in Int /\ rows[i].start <= rows[i].end
    BY <1>1, <1>2, RowsPass
  <2>. QED  BY <2>1
<1>4. orders = {order[i] : i \in back}
  <2>1. {i \in DOMAIN rows : files["repairs"][i].pn = pn /\ IsReturn(files["repairs"][i])} = back
    BY <1>2
  <2>2. orders = {[id |-> i, vendor |-> files["repairs"][i].shop, type |-> "RO", host |-> Blank,
                   order |-> Blank, ok |-> TRUE,
                   days |-> 10 * (files["repairs"][i].end - files["repairs"][i].start)] : i \in back}
    <3>. HIDE DEF back
    <3>. QED  BY <2>1, Zenon DEF Cycles, back, rows
  <2>. QED  BY <1>1, <1>2, <2>2
<1>5. Lane("RO", OrderPrefix(Blank, Blank)) = "REP" /\ "REP" # Blank
  BY DEF Lane, Blank
<1>6. \A i \in back :
        /\ order[i].type = "RO" /\ order[i].host = Blank /\ order[i].order = Blank /\ order[i].ok
        /\ order[i].id = i /\ order[i].vendor = rows[i].shop
        /\ order[i].days = 10 * (rows[i].end - rows[i].start) /\ order[i].days \in Nat
  BY <1>3
<1>7. CycleRows(orders) = {cycle[i] : i \in back}
  <2>. DEFINE form(r) == [id |-> r.id, vendor |-> Named(r.vendor),
                          lane |-> Lane(r.type, OrderPrefix(r.host, r.order)), days |-> r.days]
              kept == {x \in orders : /\ Lane(x.type, OrderPrefix(x.host, x.order)) # Blank
                                      /\ x.ok /\ x.days >= 0}
  <2>1. CycleRows(orders) = {form(r) : r \in kept}
    BY Zenon DEF CycleRows
  <2>2. kept = orders
    <3>. HIDE DEF order, back, rows, orders
    <3>1. \A x \in orders : Lane(x.type, OrderPrefix(x.host, x.order)) # Blank /\ x.ok /\ x.days >= 0
      BY <1>4, <1>5, <1>6
    <3>. QED  BY <3>1
  <2>3. \A i \in back : form(order[i]) = cycle[i]
    <3>. TAKE i \in back
    <3>1. cycle[i] = [id |-> i, vendor |-> Named(rows[i].shop), lane |-> "REP",
                      days |-> 10 * (rows[i].end - rows[i].start)]
      OBVIOUS
    <3>. HIDE DEF cycle, order, back, rows
    <3>. QED  BY <1>5, <1>6, <3>1
  <2>. HIDE DEF form, kept, order, cycle, back, orders
  <2>. QED  BY <1>4, <2>1, <2>2, <2>3
<1>8. \A i \in back : cycle[i].id = i /\ cycle[i].lane = "REP" /\ cycle[i].days \in Int
  BY <1>3
<1>9. IsFiniteSet(orders) /\ \A o \in orders : o.days \in Int
  <2>. HIDE DEF order, back, rows, orders
  <2>. QED  BY <1>1, <1>4, <1>6, ImageFinite
<1>10. IsFiniteSet({cycle[i] : i \in back}) /\ Cardinality({cycle[i] : i \in back}) = Cardinality(back)
  <2>1. \A i, j \in back : cycle[i] = cycle[j] => i = j
    <3>. HIDE DEF cycle, back
    <3>. QED  BY <1>8
  <2>. HIDE DEF cycle, back
  <2>. QED  BY <1>1, <2>1, ImageFinite, CardinalityOfDistinct
<1>. HIDE DEF order, cycle, orders
<1>. QED  BY <1>7, <1>8, <1>9, <1>10 DEF TurnaroundsTyped, orders

\* So the row over all repairers of a part counts all of them, or there is none to count.
LEMMA CyclesAreCounted ==
  ASSUME NEW files, UploadTyped(files), NEW quota, Errors(files, quota) = {}, NEW pn
  PROVE  Total({d \in SupplyCycles(files, pn) : d.lane = "REP" /\ d.vendor = Default}, LAMBDA d : d.n)
           = Cardinality({i \in DOMAIN Rows(files, "repairs") :
                            IsReturn(Rows(files, "repairs")[i]) /\ Rows(files, "repairs")[i].pn = pn})
<1>. DEFINE rows == Rows(files, "repairs")
            back == {i \in DOMAIN rows : IsReturn(rows[i]) /\ rows[i].pn = pn}
            ps == PriceRows(PriceFor(files, pn))
            cs == CycleRows(Cycles(files, pn))
            lanes == {"NEW", "REP"}
            named == {r.vendor : r \in ps \cup cs} \ {Default}
            pOf(v, l) == {r \in ps : r.lane = l /\ r.vendor = v}
            cOf(v, l) == {r \in cs : r.lane = l /\ r.vendor = v}
            own == UNION {Distribution(v, l, pOf(v, l), cOf(v, l)) : v \in named, l \in lanes}
            all == UNION {Distribution(Default, l, OverAll(ps, l), OverAll(cs, l)) : l \in lanes}
            row == Distribution(Default, "REP", OverAll(ps, "REP"), cs)
            seen == {d \in SupplyCycles(files, pn) : d.lane = "REP" /\ d.vendor = Default}
            n == [d \in seen |-> d.n]
<1>1. /\ TurnaroundsTyped(Cycles(files, pn)) /\ PromisesTyped(PriceFor(files, pn))
      /\ IsFiniteSet(cs) /\ Cardinality(cs) = Cardinality(back)
      /\ \A c \in cs : c.days \in Int /\ c.lane = "REP"
  BY CyclesAre, PricesAre
<1>2. /\ IsFiniteSet(ps)
      /\ \A r \in ps : r.promised \in Int /\ r.preferred \in BOOLEAN /\ r.price \in Int /\ r.rank \in Int
  BY <1>1, EvidenceIs
<1>3. SupplyCycles(files, pn) = own \cup all
  <2>. HIDE DEF ps, cs
  <2>1. LeadTimes(PriceFor(files, pn), Cycles(files, pn)) = {own \cup all}
    BY DEF LeadTimes, ps, cs
  <2>. HIDE DEF own, all
  <2>. QED  BY <2>1 DEF SupplyCycles
<1>. HIDE DEF ps, cs, back
<1>4. ASSUME NEW S, S \subseteq cs, NEW P, P \subseteq ps, NEW v, NEW l
      PROVE  /\ \A d \in Distribution(v, l, P, S) : d.vendor = v /\ d.lane = l /\ d.n = Cardinality(S)
             /\ S # {} => Distribution(v, l, P, S) # {}
  <2>1. IsFiniteSet(S) /\ \A c \in S : c.days \in Int
    BY <1>1, <1>4, FS_Subset
  <2>2. P # {} => BestConfigured(P).promised \in Int
    BY <1>2, <1>4, FS_Subset, BestIsOne
  <2>. QED  BY <2>1, <2>2, DistributionIs
<1>5. \A d \in own : d.vendor # Default
  <2>. SUFFICES ASSUME NEW d \in own PROVE d.vendor # Default
    OBVIOUS
  <2>1. PICK v \in named, l \in lanes : d \in Distribution(v, l, pOf(v, l), cOf(v, l))
    <3>. HIDE DEF named, lanes, pOf, cOf
    <3>. QED  OBVIOUS
  <2>2. pOf(v, l) \subseteq ps /\ cOf(v, l) \subseteq cs /\ v # Default
    OBVIOUS
  <2>. HIDE DEF named, lanes, pOf, cOf
  <2>. QED  BY <1>4, <2>1, <2>2
<1>6. OverAll(cs, "REP") = cs
  BY <1>1 DEF OverAll
<1>7. \A d \in all : d.vendor = Default /\ (d.lane = "REP" <=> d \in row)
  <2>. SUFFICES ASSUME NEW d \in all PROVE d.vendor = Default /\ (d.lane = "REP" <=> d \in row)
    OBVIOUS
  <2>1. PICK l \in lanes : d \in Distribution(Default, l, OverAll(ps, l), OverAll(cs, l))
    <3>. HIDE DEF lanes
    <3>. QED  OBVIOUS
  <2>2. \A x \in lanes : OverAll(ps, x) \subseteq ps /\ OverAll(cs, x) \subseteq cs
    BY DEF OverAll
  <2>3. d.vendor = Default /\ d.lane = l
    <3>. HIDE DEF lanes
    <3>. QED  BY <1>4, <2>1, <2>2
  <2>4. \A x \in row : x.lane = "REP"
    <3>1. OverAll(ps, "REP") \subseteq ps /\ cs \subseteq cs
      BY DEF OverAll
    <3>. HIDE DEF all, own, lanes
    <3>. QED  BY <1>4, <3>1
  <2>. HIDE DEF all, own
  <2>. QED  BY <1>6, <2>1, <2>3, <2>4
<1>8. row \subseteq all
  <2>. HIDE DEF row
  <2>1. row = Distribution(Default, "REP", OverAll(ps, "REP"), OverAll(cs, "REP"))
    BY <1>6 DEF row
  <2>. QED  BY <2>1
<1>9. seen = row
  <2>1. \A d \in row : d.lane = "REP" /\ d.vendor = Default
    <3>. HIDE DEF all, row
    <3>. QED  BY <1>7, <1>8
  <2>. HIDE DEF own, all, row
  <2>. QED  BY <1>3, <1>5, <1>7, <1>8, <2>1
<1>10. /\ \A d \in row : d.n = Cardinality(cs)
       /\ cs # {} => row # {}
  <2>1. OverAll(ps, "REP") \subseteq ps
    BY DEF OverAll
  <2>. QED  BY <1>4, <2>1
<1>11. row = {} \/ \E d : row = {d}
  BY DEF Distribution
<1>12. Total(seen, LAMBDA d : d.n) = SumFunctionOnSet(n, seen)
  <2>. HIDE DEF seen
  <2>. QED  BY DEF Total, SumFunction
<1>13. SumFunctionOnSet(n, seen) = Cardinality(cs)
  <2>1. CASE row = {}
    <3>1. Cardinality(cs) = 0
      BY <1>10, <2>1, FS_EmptySet
    <3>. HIDE DEF n, row, seen
    <3>. QED  BY <1>9, <2>1, <3>1, SumEmpty
  <2>2. CASE row # {}
    <3>. HIDE DEF row
    <3>1. PICK d : row = {d}
      BY <1>11, <2>2
    <3>2. n[d] = Cardinality(cs) /\ seen = {d} /\ Cardinality(cs) \in Int
      <4>. HIDE DEF seen
      <4>. QED  BY <1>1, <1>9, <1>10, <3>1, FS_CardinalityType
    <3>. HIDE DEF n, seen
    <3>. QED  BY <3>2, SumOne
  <2>. QED  BY <2>1, <2>2
<1>. HIDE DEF n, seen, rows
<1>. QED  BY <1>1, <1>12, <1>13 DEF seen, back, rows

\* What is said of the repairs of an upload that is accepted is what the stores hold of them.
LEMMA RepairsAreLoaded ==
  ASSUME NEW files, UploadTyped(files), NEW quota, Errors(files, quota) = {}
  PROVE  /\ Coverage(files, {}).quarantined = 0
         /\ Coverage(files, {}).accepted = RepairsSeen(Load(files))
<1>. DEFINE rows == Rows(files, "repairs")
            clean == {i \in DOMAIN rows : {<<"repairs", 0>>, <<"repairs", i>>} \cap {} = {}
                                          /\ ObservationAccepted(rows[i])}
            accepted == {i \in clean : IsReturn(rows[i])}
            of == [i \in accepted |-> rows[i].pn]
            parts == {of[i] : i \in accepted}
            count == [pn \in PartKeys(files) |-> Cardinality({i \in accepted : of[i] = pn})]
            some == [pn \in parts |-> Cardinality({i \in accepted : of[i] = pn})]
            seen(pn) == Total({d \in SupplyCycles(files, pn) : d.lane = "REP" /\ d.vendor = Default},
                              LAMBDA d : d.n)
            seens == [pn \in PartKeys(files) |-> seen(pn)]
<1>1. \A i \in DOMAIN rows : ObservationAccepted(rows[i]) /\ rows[i].pn \in PartKeys(files)
  BY RowsAre, RowsPass
<1>2. clean = DOMAIN rows
  BY <1>1
<1>3. /\ Coverage(files, {}).quarantined = Cardinality(DOMAIN rows \ clean)
      /\ Coverage(files, {}).accepted = Cardinality(accepted)
  BY DEF Coverage
<1>4. DOMAIN rows \ clean = {}
  BY <1>2
<1>5. Coverage(files, {}).quarantined = 0
  BY <1>3, <1>4, FS_EmptySet
<1>6. \A pn \in PartKeys(files) : seens[pn] = count[pn] /\ count[pn] \in Int
  <2>. TAKE pn \in PartKeys(files)
  <2>. DEFINE mine == {i \in accepted : of[i] = pn}
  <2>1. mine = {i \in DOMAIN rows : IsReturn(rows[i]) /\ rows[i].pn = pn}
    BY <1>2
  <2>2. Cardinality(mine) \in Int
    <3>1. IsFiniteSet({i \in DOMAIN rows : IsReturn(rows[i]) /\ rows[i].pn = pn})
      BY RowsAreFinite, FS_Subset
    <3>. HIDE DEF mine
    <3>. QED  BY <2>1, <3>1, FS_CardinalityType
  <2>3. seen(pn) = Cardinality(mine)
    <3>1. seen(pn) = Cardinality({i \in DOMAIN rows : IsReturn(rows[i]) /\ rows[i].pn = pn})
      BY CyclesAreCounted
    <3>. HIDE DEF seen, mine
    <3>. QED  BY <2>1, <3>1
  <2>4. seens[pn] = seen(pn)
    <3>. HIDE DEF seen
    <3>. QED  OBVIOUS
  <2>5. count[pn] = Cardinality(mine)
    <3>. HIDE DEF accepted, of
    <3>. QED  OBVIOUS
  <2>. HIDE DEF seens, seen, count, mine
  <2>. QED  BY <2>2, <2>3, <2>4, <2>5
<1>7. RepairsSeen(Load(files)) = SumFunctionOnSet(seens, PartKeys(files))
  <2>1. Load(files).cycles = [pn \in PartKeys(files) |-> SupplyCycles(files, pn)]
    BY Zenon DEF Load
  <2>2. DOMAIN Load(files).cycles = PartKeys(files)
        /\ \A pn \in PartKeys(files) : Load(files).cycles[pn] = SupplyCycles(files, pn)
    BY <2>1
  <2>. HIDE DEF seens
  <2>3. RepairsSeen(Load(files)) = SumFunctionOnSet([pn \in PartKeys(files) |->
             Total({d \in Load(files).cycles[pn] : d.lane = "REP" /\ d.vendor = Default},
                   LAMBDA d : d.n)], PartKeys(files))
    BY <2>2 DEF RepairsSeen, Total, SumFunction
  <2>. QED  BY <2>2, <2>3 DEF seens
<1>8. IsFiniteSet(PartKeys(files))
  <2>. DEFINE name == [r \in RowSet(files, "parts") |-> r.pn]
              names == {name[r] : r \in RowSet(files, "parts")}
  <2>1. PartKeys(files) \subseteq names
    BY DEF PartKeys
  <2>2. IsFiniteSet(names)
    <3>. HIDE DEF name
    <3>. QED  BY RowsAreFinite, ImageFinite
  <2>. HIDE DEF names
  <2>. QED  BY <2>1, <2>2, FS_Subset
<1>9. IsFiniteSet(accepted)
  BY <1>2, RowsAreFinite, FS_Subset
<1>10. parts \subseteq PartKeys(files) /\ \A pn \in PartKeys(files) \ parts : count[pn] = 0
  <2>1. \A i \in accepted : of[i] \in PartKeys(files)
    BY <1>1, <1>2
  <2>2. \A pn \in PartKeys(files) \ parts : {i \in accepted : of[i] = pn} = {}
    <3>. HIDE DEF of, accepted
    <3>. QED  OBVIOUS
  <2>. HIDE DEF of, accepted, parts
  <2>. QED  BY <2>1, <2>2, FS_EmptySet DEF parts
<1>11. Cardinality(accepted) = SumFunctionOnSet(some, parts)
  <2>. HIDE DEF of, accepted
  <2>. QED  BY <1>9, CountByGroup
<1>12. SumFunctionOnSet(some, parts) = SumFunctionOnSet(count, parts)
  <2>1. IsFiniteSet(parts)
    BY <1>8, <1>10, FS_Subset
  <2>2. \A pn \in parts : some[pn] = count[pn] /\ some[pn] \in Int
    <3>. HIDE DEF accepted, of, seens
    <3>. QED  BY <1>6, <1>10
  <2>. HIDE DEF some, count, parts
  <2>. QED  BY <2>1, <2>2, SumSame
<1>13. SumFunctionOnSet(count, PartKeys(files)) = SumFunctionOnSet(count, parts)
  <2>. HIDE DEF count, parts, seens
  <2>. QED  BY <1>6, <1>8, <1>10, SumRest
<1>14. SumFunctionOnSet(seens, PartKeys(files)) = SumFunctionOnSet(count, PartKeys(files))
  <2>. HIDE DEF count, seens
  <2>. QED  BY <1>6, <1>8, SumSame
<1>. HIDE DEF seens, count, some, accepted, parts
<1>. QED  BY <1>3, <1>5, <1>7, <1>11, <1>12, <1>13, <1>14

\* What validation lets pass, the mapper and the loader take as it is, for uploads of any size
\* (validate, to_extract_dir and build_stores_from_extract): nothing raises, every place has its
\* stock, parts in stock that are sold new have a price and a lead time, no demand, requisition or
\* repair is lost or lies after the date of the upload.
THEOREM WholeUploads ==
    AlgorithmSpec => []AcceptedUploadIsWhole
<1>1. Typed(case) /\ Answers => AcceptedUploadIsWhole
  <2>. DEFINE files == case.files
              s == Load(files)
  <2>. SUFFICES ASSUME Typed(case), Answers, Computed("upload"), result.errors = {}
                PROVE  /\ ~result.raised
                       /\ \A t \in result.stores :
                          /\ \A r \in RowSet(files, "stock") :
                                /\ Place(r) \in DOMAIN t.stock
                                /\ SoldNew(files, r.pn) => Priced(t, r.pn)
                          /\ \A k \in DOMAIN t.demand :
                                Total(t.demand[k], LAMBDA m : m.units) >= UnitsAt(files, k)
                          /\ \A r \in RowSet(files, "demand") :
                                Place(r) \in DOMAIN t.demand /\ r.period <= t.asOf
                          /\ \A i \in DOMAIN Rows(files, "requisitions") :
                                \E k \in DOMAIN t.required : i \in t.required[k]
                          /\ result.coverage.quarantined = 0
                          /\ result.coverage.accepted = RepairsSeen(t)
    BY Zenon DEF AcceptedUploadIsWhole
  <2>1. UploadTyped(files)
    BY DEF Typed, Computed
  <2>2. result = Ingest(files, case.quota)
    BY DEF Answers
  <2>3. /\ Errors(files, case.quota) = {}
        /\ result.coverage = Coverage(files, {})
        /\ result.raised = ~Maps(files)
        /\ result.stores = IF Maps(files) THEN {s} ELSE {}
    <3>1. result.errors = Errors(files, case.quota)
      BY <2>2, Zenon DEF Ingest
    <3>2. Errors(files, case.quota) = {}
      BY <3>1
    <3>3. /\ result.coverage = Coverage(files, Errors(files, case.quota))
          /\ result.raised = (Errors(files, case.quota) = {} /\ ~Maps(files))
          /\ result.stores = IF Errors(files, case.quota) = {} /\ Maps(files) THEN {s} ELSE {}
      BY <2>2, Zenon DEF Ingest
    <3>. HIDE DEF s
    <3>. QED  BY <3>2, <3>3, Zenon
  <2>. HIDE DEF files
  <2>4. Maps(files)
    BY <2>1, <2>3, AcceptedMaps
  <2>5. ~result.raised /\ result.stores = {s}
    BY <2>3, <2>4, Zenon
  <2>6. /\ s.stock = Positions(files) /\ s.asOf = AsOf(files)
        /\ s.demand = [k \in Stocked(files) \cup {Place(r) : r \in RowSet(files, "demand")} |->
                         Demanded(files, k)]
        /\ s.required = [k \in Stocked(files) \cup {Place(r) : r \in RowSet(files, "requisitions")} |->
                           Requisitioned(files, k)]
    BY Zenon DEF Load
  <2>7. \A r \in RowSet(files, "stock") :
           Place(r) \in DOMAIN s.stock /\ (SoldNew(files, r.pn) => Priced(s, r.pn))
    <3>. TAKE r \in RowSet(files, "stock")
    <3>1. Identified(r)
      BY <2>1, <2>3, RowsPass
    <3>2. DOMAIN Positions(files) = Stocked(files)
      BY DEF Positions
    <3>3. Place(r) \in DOMAIN s.stock
      <4>. HIDE DEF s
      <4>. QED  BY <2>6, <3>1, <3>2 DEF Stocked
    <3>. QED  BY <2>1, <2>3, <3>3, StockIsPriced
  <2>8. \A k \in DOMAIN s.demand : Total(s.demand[k], LAMBDA m : m.units) >= UnitsAt(files, k)
    <3>. HIDE DEF s
    <3>. TAKE k \in DOMAIN s.demand
    <3>1. s.demand[k] = Demanded(files, k)
      BY <2>6
    <3>2. Total(Demanded(files, k), LAMBDA m : m.units) >= UnitsAt(files, k)
      BY <2>1, <2>3, DemandAddsUp
    <3>. QED  BY <3>1, <3>2
  <2>9. \A r \in RowSet(files, "demand") : Place(r) \in DOMAIN s.demand /\ r.period <= s.asOf
    <3>. HIDE DEF s
    <3>. QED  BY <2>1, <2>3, <2>6, DemandIsPast
  <2>10. \A i \in DOMAIN Rows(files, "requisitions") : \E k \in DOMAIN s.required : i \in s.required[k]
    <3>. HIDE DEF s
    <3>. TAKE i \in DOMAIN Rows(files, "requisitions")
    <3>. DEFINE k == Place(files["requisitions"][i])
    <3>1. files["requisitions"][i] \in RowSet(files, "requisitions")
      BY RowsAre
    <3>2. k \in DOMAIN s.required
      BY <2>6, <3>1
    <3>3. i \in Requisitioned(files, k)
      BY DEF Requisitioned
    <3>4. s.required[k] = Requisitioned(files, k)
      <4>. HIDE DEF k
      <4>. QED  BY <2>6, <3>2
    <3>. QED  BY <3>2, <3>3, <3>4
  <2>11. Coverage(files, {}).quarantined = 0 /\ Coverage(files, {}).accepted = RepairsSeen(s)
    BY <2>1, <2>3, RepairsAreLoaded
  <2>. HIDE DEF s
  <2>. QED  BY <2>3, <2>5, <2>7, <2>8, <2>9, <2>10, <2>11
<1>. QED  BY <1>1, AnswersAreComputed, PTL
=============================================================================
