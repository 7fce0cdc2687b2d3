---------------------------- MODULE MCAlgorithms ----------------------------
(* Small inputs for the pure functions. *)
EXTENDS Algorithms

Stock == {[fn |-> "stock", rows |-> rows] :
            rows \in SUBSET {[pn |-> p, loc |-> l, ok |-> ok, new |-> n, bad |-> 1, repair |-> 0] :
                                p \in {"p1", Blank}, l \in {"l1", "l2"}, ok \in {TRUE}, n \in {0, 1}}}
         \cup {[fn |-> "stock", rows |-> {[pn |-> "p1", loc |-> "l1", ok |-> FALSE, new |-> 0,
                                           bad |-> 0, repair |-> 0]}]}
Policy == {[fn |-> "policy", rows |-> rows] :
            rows \in SUBSET {[pn |-> "p1", loc |-> l, ok |-> TRUE, rop |-> n, max |-> 2] :
                                l \in {"l1", Blank}, n \in {0, 1}}}
Locations == {[fn |-> "locations", rows |-> rows] :
            rows \in SUBSET {[loc |-> l, parent |-> p] :
                                l \in {"l1", "l2", Blank}, p \in {"l1", Blank}}}
Parts == {[fn |-> "parts", rows |-> rows] :
            rows \in SUBSET {[pn |-> "p1", kit |-> k, serial |-> s, repairable |-> FALSE, tails |-> n] :
                                k \in BOOLEAN, s \in BOOLEAN, n \in {0 - 1, 2}}}
Essential == {[fn |-> "criticality", rows |-> rows] :
            rows \in SUBSET {[pn |-> p, code |-> c] : p \in {"p1", "p2"}, c \in {"AOG", "?"}}}
Chains == {[fn |-> "interchange", rows |-> rows] :
            rows \in SUBSET {[pn |-> p, parent |-> q, relation |-> "1"] :
                                p \in {"p1", "p2"}, q \in {"p1", "p2", "p3"}}}
Vendors == {[fn |-> "vendors", rows |-> rows] :
            rows \in SUBSET {[pn |-> "p1", vendor |-> v[1], rank |-> v[2], preferred |-> f,
                              price |-> n, ok |-> TRUE] :
                                v \in {<<"v1", 2>>, <<Default, 1>>}, f \in BOOLEAN, n \in {1, 2}}}
Prices == SUBSET {[vendor |-> v[1], rank |-> v[2], preferred |-> FALSE, price |-> 1, type |-> t,
                   hint |-> h, days |-> 5] :
                     v \in {<<"v1", 2>>, <<Blank, 1>>}, t \in {"PO", Blank}, h \in {"REP", Blank}}
OrdersOf(vs, hosts) == SUBSET {[id |-> i, vendor |-> v, type |-> Blank, host |-> h, order |-> "PO",
                   ok |-> TRUE, days |-> i - 1] : i \in 0..2, v \in vs, h \in hosts}
LeadTime == {[fn |-> "leadtime", rows |-> rows, orders |-> orders] :
                rows \in {x \in Prices : Cardinality(x) <= 1},
                orders \in OrdersOf({"v1"}, {Blank, "RO"}) \cup OrdersOf({"v1", Blank}, {Blank})}
Universe == SUBSET {[pn |-> "p1", loc |-> l, level |-> n] : l \in {"l1", "l2"}, n \in {0, 1}}
Demand == {[fn |-> "demand", rows |-> rows, stock |-> stock, active |-> active] :
            rows \in SUBSET {[pn |-> "p1", loc |-> "l1", ok |-> TRUE, month |-> 1, rotable |-> f,
                              amount |-> a] : f \in BOOLEAN, a \in {4, 15}},
            stock \in Universe, active \in BOOLEAN}
Line(id, type, order, open, planned) ==
    [pn |-> "p1", loc |-> "l1", ok |-> TRUE, id |-> id, type |-> type, host |-> Blank,
     order |-> order, open |-> open, planned |-> planned, received |-> 10]
Lines == SUBSET {Line("1", "PO", Blank, TRUE, 25), Line("2", "PO", Blank, FALSE, 20),
                 Line("3", Blank, "RO", FALSE, 20), Line("4", "XX", "PO", TRUE, 40),
                 Line("5", Blank, "PO", TRUE, 5)}
Orders == {[fn |-> fn, rows |-> rows, stock |-> stock, active |-> active] :
            fn \in {"orders", "requisitions"}, rows \in Lines, stock \in Universe,
            active \in BOOLEAN}

-----------------------------------------------------------------------------
(* Work lists: contexts that take every branch, on two locations and three *)
(* parts, with every kind of interchangeability between the parts.         *)

NoLeads == [v \in {} |-> 0]
Ordinary ==
    [complete |-> TRUE, economics |-> (DefaultVendor :> [cost |-> 100, moq |-> 1]),
     leads |-> NoLeads, replenishment |-> 0, requisitioned |-> TRUE, ordered |-> TRUE,
     orders |-> {}, scheduled |-> {},
     history |-> [bucket |-> 1, counted |-> TRUE, from |-> -99, to |-> 0,
                  observations |-> {[day |-> -50, units |-> 10, events |-> 8]}],
     formula |-> [rop |-> 2, eoq |-> 2, ss |-> 1, max |-> 5],
     current |-> [rop |-> 2, eoq |-> 2, ss |-> 1, max |-> 4],
     shelf |-> 0, hazmat |-> FALSE, repairable |-> FALSE, repairDays |-> None,
     crit |-> 3, aog |-> FALSE, serviceable |-> 3, reserved |-> 0]

Unused == [Ordinary.history EXCEPT !.observations = {[day |-> -99, units |-> 0, events |-> 0]}]
Old == [bucket |-> 7, counted |-> FALSE, from |-> None, to |-> None,
        observations |-> {[day |-> d, units |-> 5, events |-> None] : d \in {-104, -98, -5}}]
Short  == [Ordinary EXCEPT !.serviceable = 2, !.reserved = 1]
Rich   == [Ordinary EXCEPT !.serviceable = 9, !.crit = 5, !.repairable = TRUE, !.repairDays = 60]
Idle   == [Ordinary EXCEPT !.serviceable = 9, !.history = Unused,
                           !.economics = (DefaultVendor :> [cost |-> 6000, moq |-> 1])]
Dated  == [Ordinary EXCEPT !.serviceable = 0, !.leads = ("v1" :> 60),
              !.economics = (DefaultVendor :> [cost |-> 90, moq |-> 1]) @@ ("v1" :> [cost |-> 600, moq |-> 5]),
              !.orders = {[id |-> 1, type |-> "PO", vendor |-> "v1", due |-> -3, qty |-> 2],
                          [id |-> 2, type |-> "PO", vendor |-> "v2", due |-> None, qty |-> 4],
                          [id |-> 3, type |-> "RO", vendor |-> "v2", due |-> -9, qty |-> 7]},
              !.scheduled = {[due |-> 5, qty |-> 1], [due |-> 45, qty |-> 1],
                             [due |-> None, qty |-> 2]}]
Unread == [Short EXCEPT !.requisitioned = FALSE, !.ordered = FALSE, !.history = Old, !.crit = 1]
Perish == [Rich EXCEPT !.shelf = 100, !.hazmat = TRUE, !.current.max = 2, !.aog = TRUE]
Held   == [Perish EXCEPT !.reserved = 9]
Stale  == [Perish EXCEPT !.shelf = 10]
Slow   == [Perish EXCEPT !.leads = (DefaultVendor :> 60)]
Lent   == [Perish EXCEPT !.reserved = 5]
Spent  == [Perish EXCEPT !.serviceable = 7, !.reserved = 4]
Absent == [Ordinary EXCEPT !.complete = FALSE]
Free   == [Ordinary EXCEPT !.economics = (DefaultVendor :> [cost |-> 0, moq |-> 1])]
NoHistory == [Ordinary EXCEPT !.history = [Old EXCEPT !.observations = {}]]
Profiles == {Short, Rich, Held, Idle, Dated, Unread, Perish, Stale, Slow, Lent, Spent, Absent,
              Free, NoHistory}

Edge(a, b, one) == [from |-> a, to |-> b, oneWay |-> one]
GraphsOf(edges) ==
    LET at(p) == {e \in edges : p \in {e.from, e.to}}
    IN [p \in {q \in 1..3 : at(q) # {}} |->
          [pn |-> p, edges |-> at(p), members |-> UNION {{e.from, e.to} : e \in at(p)}]]
Relations == {{}, {Edge(1, 2, FALSE)}, {Edge(1, 2, TRUE)}, {Edge(2, 1, FALSE), Edge(2, 3, FALSE)},
              {Edge(1, 2, FALSE), Edge(2, 3, FALSE), Edge(1, 3, FALSE)},
              {Edge(1, 2, TRUE), Edge(2, 3, FALSE), Edge(1, 3, FALSE)}}

\* The other location, and the third part.
Others == {<<Rich, Short>>, <<Rich, Rich>>, <<Idle, Rich>>, <<Rich, Absent>>, <<Absent, Absent>>}

Batches ==
  {[fn |-> "batch", horizon |-> 30, graphs |-> GraphsOf(g),
    contexts |-> (<<1, 1>> :> a) @@ (<<2, 1>> :> b) @@ (<<1, 2>> :> o[1]) @@ (<<3, 1>> :> o[2])] :
      a \in Profiles, b \in Profiles, o \in Others, g \in Relations}

\* The same work lists, fewer of them, for a preview.
Previews == {[c EXCEPT !.fn = "preview"] :
               c \in {b \in Batches : /\ b.contexts[<<1, 2>>] = Rich /\ b.contexts[<<3, 1>>] = Short
                                      /\ DOMAIN b.graphs # 1..3}}

-----------------------------------------------------------------------------
(* Requests for a plan: menus with options that tie, that are dominated,   *)
(* that break their levels, and in every order of their identifiers.       *)

Kept   == Ordinary.current
Raised == [Kept EXCEPT !.max = 5]
Broken == [Kept EXCEPT !.max = 3]
Start(demand) == [available |-> 1, receipts |-> 0, demand |-> demand, horizon |-> 30]
Bring(kind, action, n, unit) == [kind |-> kind, action |-> action, n |-> n, unit |-> unit]
OptionOf(b, target, demand, aog, reasons) ==
    ReconcileCandidate(b.kind, Kept, target, {[kind |-> b.action, qty |-> b.n, unit |-> b.unit,
        source |-> 9]}, Start(demand), 2, aog, 9000 - 10 * demand, reasons)
Still(demand)    == NoChange(Kept, Start(demand), 2, 3, 9000 - 10 * demand)
Bought(n, d)     == OptionOf(Bring("purchase", "purchase", n, 2), Kept, d, 1, {})
BoughtUp(n, d)   == OptionOf(Bring("purchase", "purchase", n, 2), Raised, d, 1, {})
BoughtDown(n, d) == OptionOf(Bring("purchase", "purchase", n, 2), Broken, d, 1, {})
Deferred(n, d)   == OptionOf(Bring("purchase", "purchase", n, 2), Raised, d, 1, {"open_order_deferral"})
Fetched(n, d)    == OptionOf(Bring("transfer", "transfer_in", n, 0), Kept, d, 2, {})

OptionLists ==
    {<<Still(450), Bought(4, 450), BoughtUp(4, 450), Bought(6, 450)>>,
     <<BoughtUp(2, 300), Bought(2, 300), Still(300), Fetched(1, 300)>>,
     <<Fetched(1, 500), Still(500), BoughtDown(2, 500), Deferred(4, 500), Bought(4, 500),
       Bought(3, 500)>>,
     <<Bought(1, 50), Still(50)>>}

Floor(id, service, shortage, aog) ==
    [id |-> id, service |-> service, shortage |-> shortage, aog |-> aog]
FloorSets == {{}, {Floor("f", 60, None, None)}, {Floor("g", None, 0, 2)},
              {Floor("f", 60, None, None), Floor("h", None, 10000, 0)}}

Menus == {[options |-> o, tier |-> t, floors |-> f] :
            o \in OptionLists, t \in {1, 3}, f \in FloorSets}
Requests == {[fn |-> "plan", budget |-> b, menus |-> <<m, n>>] :
               b \in {0, 4, 7, 8, 12}, m \in Menus, n \in {x \in Menus : x.tier = 3 /\ x.floors = {}}}

-----------------------------------------------------------------------------
(* Uploads: files that are there or not, with rows that are well formed or  *)
(* break one rule each.                                                     *)

PartRow(pn, cost, code, class) == [pn |-> pn, cost |-> cost, code |-> code, class |-> class]
StockRow(pn, loc, n) == [pn |-> pn, loc |-> loc, on_hand |-> n, allocated |-> Empty, rop |-> 20]
DemandRow(loc, period, qty, from, to) ==
    [pn |-> "p1", loc |-> loc, period |-> period, qty |-> qty, start |-> from, end |-> to]
VendorRow(price, days, condition) ==
    [pn |-> "p1", loc |-> Blank, vendor |-> "v1", price |-> price, days |-> days, moq |-> Empty,
     condition |-> condition, preferred |-> FALSE]
OrderRow(qty, due, type, prefix, status) ==
    [pn |-> "p1", loc |-> "l1", qty |-> qty, due |-> due, type |-> type, prefix |-> prefix,
     status |-> status]
RequisitionRow(id, due, alt) ==
    [id |-> id, pn |-> "p1", loc |-> "l2", qty |-> 10, due |-> due, alt |-> alt]
RepairRow(line, qty, from, to, status, outcome, serial) ==
    [order |-> "o1", line |-> line, pn |-> "p1", loc |-> Blank, qty |-> qty, start |-> from,
     end |-> to, status |-> status, outcome |-> outcome, serial |-> serial, shop |-> Blank]

\* A file that is not there, and one that is.
Leave(f) == [x \in {} |-> f]
File(f, rows) == f :> rows
PartFiles ==
    {File("parts", <<PartRow("p1", 50, "AOG", "rotable")>>),
     File("parts", <<PartRow("p1", Empty, Blank, "expendable")>>),
     File("parts", <<PartRow("p1", 50, Blank, "repairable"), PartRow("p1", 70, Blank, Blank)>>)}
OddPartFiles ==
    {File("parts", <<>>), Leave("parts"), File("parts", <<PartRow("p1", Garbled, "?", Blank)>>)}
StockFiles ==
    {File("stock", <<StockRow("p1", "l1", 30)>>),
     File("stock", <<StockRow("p1", "l1", 30), StockRow("p1", "l2", 0), StockRow("p1", "l1", 40)>>)}
OddStockFiles ==
    {File("stock", <<StockRow("p1", "l1", Empty)>>), File("stock", <<StockRow("p2", "l1", 5)>>),
     File("stock", <<StockRow("p1", "l1", 0 - 10)>>), Leave("stock")}
DemandFiles ==
    {Leave("demand"), File("demand", <<DemandRow("l1", 5, 20, 0, 60), DemandRow("l1", 40, 0, 0, 60)>>),
     File("demand", <<DemandRow("l2", 5, 20, 0, 60), DemandRow("l1", 40, 0, Empty, Empty)>>),
     File("demand", <<DemandRow("l1", 5, 20, Empty, Empty), DemandRow("l2", 7, 10, Empty, Empty)>>),
     File("demand", <<DemandRow("l1", 70, 20, 0, 60)>>), File("demand", <<>>),
     File("demand", <<DemandRow("l1", 5, 20, 60, 0)>>),
     File("demand", <<DemandRow("l1", 5, 20, 0, 60), DemandRow("l1", 5, 20, 0, 90)>>)}
WindowFiles ==
    {Leave("window")} \cup {File("window", rows) :
        rows \in {<<>>, <<[start |-> 0, end |-> 60]>>, <<[start |-> 5, end |-> 0]>>}}
VendorFiles ==
    {Leave("vendors"), File("vendors", <<>>), File("vendors", <<VendorRow(60, 100, Blank)>>),
     File("vendors", <<VendorRow(60, 100, "REP")>>), File("vendors", <<VendorRow(0, 5, "NEW")>>),
     File("vendors", <<VendorRow(60, 100, "NEW"), VendorRow(55, 5, "?")>>)}
OrderFiles ==
    {Leave("orders"), File("orders", <<OrderRow(20, 9, Blank, "PO", Blank),
        OrderRow(20, 9, "RO", "PO", "CLOSED"), OrderRow(20, 9, "?", "PO", "OPEN"),
        OrderRow(0, 9, "PO", Blank, "OPEN")>>),
     File("orders", <<OrderRow(20, Empty, "PO", Blank, "OPEN")>>)}
RequisitionFiles ==
    {Leave("requisitions"),
     File("requisitions", <<RequisitionRow("r1", 9, Blank), RequisitionRow("r2", Empty, "l1")>>),
     File("requisitions", <<RequisitionRow("r1", 9, Blank), RequisitionRow("r1", 9, "l9")>>)}
RepairFiles ==
    {Leave("repairs"),
     File("repairs", <<RepairRow("1", 10, 3, 70, "closed", Blank, "s1"),
        RepairRow("2", 20, 3, 8, "completed", "unserviceable", Blank)>>),
     File("repairs", <<RepairRow("1", 10, 3, 70, "closed", Blank, Blank),
        RepairRow("1", 20, 3, 8, "cancelled", Blank, Blank)>>),
     File("repairs", <<RepairRow("1", 20, 9, 8, "scrapped", "serviceable", "s1")>>)}
LocationFiles ==
    {Leave("locations"),
     File("locations", <<[loc |-> "l1", parent |-> Blank], [loc |-> "l2", parent |-> "l1"]>>),
     File("locations", <<[loc |-> "l1", parent |-> Blank]>>)}

Upload(files, quota) == [fn |-> "upload", files |-> files, quota |-> quota]
UploadCases ==
    {Upload(p @@ s @@ d @@ w @@ v, q) : p \in PartFiles \cup OddPartFiles,
        s \in StockFiles \cup OddStockFiles, d \in DemandFiles, w \in WindowFiles, v \in VendorFiles,
        q \in {2}}
    \cup {Upload(p @@ s @@ o @@ r @@ h @@ l, q) : p \in PartFiles, s \in StockFiles,
        o \in OrderFiles, r \in RequisitionFiles, h \in RepairFiles, l \in LocationFiles, q \in 1..2}

-----------------------------------------------------------------------------
(* Repair work: rows that break one rule each, that share a line or a serial, *)
(* in every order, against work in progress below, at and above them; and     *)
(* evidence of every kind on work of two ages.                                *)

WorkRow(order, line, serial, qty) ==
    [type |-> "RO", order |-> order, line |-> line, serial |-> serial, qty |-> qty,
     opened |-> 0 - 5, loc |-> "here", status |-> ""]
WorkRows ==
    {WorkRow(1, 1, 0, 2), WorkRow(1, 1, 0, 1), WorkRow(1, 2, 1, 1), WorkRow(2, 1, 1, 1),
     WorkRow(2, 2, 0, 1), WorkRow(0, 1, 1, 1), WorkRow(1, 0, 0, 2)}
OddWorkRows ==
    {[WorkRow(1, 2, 0, 3) EXCEPT !.opened = d] : d \in {None, 4}}
    \cup {[WorkRow(1, 2, 0, 1) EXCEPT !.loc = l] : l \in {"elsewhere", "nowhere"}}
    \cup {[WorkRow(1, 3, 0, 1) EXCEPT !.status = t] : t \in {"terminal", "unsupported", "open"}}
    \cup {WorkRow(2, 1, 2, 2), [WorkRow(2, 1, 0, 1) EXCEPT !.type = "PO"], WorkRow(2, 1, 0, 0)}
Snapshots ==
    {[absent |-> TRUE, orders |-> <<>>], [absent |-> FALSE, orders |-> <<>>]}
    \cup {[absent |-> FALSE, orders |-> o] :
             o \in [1..2 -> WorkRows \cup OddWorkRows] \cup [1..3 -> WorkRows]}
NoCycle == [condition |-> "NEW", known |-> FALSE, p50 |-> 0, p90 |-> 0, promised |-> 0,
            sample |-> [u \in 1..99 |-> u]]
CycleTimes == {NoCycle, [NoCycle EXCEPT !.condition = "REP"]}
          \cup {[NoCycle EXCEPT !.condition = "REP", !.known = TRUE, !.p50 = n, !.p90 = 30,
                                !.promised = d] : n \in {20, 30}, d \in {0, 25}}
Work(snapshot, wip, durations, cycle, yield, tat, horizons) ==
    [fn |-> "repair", snapshot |-> snapshot, wip |-> wip, durations |-> durations,
     cycle |-> cycle, yield |-> yield, tat |-> tat, spread |-> 3000, horizons |-> horizons]
TwoAges == [absent |-> FALSE,
            orders |-> <<WorkRow(1, 1, 0, 2), [WorkRow(2, 1, 0, 1) EXCEPT !.opened = 0 - 20]>>]
RepairCases ==
    {Work(x, n, <<12>>, NoCycle, 100, 10, {10}) : x \in Snapshots, n \in {0 - 1, 2, 3, 6}}
    \cup {Work(TwoAges, 3, d, c, y, t, h) :
             d \in {<<>>, <<0 - 3>>, <<12, 0>>, <<7, 25, 12>>}, c \in CycleTimes, y \in {0, 80, 101},
             t \in {0, 5, 10}, h \in {{}, {0, 4, 15}, {30, 0 - 1}}}

-----------------------------------------------------------------------------
(* Replays: two or three decisions of two cohorts, with demand that differs, *)
(* that is none, that is filled or not; and records that break one rule.     *)

Artifact(k) == [id |-> k, tenant |-> 1, status |-> "available", content |-> 7, occurred |-> 0 - 2,
                available |-> 0 - 1, snapshot |-> 1, versions |-> {1}]
Outcome(k) == [id |-> k, tenant |-> 1, status |-> "available", content |-> 8, start |-> 0, end |-> 30,
               available |-> 31]
Realized == [tenant |-> 1, asof |-> 0, end |-> 30, artifacts |-> [k \in OutcomeKinds |-> Outcome(k)]]
Bound(o) == [tenant |-> o.tenant, asof |-> o.asof, end |-> o.end, artifacts |-> o.artifacts,
             manifest |-> OutcomeManifest(o)]
Measured(demanded, filled, cash) ==
    [currency |-> "USD", manifest |-> OutcomeManifest(Realized), decisions |-> 1,
     rate |-> FillRate(1, filled, demanded),
     amount |-> [m \in Amounts |-> CASE m = "demanded_units" -> demanded [] m = "filled_units" -> filled
        [] m = "backordered_units" -> demanded - filled [] m = "acquisition_cash" -> cash
        [] OTHER -> 2]]
PolicySide(metrics) ==
    [metrics |-> metrics, snapshot |-> 1, fingerprint |-> metrics.amount["filled_units"], run |-> 1,
     key |-> 1, selected |-> 0, versions |-> [k \in PolicyKinds |-> {1}],
     artifacts |-> [k \in PolicyKinds |-> Artifact(k)]]
MatchedRecord(class, m, n) ==
    [kind |-> "matched", id |-> 1, tenant |-> 1, key |-> 1, asof |-> 0, end |-> 30,
     cohort |-> [class |-> class, evidence |-> "part_attributes"],
     factual |-> [k \in FactualKinds |-> Artifact(k)], outcome |-> Bound(Realized),
     current |-> PolicySide(m), challenger |-> PolicySide(n)]
Even    == {MatchedRecord(c, Measured(d, f, 1), Measured(d, g, 1)) :
              c \in {"a", "b"}, d \in {2}, f \in {0, 1}, g \in {1, 2}}
           \cup {MatchedRecord(c, Measured(0, 0, 0), Measured(0, 0, 2)) : c \in {"a", "b"}}
Uneven  == {MatchedRecord("a", Measured(1, 1, 1), Measured(2, 2, 1)),
            MatchedRecord("b", Measured(3, 0, 1), Measured(1, 0, 1))}
Plain   == MatchedRecord("a", Measured(2, 1, 1), Measured(2, 2, 1))
LateArtifact   == [Artifact("price") EXCEPT !.available = 3]
AbsentArtifact == [Artifact("price") EXCEPT !.status = "absent", !.content = None, !.occurred = None]
OddRecords ==
    {[Plain EXCEPT !.factual["price"] = a] :
        a \in {LateArtifact, AbsentArtifact, [AbsentArtifact EXCEPT !.available = 3],
               [AbsentArtifact EXCEPT !.content = 7], [Artifact("price") EXCEPT !.tenant = 2],
               [Artifact("price") EXCEPT !.snapshot = 2], [Artifact("price") EXCEPT !.id = "demand"],
               [LateArtifact EXCEPT !.occurred = 4], [LateArtifact EXCEPT !.occurred = 1]}}
    \cup {[Plain EXCEPT !.factual["receipt"] = [AbsentArtifact EXCEPT !.id = "receipt"]]}
    \cup {[Plain EXCEPT ![s].artifacts["model"] = a] : s \in Sides,
             a \in {[LateArtifact EXCEPT !.id = "model"], [AbsentArtifact EXCEPT !.id = "model"],
                    [Artifact("model") EXCEPT !.versions = {2}]}}
    \cup {[Plain EXCEPT ![s].selected = 1] : s \in Sides}
    \cup {[Plain EXCEPT ![s].key = 9] : s \in Sides}
    \cup {[Plain EXCEPT ![s].metrics = m] : s \in Sides,
             m \in {[Measured(2, 1, 1) EXCEPT !.decisions = 2], [Measured(2, 1, 1) EXCEPT !.currency = "EUR"],
                    [Measured(2, 1, 1) EXCEPT !.rate = <<1, 3>>], [Measured(2, 1, 1) EXCEPT !.manifest.end = 60]}}
    \cup {[Plain EXCEPT !.current.metrics = Measured(1, 2, 1), !.challenger.metrics = Measured(1, 1, 1)],
          [Plain EXCEPT !.cohort.evidence = "demand"], [Plain EXCEPT !.tenant = 2],
          [Plain EXCEPT !.asof = 30], [Plain EXCEPT !.current.snapshot = 2]}
    \cup {[Plain EXCEPT !.outcome = o] :
             o \in {Bound([Realized EXCEPT !.artifacts["receipt"] = a]) :
                      a \in {[Outcome("receipt") EXCEPT !.end = 29],
                             [Outcome("receipt") EXCEPT !.available = 29],
                             [Outcome("demand") EXCEPT !.start = 40]}}
                 \cup {[Bound(Realized) EXCEPT !.manifest.end = 60]}}
    \cup {[kind |-> "excluded", id |-> 1, tenant |-> 1, key |-> 1, asof |-> 0, end |-> e,
           reason |-> "unavailable_demand"] : e \in {0, 30}}

\* The record as the i-th of a package.
Placed(i, r) ==
    IF r.kind = "excluded" THEN [r EXCEPT !.id = i, !.key = i]
    ELSE [r EXCEPT !.id = i, !.key = i, !.current.key = i + @ - 1, !.challenger.key = i + @ - 1]
Package(records, rule, tolerance) ==
    [fn |-> "replay", tenant |-> 1, currency |-> "USD", rule |-> rule, tolerance |-> tolerance,
     records |-> records]
ReplayCases ==
    {Package([i \in DOMAIN f |-> Placed(i, f[i])], "matched_budget", 2) :
        f \in [1..3 -> Even] \cup [1..2 -> Even \cup Uneven]}
    \cup {Package(<<Placed(1, r), Placed(2, s), Placed(3, Plain)>>, p[1], p[2]) :
             r \in OddRecords, s \in OddRecords \cup {Plain},
             p \in {<<"matched_budget", 0>>, <<"matched_service", 0>>, <<"matched_service", 60>>}}
    \cup {Package(f, "matched_budget", 0) : f \in {<<>>, <<Plain, Plain>>}}

-----------------------------------------------------------------------------
AllCases ==
    {Stock, Policy, Locations, Parts, Essential, Chains, Vendors, LeadTime, Demand, Orders,
     Batches, Previews, Requests, UploadCases, RepairCases, ReplayCases}
=============================================================================
