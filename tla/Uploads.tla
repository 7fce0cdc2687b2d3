-------------------------------- MODULE Uploads --------------------------------
(***************************************************************************)
(* What an upload becomes (recommendation-engine/ingest, data/extract_     *)
(* loader.py): validate, the mapper to an extract, and the loader that     *)
(* makes the stores of it.  TenantSeed says when that happens.             *)
(*                                                                         *)
(* An upload maps the names of its files to their rows.  A row has the     *)
(* cells that decide what becomes of it: names, numbers in tenths, dates   *)
(* in days.  An optional column that is absent is a cell that is empty.    *)
(***************************************************************************)
EXTENDS FeatureTransforms

Empty    == -1000
Garbled  == -1001    \* neither a number nor a date
Undated  == -900     \* the date of an upload that tells none
Readable(c) == c \notin {Empty, Garbled}

Rows(files, f)   == IF f \in DOMAIN files THEN files[f] ELSE <<>>
RowSet(files, f) == ToSet(Rows(files, f))

-----------------------------------------------------------------------------
(* validate: the rows that are refused, row 0 for a file as a whole.       *)

RequiredFiles == {"parts", "stock"}

Names == [parts |-> {"pn"}, stock |-> {"pn", "loc"}, demand |-> {"pn", "loc"}, window |-> {},
          locations |-> {"loc"}, orders |-> {"pn", "loc"}, requisitions |-> {"id", "pn", "loc"},
          vendors |-> {"pn", "vendor"}, repairs |-> {"order", "line", "pn", "status"}]

Needed == [parts |-> {}, stock |-> {"on_hand"}, demand |-> {"period", "qty"},
           window |-> {"start", "end"}, locations |-> {}, orders |-> {"qty", "due"},
           requisitions |-> {"qty"}, vendors |-> {"price", "days"},
           repairs |-> {"qty", "start", "end"}]

Counts == [parts |-> {}, stock |-> {"on_hand", "allocated", "rop"}, demand |-> {"qty"},
           window |-> {}, locations |-> {}, orders |-> {"qty"}, requisitions |-> {"qty"},
           vendors |-> {"moq"}, repairs |-> {"qty"}]

Positive == [parts |-> {"cost"}, stock |-> {}, demand |-> {}, window |-> {}, locations |-> {},
             orders |-> {}, requisitions |-> {"qty"}, vendors |-> {"price", "days", "moq"},
             repairs |-> {"qty"}]

Dates == [parts |-> {}, stock |-> {}, demand |-> {"period", "start", "end"},
          window |-> {"start", "end"}, locations |-> {}, orders |-> {"due"},
          requisitions |-> {"due"}, vendors |-> {}, repairs |-> {"start", "end"}]

CellFails(f, r) ==
    \/ \E c \in Names[f] : r[c] = Blank
    \/ \E c \in Needed[f] : r[c] = Empty
    \/ \E c \in Counts[f] \cup Positive[f] \cup Dates[f] : r[c] = Garbled
    \/ \E c \in Counts[f] : Readable(r[c]) /\ (r[c] < 0 \/ r[c] % 10 # 0)
    \/ \E c \in Positive[f] : Readable(r[c]) /\ r[c] <= 0

PartKeys(files)     == {r.pn : r \in RowSet(files, "parts")} \ {Blank}
LocationKeys(files) == {r.loc : r \in RowSet(files, "locations")} \ {Blank}

Located(files, loc) ==
    "locations" \in DOMAIN files => loc \in LocationKeys(files) \cup {Blank}

ReferenceFails(files, f, r) ==
    /\ f \in {"stock", "demand", "orders", "requisitions", "vendors", "repairs"}
    /\ \/ r.pn \notin PartKeys(files) \cup {Blank}
       \/ ~Located(files, r.loc)
       \/ f = "requisitions" /\ ~Located(files, r.alt)

\* One line of a requisition, one end of a repair.
Repeated(files, f, i) ==
    LET rows == files[f]
    IN  \/ f = "requisitions" /\ rows[i].id # Blank
           /\ \E j \in 1..(i - 1) : rows[j].id = rows[i].id
        \/ f = "repairs" /\ rows[i].order # Blank /\ rows[i].line # Blank
           /\ \E j \in 1..(i - 1) : rows[j].order = rows[i].order /\ rows[j].line = rows[i].line

Statuses == {"completed", "closed", "cancelled", "scrapped", "condemned"}
Outcomes == {"serviceable", "unserviceable", "scrapped", "condemned"}

RepairFails(r) ==
    \/ r.status \notin Statuses \cup {Blank}
    \/ r.outcome \notin Outcomes \cup {Blank}
    \/ Readable(r.start) /\ Readable(r.end) /\ r.end < r.start
    \/ r.serial # Blank /\ Readable(r.qty) /\ r.qty # 10
    \/ r.status = "cancelled" /\ r.outcome # Blank
    \/ r.status \in {"scrapped", "condemned"} /\ r.outcome \notin {Blank, r.status}

Codes == {"AOG", "GOIF", "DISPATCH", "ROUTINE", "CONSUMABLE"}

\* The row of a part: the last one.
LastOf(rows, pn) == Max({i \in DOMAIN rows : rows[i].pn = pn})

\* A part in stock costs something: by a vendor, or by itself.
CostErrors(files) ==
    LET sold    == {r.pn : r \in {v \in RowSet(files, "vendors") : Readable(v.price) /\ v.price > 0}}
        stocked == ({r.pn : r \in RowSet(files, "stock")} \ sold) \cap PartKeys(files)
    IN  {<<"parts", LastOf(files["parts"], pn)>> :
            pn \in {p \in stocked : files["parts"][LastOf(files["parts"], p)].cost = Empty}}

Interval(r) == Readable(r.start) /\ Readable(r.end) /\ r.start <= r.end

\* The window of the demand, stated once in its own file or on every row.
FileWindow(files) ==
    LET rows == Rows(files, "window")
    IN  IF Len(rows) = 1 /\ Interval(rows[1]) THEN {<<rows[1].start, rows[1].end>>} ELSE {}

Windowed(files)   == {i \in DOMAIN Rows(files, "demand") :
                        files["demand"][i].start # Empty /\ files["demand"][i].end # Empty}
RowWindows(files) == {<<files["demand"][i].start, files["demand"][i].end>> :
                        i \in {j \in Windowed(files) : Interval(files["demand"][j])}}
RowWindow(files)  ==
    IF Windowed(files) = DOMAIN Rows(files, "demand") /\ Cardinality(RowWindows(files)) = 1
    THEN RowWindows(files) ELSE {}

Window(files) == IF FileWindow(files) # {} THEN FileWindow(files) ELSE RowWindow(files)

FileError(f, failed) == IF failed THEN {<<f, 0>>} ELSE {}

WindowErrors(files) ==
    LET rows == Rows(files, "demand")
        says(f) == f \in DOMAIN files
    IN  FileError("window", /\ says("window")
                            /\ \/ ~says("demand")
                               \/ FileWindow(files) = {}
                               \/ RowWindow(files) \notin {{}, FileWindow(files)})
        \cup FileError("demand", \/ Windowed(files) \notin {{}, DOMAIN rows}
                                 \/ Cardinality(RowWindows(files)) > 1
                                 \/ says("demand") /\ Window(files) = {})
        \cup {<<"demand", i>> : i \in {j \in DOMAIN rows :
                \/ (rows[j].start = Empty) # (rows[j].end = Empty)
                \/ /\ Readable(rows[j].start) /\ Readable(rows[j].end)
                   /\ rows[j].end < rows[j].start
                \/ /\ Readable(rows[j].period)
                   /\ \E w \in Window(files) : rows[j].period \notin w[1]..w[2]}}

Errors(files, quota) ==
    {<<f, 0>> : f \in {x \in RequiredFiles : Rows(files, x) = <<>>}}
      \cup CostErrors(files) \cup WindowErrors(files)
      \cup FileError("stock",
              Cardinality({Place(r) : r \in {s \in RowSet(files, "stock") : Identified(s)}}) > quota)
      \cup UNION {{<<f, i>> : i \in {j \in DOMAIN files[f] :
                      \/ CellFails(f, files[f][j])
                      \/ ReferenceFails(files, f, files[f][j])
                      \/ Repeated(files, f, j)
                      \/ f = "repairs" /\ RepairFails(files[f][j])
                      \/ f = "parts" /\ files[f][j].code \notin Codes \cup {Blank}}} :
                  f \in DOMAIN files}

-----------------------------------------------------------------------------
(* to_extract_dir: the files of an extract, or an exception.               *)

\* The mapper looks at the window again.
WindowMaps(files) ==
    LET rows == Rows(files, "demand")
    IN  /\ \A i \in DOMAIN rows : \/ rows[i].start = Empty /\ rows[i].end = Empty
                                  \/ Interval(rows[i])
        /\ Cardinality(RowWindows(files)) <= 1
        /\ RowWindows(files) # {} => Windowed(files) = DOMAIN rows
        /\ "window" \in DOMAIN files => FileWindow(files) # {}
        /\ RowWindows(files) # {} /\ FileWindow(files) # {} => RowWindows(files) = FileWindow(files)
        /\ \E w \in FileWindow(files) \cup RowWindows(files) :
              \A i \in DOMAIN rows : rows[i].period \in w[1]..w[2]

\* The validators of RepairCycleObservation.
ObservationAccepted(r) ==
    /\ Blank \notin {r.order, r.line, r.pn}
    /\ r.qty > 0 /\ r.qty % 10 = 0
    /\ Readable(r.start) /\ Readable(r.end)
    /\ r.status \in Statuses
    /\ ~RepairFails(r)

IsReturn(r) == r.status \in {"completed", "closed"} /\ r.outcome \in {Blank, "serviceable"}

Maps(files) ==
    /\ "demand" \in DOMAIN files => WindowMaps(files)
    /\ \A r \in RowSet(files, "repairs") : ObservationAccepted(r)

\* Fault: prices are made up only where there is no file of prices.
DerivedUnlessSupplied(files) ==
    IF "vendors" \in DOMAIN files THEN {}
    ELSE {[pn |-> r.pn, vendor |-> Default, price |-> r.cost, days |-> 210, moq |-> 10,
           condition |-> "NEW", preferred |-> TRUE] :
            r \in {p \in RowSet(files, "parts") : p.cost # Empty}}

\* What a part costs is a price if no vendor has one for it.
DerivedPrices(files) ==
    {[pn |-> r.pn, vendor |-> Default, price |-> r.cost, days |-> 210, moq |-> 10,
      condition |-> "NEW", preferred |-> TRUE] :
        r \in {p \in RowSet(files, "parts") :
                  p.cost # Empty /\ p.pn \notin {v.pn : v \in RowSet(files, "vendors")}}}

PriceFeed(files) ==
    {[pn |-> v.pn, vendor |-> v.vendor, price |-> v.price, days |-> v.days, moq |-> v.moq,
      condition |-> v.condition, preferred |-> v.preferred] : v \in RowSet(files, "vendors")}
      \cup DerivedPrices(files)

\* An upload is as old as the latest it tells of.
AsOf(files) ==
    LET told == {w[2] : w \in Window(files)} \cup {r.end : r \in RowSet(files, "repairs")}
    IN  IF told = {} THEN Undated ELSE Max(told)

-----------------------------------------------------------------------------
(* build_stores_from_extract, not pooled.                                  *)

WholeUnits(c, default) == IF c = Empty THEN default ELSE CoerceInt(c)

LastAt(rows, place) ==
    rows[Max({i \in DOMAIN rows : Identified(rows[i]) /\ Place(rows[i]) = place})]

Stocked(files) == {Place(r) : r \in {s \in RowSet(files, "stock") : Identified(s)}}

Positions(files) ==
    [k \in Stocked(files) |->
        LET r == LastAt(files["stock"], k)
        IN  [serviceable |-> WholeUnits(r.on_hand, 0), allocated |-> WholeUnits(r.allocated, 0),
             rop |-> WholeUnits(r.rop, 0)]]

ClassOf(files, pn) ==
    IF pn \in PartKeys(files) THEN files["parts"][LastOf(files["parts"], pn)].class ELSE Blank

TierOf(files) ==
    [pn \in PartKeys(files) |-> Tier(files["parts"][LastOf(files["parts"], pn)].code)]

\* A condition makes a price one for new parts, one for a repair, or none.
ConditionHint(condition) ==
    IF condition \in {"REP", "RO"} THEN "REP"
    ELSE IF condition \in {Blank, "NEW", "USED"} THEN "NEW" ELSE "?"

PriceFor(files, pn) ==
    {[vendor |-> p.vendor, rank |-> IF p.vendor = Default THEN 1 ELSE 2, price |-> p.price,
      preferred |-> p.preferred, moq |-> Max({1, WholeUnits(p.moq, 1)}), type |-> Blank,
      hint |-> ConditionHint(p.condition), days |-> p.days] :
        p \in {x \in PriceFeed(files) : x.pn = pn}}

\* The best price of a new part, and of each vendor of it.
CostsOf(files, pn) ==
    LET new == {p \in PriceFor(files, pn) : p.hint = "NEW"}
    IN  [v \in {p.vendor : p \in new} \cup {x \in {Default} : new # {}} |->
            BestConfigured(IF v = Default THEN new ELSE {p \in new : p.vendor = v}).price]

\* Repairs that came back are closed orders.
Cycles(files, pn) ==
    {[id |-> i, vendor |-> files["repairs"][i].shop, type |-> "RO", host |-> Blank, order |-> Blank,
      ok |-> TRUE, days |-> 10 * (files["repairs"][i].end - files["repairs"][i].start)] :
        i \in {j \in DOMAIN Rows(files, "repairs") :
                  files["repairs"][j].pn = pn /\ IsReturn(files["repairs"][j])}}

SupplyCycles(files, pn) == UNION LeadTimes(PriceFor(files, pn), Cycles(files, pn))

\* A removal without a quantity is one removal.
DemandUnits(files, r) ==
    IF ClassOf(files, r.pn) = "rotable"
    THEN IF CoerceInt(r.qty) = 0 THEN 1 ELSE CoerceInt(r.qty)
    ELSE CoerceInt(r.qty)

Month(day) == day \div 30

Demanded(files, place) ==
    LET rows == Rows(files, "demand")
        of(m) == {i \in DOMAIN rows : /\ Place(rows[i]) = place /\ Month(rows[i].period) = m
                                      /\ DemandUnits(files, rows[i]) > 0}
    IN  {[month |-> m, units |-> Total(of(m), LAMBDA i : DemandUnits(files, rows[i])),
          events |-> Cardinality(of(m))] :
            m \in {Month(rows[i].period) : i \in {j \in DOMAIN rows : Place(rows[j]) = place
                                                   /\ DemandUnits(files, rows[j]) > 0}}}

\* Purchases count while they are open, repairs in every state.
Supply(files, place) ==
    LET rows == Rows(files, "orders")
        kind(r) == OrderType([type |-> r.type, host |-> r.prefix, order |-> Blank])
    IN  {i \in DOMAIN rows : /\ Place(rows[i]) = place /\ CoerceInt(rows[i].qty) > 0
                             /\ \/ kind(rows[i]) = "RO"
                                \/ kind(rows[i]) = "PO" /\ rows[i].status \in {Blank, "OPEN"}}

\* Lines without a date are requisitioned, but not scheduled.
Requisitioned(files, place) ==
    {i \in DOMAIN Rows(files, "requisitions") : Place(files["requisitions"][i]) = place}
Scheduled(files, place) ==
    {[due |-> files["requisitions"][i].due, qty |-> files["requisitions"][i].qty \div 10,
      source |-> files["requisitions"][i].id] :
        i \in {j \in Requisitioned(files, place) : files["requisitions"][j].due # Empty}}

Roles(files) ==
    LET rows == Rows(files, "locations")
        parent(l) == rows[Max({i \in DOMAIN rows : rows[i].loc = l})].parent
    IN  [l \in LocationKeys(files) |->
            IF parent(l) \in {Blank, l} THEN "main" ELSE "outstation"]

\* Of the places that are stocked and of those that are only asked of.
Load(files) ==
    LET at(f) == {Place(r) : r \in RowSet(files, f)}
    IN  [stock    |-> Positions(files),
         tiers    |-> TierOf(files), roles |-> Roles(files),
         prices   |-> [pn \in PartKeys(files) |-> CostsOf(files, pn)],
         cycles   |-> [pn \in PartKeys(files) |-> SupplyCycles(files, pn)],
         window   |-> Window(files), asOf |-> AsOf(files),
         demand   |-> [k \in Stocked(files) \cup at("demand") |-> Demanded(files, k)],
         supply   |-> [k \in Stocked(files) \cup at("orders") |-> Supply(files, k)],
         required |-> [k \in Stocked(files) \cup at("requisitions") |-> Requisitioned(files, k)],
         scheduled |-> [k \in Stocked(files) \cup at("requisitions") |-> Scheduled(files, k)]]

\* What is said of the repairs of an upload, whether it is refused or not.
Coverage(files, errors) ==
    LET rows    == Rows(files, "repairs")
        clean   == {i \in DOMAIN rows : {<<"repairs", 0>>, <<"repairs", i>>} \cap errors = {}
                                        /\ ObservationAccepted(rows[i])}
        accepted == {i \in clean : IsReturn(rows[i])}
        proxies == {v.pn : v \in {x \in RowSet(files, "vendors") : x.condition \in {"REP", "RO"}}}
        repairable == {r.pn : r \in {p \in RowSet(files, "parts") : p.class \in {"repairable", "rotable"}}}
        seen    == {rows[i].pn : i \in accepted}
    IN  [accepted |-> Cardinality(accepted), excluded |-> Cardinality(clean \ accepted),
         quarantined |-> Cardinality(DOMAIN rows \ clean), observed |-> Cardinality(seen),
         proxy |-> Cardinality(proxies \ seen),
         unavailable |-> Cardinality(repairable \ (proxies \cup seen))]

\* One error refuses the whole upload.
Ingest(files, quota) ==
    LET errors == Errors(files, quota)
    IN  [errors |-> errors, coverage |-> Coverage(files, errors),
         raised |-> errors = {} /\ ~Maps(files),
         stores |-> IF errors = {} /\ Maps(files) THEN {Load(files)} ELSE {}]

RunIngest == Computes("upload", {Ingest(case.files, case.quota)})

\* What a parsed upload is: sequences of rows, whose numbers and dates are whole in the
\* units of the cells, and a flag that is set or not.
UploadTyped(files) ==
    /\ DOMAIN files \subseteq DOMAIN Names
    /\ \A f \in DOMAIN files :
          /\ files[f] \in Seq(ToSet(files[f]))
          /\ \A r \in ToSet(files[f]) :
                /\ \A c \in Counts[f] \cup Positive[f] \cup Dates[f] : r[c] \in Int
                /\ f = "vendors" => r.preferred \in BOOLEAN

-----------------------------------------------------------------------------
(* What must hold.                                                         *)

SoldNew(files, pn) ==
    \A v \in RowSet(files, "vendors") : v.pn = pn => ConditionHint(v.condition) = "NEW"

\* What has neither price nor promise is not planned for.
Priced(s, pn) ==
    /\ Default \in DOMAIN s.prices[pn]
    /\ \A v \in DOMAIN s.prices[pn] : s.prices[pn][v] > 0
    /\ \E d \in s.cycles[pn] : d.lane = "NEW" /\ d.vendor = Default

UnitsAt(files, k) ==
    Total({i \in DOMAIN Rows(files, "demand") : Place(files["demand"][i]) = k},
          LAMBDA i : files["demand"][i].qty \div 10)

RepairsSeen(s) ==
    Total(DOMAIN s.cycles,
          LAMBDA pn : Total({d \in s.cycles[pn] : d.lane = "REP" /\ d.vendor = Default},
                            LAMBDA d : d.n))

\* What validation lets pass, the mapper and the loader take as it is: every
\* place has its stock, every part in stock that is sold new has a price and a
\* lead time, no demand or requisition is lost on the way or lies after the
\* date of the upload, and what is said of the repairs is what was loaded.
AcceptedUploadIsWhole ==
    Computed("upload") /\ result.errors = {} =>
    /\ ~result.raised
    /\ \A s \in result.stores :
       /\ \A r \in RowSet(case.files, "stock") :
             /\ Place(r) \in DOMAIN s.stock
             /\ SoldNew(case.files, r.pn) => Priced(s, r.pn)
       /\ \A k \in DOMAIN s.demand :
             Total(s.demand[k], LAMBDA m : m.units) >= UnitsAt(case.files, k)
       /\ \A r \in RowSet(case.files, "demand") :
             Place(r) \in DOMAIN s.demand /\ r.period <= s.asOf
       /\ \A i \in DOMAIN Rows(case.files, "requisitions") :
             \E k \in DOMAIN s.required : i \in s.required[k]
       /\ result.coverage.quarantined = 0
       /\ result.coverage.accepted = RepairsSeen(s)
=============================================================================
