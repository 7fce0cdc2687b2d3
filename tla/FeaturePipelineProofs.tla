------------------------ MODULE FeaturePipelineProofs ------------------------
(***************************************************************************)
(* Proofs about FeaturePipeline, for any number of runs, groups, keys and  *)
(* readers: what is served is the whole of one run whose rows were marked  *)
(* complete, zeros of demand were observed, dates do not go back, and a    *)
(* store that is booted holds one population.                              *)
(***************************************************************************)
EXTENDS FeaturePipeline, WellFoundedInduction, SequenceTheorems, TLAPS

Manifest == [date : Nat, status : [Domain -> DomainOutcome], keys : SUBSET Key]
Bundle   == [Group -> Nat]
Bundles  == UNION {[D -> Bundle] : D \in SUBSET Key}

MarkerRow     == [run : Nat, batch : Nat]
GenerationRow == [run : Nat, bundles : Bundles]
PopulationRow == [phase : {"idle", "reading", "staging"}, run : Nat, todo : SUBSET Key,
                  bundles : Bundles, base : Nat]
ReaderRow     == [gen : Nat, todo : SUBSET Key, bundles : Bundles]

PipelineTypeOK ==
    /\ manifests \in Seq(Manifest)
    /\ job \in [Group -> Nat]
    /\ batches \in [Group -> Seq(Nat)]
    /\ markers \in [Group -> Seq(MarkerRow)]
    /\ ledger \in Seq(Nat)
    /\ population \in PopulationRow
    /\ generations \in Seq(GenerationRow)

\* The i-th batch of the table `rows` is of run r, and a marker says so.
Marked(rows, marks, r, i) ==
    /\ i \in DOMAIN rows /\ rows[i] = r
    /\ \E m \in DOMAIN marks : marks[m].run = r /\ marks[m].batch = i

\* The bundles are of marked batches of one run, which covers their groups.
BundlesFit(landed, tables, marks, r, bundles) ==
    /\ r \in DOMAIN landed
    /\ \A k \in DOMAIN bundles : \A g \in Group : bundles[k][g] # NoRead =>
          Marked(tables[g], marks[g], r, bundles[k][g]) /\ Covered(g, landed[r])

\* A job that has not marked its rows has appended them last, a marker is of the
\* batch it names, and the ledger tells of runs that landed.
TablesFit ==
    /\ \A g \in Group : job[g] # NoJob =>
          /\ batches[g] # <<>>
          /\ batches[g][Len(batches[g])] = job[g]
    /\ \A g \in Group : \A m \in DOMAIN markers[g] :
          /\ markers[g][m].batch \in DOMAIN batches[g]
          /\ batches[g][markers[g][m].batch] = markers[g][m].run
    /\ \A i \in DOMAIN ledger : ledger[i] \in DOMAIN manifests
    /\ \E n \in Nat : \A r \in DOMAIN manifests : manifests[r].date <= n

\* The ledger has a date as new.
InLedger(r) == \E i \in DOMAIN ledger : manifests[r].date <= manifests[ledger[i]].date

\* The keys whose stock manifest m extracted, and that they are marked.
StockOf(m) == IF Covered("stock_position", m) THEN m.keys ELSE {}

StockMarked(m, marks, r) ==
    Covered("stock_position", m) => \E i \in DOMAIN marks : marks[i].run = r

GenerationsFit ==
    \A n \in DOMAIN generations :
        /\ DOMAIN generations[n].bundles = StockOf(manifests[generations[n].run])
        /\ BundlesFit(manifests, batches, markers, generations[n].run, generations[n].bundles)
        /\ InLedger(generations[n].run)

\* A population has, or has still to read, the stock of its run, which is as new
\* as all that is served.
PopulationFits ==
    population.phase # "idle" =>
        /\ population.todo \cup DOMAIN population.bundles =
              StockOf(manifests[population.run])
        /\ population.phase = "staging" => population.todo = {}
        /\ StockMarked(manifests[population.run], markers["stock_position"], population.run)
        /\ BundlesFit(manifests, batches, markers, population.run, population.bundles)
        /\ InLedger(population.run)
        /\ \A n \in DOMAIN generations :
              manifests[generations[n].run].date <= manifests[population.run].date

\* The inductive invariant.
PipelineInv ==
    /\ PipelineTypeOK
    /\ TablesFit
    /\ GenerationsFit
    /\ PopulationFits

\* An idle population is in order.
LEMMA IdleFits == Idle \in PopulationRow /\ Idle.phase = "idle"
<1>1. <<>> \in [{} -> Bundle]
  OBVIOUS
<1>2. <<>> \in Bundles
  BY <1>1 DEF Bundles
<1>. QED  BY <1>2 DEF Idle, PopulationRow

\* Nothing has landed, and nothing is served.
LEMMA InitPipeline == PipelineInit => PipelineInv
<1>. SUFFICES ASSUME PipelineInit PROVE PipelineInv
  OBVIOUS
<1>1. /\ manifests = <<>> /\ ledger = <<>> /\ generations = <<>> /\ population = Idle
      /\ \A g \in Group : job[g] = NoJob /\ batches[g] = <<>> /\ markers[g] = <<>>
  BY DEF PipelineInit
<1>2. PipelineTypeOK
  BY <1>1, IdleFits DEF PipelineInit, PipelineTypeOK, NoJob
<1>3. TablesFit
  BY <1>1 DEF TablesFit
<1>4. GenerationsFit /\ PopulationFits
  BY <1>1, IdleFits DEF GenerationsFit, PopulationFits
<1>. QED  BY <1>2, <1>3, <1>4 DEF PipelineInv

-----------------------------------------------------------------------------
(* What a reader of the tables finds                                         *)

\* A nonempty set of numbers that has a bound has a maximum.
LEMMA BoundedMax ==
    ASSUME NEW T \in SUBSET Nat, T # {}, NEW n \in Nat, \A t \in T : t <= n
    PROVE  /\ Max(T) \in T
           /\ \A y \in T : Max(T) >= y
<1>. DEFINE U == {m \in 0..n : n - m \in T}
            R == OpToRel(<, Nat)
<1>. HIDE DEF R
<1>1. \A t \in T : n - t \in U
  OBVIOUS
<1>2. U \subseteq Nat
  OBVIOUS
<1>. HIDE DEF U
<1>3. U # {}
  BY <1>1
<1>4. IsWellFoundedOn(R, Nat)
  BY NatLessThanWellFounded DEF R
<1>5. PICK x \in U : \A y \in U : ~(<<y, x>> \in R)
  BY <1>2, <1>3, <1>4, WFMin
<1>6. \A y \in U : ~(y < x)
  BY <1>2, <1>5 DEF OpToRel, R
<1>7. x \in 0..n /\ n - x \in T
  BY <1>5 DEF U
<1>8. ASSUME NEW y \in T PROVE n - x >= y
  <2>1. y \in Nat /\ n - y \in U /\ ~(n - y < x)
    BY <1>1, <1>6
  <2>. QED  BY <1>7, <2>1
<1>9. \E m \in T : \A y \in T : m >= y
  BY <1>7, <1>8
<1>. QED  BY <1>9 DEF Max

\* The fields of a manifest that has landed.
LEMMA ManifestFields ==
    ASSUME PipelineTypeOK, NEW r \in DOMAIN manifests
    PROVE  /\ manifests[r] \in Manifest
           /\ manifests[r].date \in Nat
           /\ manifests[r].keys \in SUBSET Key
<1>1. manifests \in Seq(Manifest)
  BY DEF PipelineTypeOK
<1>2. manifests \in [1..Len(manifests) -> Manifest]
  BY <1>1, LenProperties
<1>3. manifests[r] \in Manifest
  BY <1>2
<1>. QED  BY <1>3 DEF Manifest

\* The newest run of the ledger has landed, and none in the ledger is newer.
LEMMA LatestRunFits ==
    ASSUME PipelineTypeOK, TablesFit, ledger # <<>>
    PROVE  /\ LatestRun(ledger) \in DOMAIN manifests
           /\ InLedger(LatestRun(ledger))
           /\ \A i \in DOMAIN ledger :
                 manifests[ledger[i]].date <= manifests[LatestRun(ledger)].date
<1>. DEFINE dates == {manifests[ledger[i]].date : i \in DOMAIN ledger}
            newest == {i \in DOMAIN ledger : manifests[ledger[i]].date = Max(dates)}
<1>1. /\ DOMAIN ledger = 1..Len(ledger) /\ Len(ledger) \in Nat /\ Len(ledger) > 0
      /\ \A i \in DOMAIN ledger : ledger[i] \in DOMAIN manifests
      /\ \A r \in DOMAIN manifests : manifests[r].date \in Nat
  <2>1. ledger \in Seq(Nat)
    BY DEF PipelineTypeOK
  <2>2. DOMAIN ledger = 1..Len(ledger) /\ Len(ledger) \in Nat
    BY <2>1, LenProperties
  <2>3. Len(ledger) # 0
    BY <2>1, EmptySeq
  <2>4. \A i \in DOMAIN ledger : ledger[i] \in DOMAIN manifests
    BY DEF TablesFit
  <2>. QED  BY <2>2, <2>3, <2>4, ManifestFields
<1>2. PICK n \in Nat : \A r \in DOMAIN manifests : manifests[r].date <= n
  BY DEF TablesFit
<1>3. dates \in SUBSET Nat /\ dates # {} /\ \A d \in dates : d <= n
  <2>1. 1 \in DOMAIN ledger
    BY <1>1
  <2>2. manifests[ledger[1]].date \in dates
    BY <2>1
  <2>. QED  BY <1>1, <1>2, <2>2
<1>. HIDE DEF dates
<1>4. Max(dates) \in dates /\ \A d \in dates : Max(dates) >= d
  BY <1>2, <1>3, BoundedMax
<1>5. newest \in SUBSET Nat /\ newest # {} /\ \A i \in newest : i <= Len(ledger)
  <2>1. PICK i \in DOMAIN ledger : manifests[ledger[i]].date = Max(dates)
    BY <1>4 DEF dates
  <2>2. i \in newest
    BY <2>1
  <2>. QED  BY <1>1, <2>2
<1>. HIDE DEF newest
<1>6. Max(newest) \in newest
  BY <1>1, <1>5, BoundedMax
<1>7. PICK j : j = Max(newest)
  OBVIOUS
<1>8. LatestRun(ledger) = ledger[j]
  BY <1>7 DEF LatestRun, dates, newest
<1>9. j \in DOMAIN ledger /\ manifests[ledger[j]].date = Max(dates)
  BY <1>6, <1>7 DEF newest
<1>10. \A i \in DOMAIN ledger : manifests[ledger[i]].date <= manifests[ledger[j]].date
  BY <1>3, <1>4, <1>9 DEF dates
<1>. QED  BY <1>1, <1>8, <1>9, <1>10 DEF InLedger

\* The cutoff of a run is a marked batch of it.
LEMMA CutoffIsMarked ==
    ASSUME PipelineTypeOK, TablesFit, NEW g \in Group, NEW r, Completed(g, r) # {}
    PROVE  /\ Marked(batches[g], markers[g], r, Cutoff(g, r))
           /\ Cutoff(g, r) \in Nat
<1>1. /\ markers[g] \in Seq(MarkerRow) /\ batches[g] \in Seq(Nat)
      /\ DOMAIN markers[g] = 1..Len(markers[g]) /\ Len(markers[g]) \in Nat
      /\ DOMAIN batches[g] = 1..Len(batches[g])
  BY LenProperties DEF PipelineTypeOK
<1>2. /\ Completed(g, r) \in SUBSET Nat
      /\ \A i \in Completed(g, r) : i <= Len(markers[g])
  BY <1>1 DEF Completed
<1>3. Max(Completed(g, r)) \in Completed(g, r)
  BY <1>1, <1>2, BoundedMax
<1>4. PICK m \in Completed(g, r) : m = Max(Completed(g, r))
  BY <1>3
<1>5. m \in DOMAIN markers[g] /\ markers[g][m].run = r /\ Cutoff(g, r) = markers[g][m].batch
  BY <1>4 DEF Completed, Cutoff
<1>6. /\ markers[g][m].batch \in DOMAIN batches[g]
      /\ batches[g][markers[g][m].batch] = markers[g][m].run
  BY <1>5 DEF TablesFit
<1>. QED  BY <1>1, <1>5, <1>6 DEF Marked

\* The keys of a run are the keys its stock holds.
LEMMA KeysAreKeys ==
    ASSUME PipelineTypeOK, TablesFit, NEW r \in DOMAIN manifests, KeysAvailable(r)
    PROVE  /\ InferenceKeys(r) \in SUBSET Key
           /\ InferenceKeys(r) = StockOf(manifests[r])
<1>1. manifests[r].keys \in SUBSET Key
  BY ManifestFields
<1>2. CASE SourcesAvailable("stock_position", r)
  <2>1. "stock_position" \in Group
    BY PipelineAssumption
  <2>2. batches["stock_position"][Cutoff("stock_position", r)] = r
    BY <1>2, <2>1, CutoffIsMarked DEF KeysAvailable, Marked
  <2>. QED  BY <1>1, <1>2, <2>2 DEF InferenceKeys, SourcesAvailable, StockOf
<1>. QED  BY <1>2 DEF InferenceKeys, SourcesAvailable, StockOf

\* A bundle that is read is of marked batches of the run, which covers its groups.
LEMMA BundleFits ==
    ASSUME PipelineTypeOK, TablesFit, NEW r \in DOMAIN manifests, NEW k
    PROVE  /\ MaterializeBundle(r, k) \in Bundle
           /\ \A g \in Group : MaterializeBundle(r, k)[g] # NoRead =>
                 /\ Marked(batches[g], markers[g], r, MaterializeBundle(r, k)[g])
                 /\ Covered(g, manifests[r])
<1>1. ASSUME NEW g \in Group
      PROVE  /\ ScanLatest(g, r, k) \in Nat
             /\ ScanLatest(g, r, k) # NoRead =>
                   /\ Marked(batches[g], markers[g], r, ScanLatest(g, r, k))
                   /\ Covered(g, manifests[r])
  <2>1. CASE ScanLatest(g, r, k) = NoRead
    BY <2>1 DEF NoRead
  <2>2. CASE ScanLatest(g, r, k) # NoRead
    <3>1. /\ SourcesAvailable(g, r) /\ Completed(g, r) # {}
          /\ ScanLatest(g, r, k) = Cutoff(g, r)
      BY <2>2 DEF ScanLatest
    <3>. QED  BY <3>1, CutoffIsMarked DEF SourcesAvailable
  <2>. QED  BY <2>1, <2>2
<1>2. \A g \in Group : MaterializeBundle(r, k)[g] = ScanLatest(g, r, k)
  BY DEF MaterializeBundle
<1>3. MaterializeBundle(r, k) \in Bundle
  BY <1>1 DEF MaterializeBundle, Bundle
<1>. QED  BY <1>1, <1>2, <1>3

\* A key whose stock was extracted and marked has a stock position.
LEMMA StockIsRead ==
    ASSUME PipelineTypeOK, TablesFit, NEW r \in DOMAIN manifests,
           StockMarked(manifests[r], markers["stock_position"], r),
           NEW k \in StockOf(manifests[r])
    PROVE  MaterializeBundle(r, k)["stock_position"] # NoRead
<1>1. "stock_position" \in Group
  BY PipelineAssumption
<1>2. Covered("stock_position", manifests[r]) /\ k \in manifests[r].keys
  BY DEF StockOf
<1>3. Completed("stock_position", r) # {}
  BY <1>2 DEF StockMarked, Completed
<1>4. Marked(batches["stock_position"], markers["stock_position"], r,
             Cutoff("stock_position", r))
  BY <1>1, <1>3, CutoffIsMarked
<1>5. /\ Cutoff("stock_position", r) \in DOMAIN batches["stock_position"]
      /\ batches["stock_position"][Cutoff("stock_position", r)] = r
  BY <1>4 DEF Marked
<1>6. batches["stock_position"] \in Seq(Nat)
  BY <1>1 DEF PipelineTypeOK
<1>7. DOMAIN batches["stock_position"] = 1..Len(batches["stock_position"])
  BY <1>6, LenProperties
<1>8. Cutoff("stock_position", r) # NoRead
  BY <1>5, <1>7 DEF NoRead
<1>9. ScanLatest("stock_position", r, k) = Cutoff("stock_position", r)
  BY <1>2, <1>3, <1>5 DEF ScanLatest, SourcesAvailable
<1>. QED  BY <1>1, <1>8, <1>9 DEF MaterializeBundle

-----------------------------------------------------------------------------
(* Steps of the tables                                                       *)

Grows(s, t) == DOMAIN s \subseteq DOMAIN t /\ \A i \in DOMAIN s : t[i] = s[i]

\* A sequence that an element is appended to grows.
LEMMA AppendGrows ==
    ASSUME NEW S, NEW s \in Seq(S), NEW x \in S
    PROVE  /\ Append(s, x) \in Seq(S) /\ Grows(s, Append(s, x))
           /\ Append(s, x) # <<>> /\ Len(Append(s, x)) = Len(s) + 1 /\ Len(s) \in Nat
           /\ Append(s, x)[Len(s) + 1] = x
           /\ DOMAIN s = 1..Len(s) /\ DOMAIN Append(s, x) = 1..(Len(s) + 1)
<1>1. /\ Append(s, x) \in Seq(S) /\ Append(s, x) # <<>>
      /\ Len(Append(s, x)) = Len(s) + 1 /\ Append(s, x)[Len(s) + 1] = x
      /\ \A i \in 1..Len(s) : Append(s, x)[i] = s[i]
  BY AppendProperties
<1>2. /\ DOMAIN s = 1..Len(s) /\ Len(s) \in Nat
      /\ DOMAIN Append(s, x) = 1..Len(Append(s, x))
  BY <1>1, LenProperties
<1>. QED  BY <1>1, <1>2 DEF Grows

\* What is marked stays marked.
LEMMA BundlesKept ==
    ASSUME NEW landed, NEW landed1, NEW tables, NEW tables1, NEW marks, NEW marks1,
           NEW r, NEW bundles, Grows(landed, landed1),
           \A g \in Group : Grows(tables[g], tables1[g]) /\ Grows(marks[g], marks1[g]),
           BundlesFit(landed, tables, marks, r, bundles)
    PROVE  BundlesFit(landed1, tables1, marks1, r, bundles)
<1>1. r \in DOMAIN landed1 /\ landed1[r] = landed[r]
  BY DEF BundlesFit, Grows
<1>2. ASSUME NEW g \in Group, NEW i, Marked(tables[g], marks[g], r, i)
      PROVE  Marked(tables1[g], marks1[g], r, i)
  BY <1>2 DEF Marked, Grows
<1>. QED  BY <1>1, <1>2 DEF BundlesFit

\* A table that grows in order leaves what is served, and what will be, in order.
LEMMA TableStep ==
    ASSUME PipelineInv, PipelineTypeOK', TablesFit', UNCHANGED <<population, generations>>,
           Grows(manifests, manifests'), Grows(ledger, ledger'),
           \A g \in Group : Grows(batches[g], batches'[g]) /\ Grows(markers[g], markers'[g])
    PROVE  PipelineInv'
<1>1. ASSUME NEW r \in DOMAIN manifests, InLedger(r)
      PROVE  \E i \in DOMAIN ledger' : manifests'[r].date <= manifests'[ledger'[i]].date
  <2>1. PICK i \in DOMAIN ledger : manifests[r].date <= manifests[ledger[i]].date
    BY <1>1 DEF InLedger
  <2>2. i \in DOMAIN ledger' /\ ledger'[i] = ledger[i] /\ ledger[i] \in DOMAIN manifests
    BY DEF Grows, PipelineInv, TablesFit
  <2>3. manifests'[r] = manifests[r] /\ manifests'[ledger[i]] = manifests[ledger[i]]
    BY <2>2 DEF Grows
  <2>. QED  BY <2>1, <2>2, <2>3
<1>2. ASSUME NEW r, NEW bundles, BundlesFit(manifests, batches, markers, r, bundles)
      PROVE  /\ BundlesFit(manifests', batches', markers', r, bundles)
             /\ r \in DOMAIN manifests /\ manifests'[r] = manifests[r]
  <2>1. BundlesFit(manifests', batches', markers', r, bundles)
    BY <1>2, BundlesKept
  <2>. QED  BY <1>2, <2>1 DEF BundlesFit, Grows
<1>3. ASSUME NEW n \in DOMAIN generations
      PROVE  /\ BundlesFit(manifests', batches', markers', generations[n].run,
                           generations[n].bundles)
             /\ \E i \in DOMAIN ledger' :
                   manifests'[generations[n].run].date <= manifests'[ledger'[i]].date
             /\ manifests'[generations[n].run] = manifests[generations[n].run]
             /\ DOMAIN generations[n].bundles = StockOf(manifests'[generations[n].run])
  <2>1. /\ BundlesFit(manifests, batches, markers, generations[n].run, generations[n].bundles)
        /\ InLedger(generations[n].run)
        /\ DOMAIN generations[n].bundles = StockOf(manifests[generations[n].run])
    BY DEF PipelineInv, GenerationsFit
  <2>. QED  BY <1>1, <1>2, <2>1
<1>4. GenerationsFit'
  BY <1>3 DEF GenerationsFit, InLedger
<1>5. PopulationFits'
  <2>. SUFFICES ASSUME population.phase # "idle"
       PROVE  /\ BundlesFit(manifests', batches', markers', population.run, population.bundles)
              /\ \E i \in DOMAIN ledger' :
                    manifests'[population.run].date <= manifests'[ledger'[i]].date
              /\ \A n \in DOMAIN generations :
                    manifests'[generations[n].run].date <= manifests'[population.run].date
              /\ population.todo \cup DOMAIN population.bundles =
                    StockOf(manifests'[population.run])
              /\ population.phase = "staging" => population.todo = {}
              /\ StockMarked(manifests'[population.run], markers'["stock_position"],
                             population.run)
    BY DEF PopulationFits, InLedger
  <2>1. /\ BundlesFit(manifests, batches, markers, population.run, population.bundles)
        /\ InLedger(population.run)
        /\ \A n \in DOMAIN generations :
              manifests[generations[n].run].date <= manifests[population.run].date
        /\ population.todo \cup DOMAIN population.bundles = StockOf(manifests[population.run])
        /\ population.phase = "staging" => population.todo = {}
        /\ StockMarked(manifests[population.run], markers["stock_position"], population.run)
    BY DEF PipelineInv, PopulationFits
  <2>2. manifests'[population.run] = manifests[population.run]
    BY <1>2, <2>1
  <2>3. Grows(markers["stock_position"], markers'["stock_position"])
    BY PipelineAssumption
  <2>4. StockMarked(manifests'[population.run], markers'["stock_position"], population.run)
    BY <2>1, <2>2, <2>3 DEF StockMarked, Grows
  <2>. QED  BY <1>1, <1>2, <1>3, <2>1, <2>2, <2>4
<1>. QED  BY <1>4, <1>5 DEF PipelineInv

\* What does not change has grown.
LEMMA SameGrows == \A s : Grows(s, s)
BY DEF Grows

\* An extract lands its manifest.
LEMMA ExtractInv ==
    ASSUME PipelineInv, NEW d \in Date, RunExtract(d)
    PROVE  PipelineInv'
<1>1. PICK n \in Night :
         manifests' = Append(manifests, [date |-> d, status |-> n.status, keys |-> n.keys])
  BY DEF RunExtract
<1>2. PICK m : m = [date |-> d, status |-> n.status, keys |-> n.keys]
  OBVIOUS
<1>3. m \in Manifest /\ m.date = d /\ d \in Nat
  BY <1>2, PipelineAssumption DEF Manifest
<1>4. /\ UNCHANGED <<job, batches, markers, ledger, population, generations>>
      /\ PipelineTypeOK /\ TablesFit /\ manifests \in Seq(Manifest)
      /\ manifests' = Append(manifests, m)
  BY <1>1, <1>2 DEF RunExtract, PipelineInv, PipelineTypeOK
<1>5. /\ manifests' \in Seq(Manifest) /\ Grows(manifests, manifests')
      /\ manifests'[Len(manifests) + 1] = m /\ Len(manifests) \in Nat
      /\ DOMAIN manifests = 1..Len(manifests)
      /\ DOMAIN manifests' = 1..(Len(manifests) + 1)
  BY <1>3, <1>4, AppendGrows
<1>6. PipelineTypeOK'
  BY <1>4, <1>5 DEF PipelineTypeOK
<1>7. \E b \in Nat : \A r \in DOMAIN manifests' : manifests'[r].date <= b
  <2>1. PICK b \in Nat : \A r \in DOMAIN manifests : manifests[r].date <= b
    BY <1>4 DEF TablesFit
  <2>2. b + d \in Nat /\ b <= b + d /\ d <= b + d
    BY <1>3
  <2>3. ASSUME NEW r \in DOMAIN manifests' PROVE manifests'[r].date <= b + d
    <3>1. CASE r \in DOMAIN manifests
      <4>1. manifests[r].date \in Nat /\ manifests'[r] = manifests[r]
        BY <1>4, <1>5, <3>1, ManifestFields DEF Grows
      <4>. QED  BY <1>3, <2>1, <3>1, <4>1
    <3>2. CASE r = Len(manifests) + 1
      BY <1>3, <1>5, <2>2, <3>2
    <3>. QED  BY <1>5, <3>1, <3>2
  <2>. QED  BY <2>2, <2>3
<1>8. TablesFit'
  <2>1. \A i \in DOMAIN ledger' : ledger'[i] \in DOMAIN manifests'
    BY <1>4, <1>5 DEF TablesFit, Grows
  <2>. QED  BY <1>4, <1>7, <2>1 DEF TablesFit
<1>. QED  BY <1>4, <1>5, <1>6, <1>8, SameGrows, TableStep

\* A job appends the rows of a run.
LEMMA RowsInv ==
    ASSUME PipelineInv, NEW g \in Group, NEW r \in Run, AppendRows(g, r)
    PROVE  PipelineInv'
<1>1. /\ UNCHANGED <<manifests, markers, ledger, population, generations>>
      /\ batches' = [batches EXCEPT ![g] = Append(batches[g], r)]
      /\ job' = [job EXCEPT ![g] = r]
      /\ PipelineTypeOK /\ TablesFit /\ r \in Nat
  BY PipelineAssumption DEF AppendRows, PipelineInv, Run
<1>2. batches \in [Group -> Seq(Nat)] /\ job \in [Group -> Nat] /\ batches[g] \in Seq(Nat)
  BY <1>1 DEF PipelineTypeOK
<1>3. PICK s : s = Append(batches[g], r)
  OBVIOUS
<1>4. /\ s \in Seq(Nat) /\ Grows(batches[g], s) /\ s # <<>> /\ s[Len(s)] = r
  <2>1. r \in Nat /\ batches[g] \in Seq(Nat)
    BY <1>1, <1>2
  <2>2. /\ Append(batches[g], r) \in Seq(Nat)
        /\ Grows(batches[g], Append(batches[g], r))
        /\ Append(batches[g], r) # <<>>
        /\ Len(Append(batches[g], r)) = Len(batches[g]) + 1
        /\ Append(batches[g], r)[Len(batches[g]) + 1] = r
    BY <2>1, AppendGrows
  <2>3. /\ s \in Seq(Nat) /\ Grows(batches[g], s) /\ s # <<>>
        /\ Len(s) = Len(batches[g]) + 1 /\ s[Len(batches[g]) + 1] = r
    BY <1>3, <2>2, Zenon
  <2>. QED  BY <2>3
<1>5. /\ batches' \in [Group -> Seq(Nat)] /\ job' \in [Group -> Nat]
      /\ batches'[g] = s /\ job'[g] = r
      /\ \A h \in Group \ {g} : batches'[h] = batches[h] /\ job'[h] = job[h]
  BY <1>1, <1>2, <1>3, <1>4
<1>6. \A h \in Group : Grows(batches[h], batches'[h])
  BY <1>4, <1>5, SameGrows
<1>7. PipelineTypeOK'
  BY <1>1, <1>5 DEF PipelineTypeOK
<1>8. TablesFit'
  <2>1. ASSUME NEW h \in Group, job'[h] # NoJob
        PROVE  batches'[h] # <<>> /\ batches'[h][Len(batches'[h])] = job'[h]
    BY <1>1, <1>4, <1>5, <2>1 DEF TablesFit
  <2>2. ASSUME NEW h \in Group, NEW m \in DOMAIN markers[h]
        PROVE  /\ markers[h][m].batch \in DOMAIN batches'[h]
               /\ batches'[h][markers[h][m].batch] = markers[h][m].run
    BY <1>1, <1>6 DEF TablesFit, Grows
  <2>3. /\ \A i \in DOMAIN ledger' : ledger'[i] \in DOMAIN manifests'
        /\ \E n \in Nat : \A q \in DOMAIN manifests' : manifests'[q].date <= n
    BY <1>1 DEF TablesFit
  <2>. QED  BY <1>1, <2>1, <2>2, <2>3 DEF TablesFit
<1>. QED  BY <1>1, <1>6, <1>7, <1>8, SameGrows, TableStep

\* A job marks the rows it has appended, or dies.
LEMMA MarkerInv ==
    ASSUME PipelineInv, NEW g \in Group, AppendMarker(g) \/ JobDies(g)
    PROVE  PipelineInv'
<1>1. /\ UNCHANGED <<manifests, batches, ledger, population, generations>>
      /\ job' = [job EXCEPT ![g] = NoJob] /\ job[g] # NoJob
      /\ PipelineTypeOK /\ TablesFit
  BY DEF AppendMarker, JobDies, PipelineInv
<1>2. /\ markers \in [Group -> Seq(MarkerRow)] /\ job \in [Group -> Nat]
      /\ markers[g] \in Seq(MarkerRow) /\ batches[g] \in Seq(Nat) /\ NoJob \in Nat
  BY <1>1 DEF PipelineTypeOK, NoJob
<1>3. /\ job' \in [Group -> Nat] /\ job'[g] = NoJob
      /\ \A h \in Group \ {g} : job'[h] = job[h]
  BY <1>1, <1>2
<1>4. /\ batches[g] # <<>> /\ batches[g][Len(batches[g])] = job[g]
      /\ Len(batches[g]) \in DOMAIN batches[g] /\ Len(batches[g]) \in Nat
  BY <1>1, <1>2, LenProperties, EmptySeq DEF TablesFit
<1>5. PICK x : x = [run |-> job[g], batch |-> Len(batches[g])]
  OBVIOUS
<1>6. x \in MarkerRow /\ x.run = job[g] /\ x.batch = Len(batches[g])
  BY <1>2, <1>4, <1>5 DEF MarkerRow
<1>7. PICK s \in Seq(MarkerRow) :
         /\ Grows(markers[g], s)
         /\ \A m \in DOMAIN s : m \in DOMAIN markers[g] \/ s[m] = x
         /\ markers' = [markers EXCEPT ![g] = s]
  <2>1. CASE AppendMarker(g)
    <3>1. markers' = [markers EXCEPT ![g] = Append(markers[g], x)]
      BY <1>5, <2>1 DEF AppendMarker
    <3>2. /\ Append(markers[g], x) \in Seq(MarkerRow)
          /\ Grows(markers[g], Append(markers[g], x))
          /\ \A m \in DOMAIN Append(markers[g], x) :
                m \in DOMAIN markers[g] \/ Append(markers[g], x)[m] = x
      BY <1>2, <1>6, AppendGrows
    <3>. QED  BY <3>1, <3>2
  <2>2. CASE JobDies(g)
    <3>1. markers' = [markers EXCEPT ![g] = markers[g]]
      BY <1>2, <2>2 DEF JobDies
    <3>. QED  BY <1>2, <3>1, SameGrows
  <2>. QED  BY <2>1, <2>2
<1>8. /\ markers' \in [Group -> Seq(MarkerRow)] /\ markers'[g] = s
      /\ \A h \in Group \ {g} : markers'[h] = markers[h]
  BY <1>2, <1>7
<1>9. \A h \in Group : Grows(markers[h], markers'[h])
  BY <1>7, <1>8, SameGrows
<1>10. PipelineTypeOK'
  BY <1>1, <1>3, <1>8 DEF PipelineTypeOK
<1>11. TablesFit'
  <2>1. ASSUME NEW h \in Group, job'[h] # NoJob
        PROVE  batches'[h] # <<>> /\ batches'[h][Len(batches'[h])] = job'[h]
    BY <1>1, <1>3, <2>1 DEF TablesFit
  <2>2. ASSUME NEW h \in Group, NEW m \in DOMAIN markers'[h]
        PROVE  /\ markers'[h][m].batch \in DOMAIN batches[h]
               /\ batches[h][markers'[h][m].batch] = markers'[h][m].run
    <3>1. CASE m \in DOMAIN markers[h]
      BY <1>1, <1>9, <3>1 DEF TablesFit, Grows
    <3>2. CASE m \notin DOMAIN markers[h]
      <4>1. h = g /\ markers'[h][m] = x
        BY <1>7, <1>8, <3>2
      <4>. QED  BY <1>4, <1>6, <4>1
    <3>. QED  BY <3>1, <3>2
  <2>3. /\ \A i \in DOMAIN ledger' : ledger'[i] \in DOMAIN manifests'
        /\ \E n \in Nat : \A q \in DOMAIN manifests' : manifests'[q].date <= n
    BY <1>1 DEF TablesFit
  <2>. QED  BY <1>1, <2>1, <2>2, <2>3 DEF TablesFit
<1>. QED  BY <1>1, <1>9, <1>10, <1>11, SameGrows, TableStep

\* The status of a run reaches the ledger.
LEMMA LedgerInv ==
    ASSUME PipelineInv, NEW r \in Run, AppendLedger(r)
    PROVE  PipelineInv'
<1>1. /\ UNCHANGED <<manifests, job, batches, markers, population, generations>>
      /\ ledger' = Append(ledger, r) /\ r \in DOMAIN manifests /\ ledger \in Seq(Nat)
      /\ PipelineTypeOK /\ TablesFit /\ r \in Nat
  BY PipelineAssumption DEF AppendLedger, PipelineInv, PipelineTypeOK, Run
<1>2. /\ ledger' \in Seq(Nat) /\ Grows(ledger, ledger') /\ ledger'[Len(ledger) + 1] = r
      /\ DOMAIN ledger = 1..Len(ledger) /\ DOMAIN ledger' = 1..(Len(ledger) + 1)
      /\ Len(ledger) \in Nat
  BY <1>1, AppendGrows
<1>3. PipelineTypeOK'
  BY <1>1, <1>2 DEF PipelineTypeOK
<1>4. \A i \in DOMAIN ledger' : ledger'[i] \in DOMAIN manifests
  <2>1. \A i \in DOMAIN ledger' : i \in DOMAIN ledger \/ ledger'[i] = r
    BY <1>2
  <2>. QED  BY <1>1, <1>2, <2>1 DEF TablesFit, Grows
<1>5. TablesFit'
  BY <1>1, <1>4 DEF TablesFit
<1>. QED  BY <1>1, <1>2, <1>3, <1>5, SameGrows, TableStep

-----------------------------------------------------------------------------
(* Steps of the population                                                   *)

\* A step of the population that leaves the tables and what is served.
LEMMA PopulationStep ==
    ASSUME PipelineInv,
           UNCHANGED <<manifests, job, batches, markers, ledger, generations>>,
           population' \in PopulationRow,
           population'.phase # "idle" =>
              /\ BundlesFit(manifests, batches, markers, population'.run, population'.bundles)
              /\ InLedger(population'.run)
              /\ \A n \in DOMAIN generations :
                    manifests[generations[n].run].date <= manifests[population'.run].date
              /\ population'.todo \cup DOMAIN population'.bundles =
                    StockOf(manifests[population'.run])
              /\ population'.phase = "staging" => population'.todo = {}
              /\ StockMarked(manifests[population'.run], markers["stock_position"],
                             population'.run)
    PROVE  PipelineInv'
<1>1. PipelineTypeOK'
  BY DEF PipelineInv, PipelineTypeOK
<1>2. TablesFit'
  BY DEF PipelineInv, TablesFit
<1>3. GenerationsFit'
  BY DEF PipelineInv, GenerationsFit, InLedger
<1>4. PopulationFits'
  BY DEF PopulationFits, InLedger
<1>. QED  BY <1>1, <1>2, <1>3, <1>4 DEF PipelineInv

\* The population pins the newest run of the ledger.
LEMMA StartInv ==
    ASSUME PipelineInv, StartPopulation
    PROVE  PipelineInv'
<1>1. /\ UNCHANGED <<manifests, job, batches, markers, ledger, generations>>
      /\ PipelineTypeOK /\ TablesFit /\ ledger # <<>>
  BY DEF StartPopulation, PipelineInv
<1>2. PICK r : r = LatestRun(ledger)
  OBVIOUS
<1>3. /\ r \in DOMAIN manifests /\ InLedger(r)
      /\ \A i \in DOMAIN ledger : manifests[ledger[i]].date <= manifests[r].date
  BY <1>1, <1>2, LatestRunFits
<1>4. CASE ~KeysAvailable(r)
  <2>1. population' = Idle
    BY <1>2, <1>4 DEF StartPopulation
  <2>. QED  BY <1>1, <2>1, IdleFits, PopulationStep
<1>5. CASE KeysAvailable(r)
  <2>1. population' = [Idle EXCEPT !.phase = "reading", !.run = r, !.todo = InferenceKeys(r)]
    BY <1>2, <1>5 DEF StartPopulation
  <2>2. population' = [phase |-> "reading", run |-> r, todo |-> InferenceKeys(r),
                       bundles |-> <<>>, base |-> 0]
    BY <2>1 DEF Idle
  <2>3. InferenceKeys(r) \in SUBSET Key /\ InferenceKeys(r) = StockOf(manifests[r])
    BY <1>1, <1>3, <1>5, KeysAreKeys
  <2>4. r \in Nat
    <3>1. manifests \in Seq(Manifest)
      BY <1>1 DEF PipelineTypeOK
    <3>2. DOMAIN manifests = 1..Len(manifests)
      BY <3>1, LenProperties
    <3>. QED  BY <1>3, <3>2
  <2>5. <<>> \in Bundles
    BY IdleFits DEF Idle, PopulationRow
  <2>6. population' \in PopulationRow
    BY <2>2, <2>3, <2>4, <2>5 DEF PopulationRow
  <2>7. BundlesFit(manifests, batches, markers, r, <<>>)
    BY <1>3 DEF BundlesFit
  <2>8. ASSUME NEW n \in DOMAIN generations
        PROVE  manifests[generations[n].run].date <= manifests[r].date
    <3>1. /\ generations[n].run \in DOMAIN manifests
          /\ InLedger(generations[n].run)
      BY DEF PipelineInv, GenerationsFit, BundlesFit
    <3>2. PICK i \in DOMAIN ledger :
             manifests[generations[n].run].date <= manifests[ledger[i]].date
      BY <3>1 DEF InLedger
    <3>3. ledger[i] \in DOMAIN manifests
      BY <1>1 DEF TablesFit
    <3>4. /\ manifests[generations[n].run].date \in Nat
          /\ manifests[ledger[i]].date \in Nat /\ manifests[r].date \in Nat
      BY <1>1, <1>3, <3>1, <3>3, ManifestFields
    <3>. QED  BY <1>3, <3>2, <3>4
  <2>9. /\ population'.run = r /\ population'.bundles = <<>> /\ DOMAIN <<>> = {}
        /\ population'.phase = "reading" /\ population'.todo = StockOf(manifests[r])
    BY <2>2, <2>3
  <2>10. StockMarked(manifests[r], markers["stock_position"], r)
    BY <1>5 DEF KeysAvailable, SourcesAvailable, Completed, StockMarked
  <2>11. population'.todo \cup DOMAIN population'.bundles = StockOf(manifests[r])
    BY <2>9
  <2>. QED  BY <1>1, <1>3, <2>6, <2>7, <2>8, <2>9, <2>10, <2>11, PopulationStep
<1>. QED  BY <1>4, <1>5

\* The bundle of one key is read as of the pinned run.
LEMMA ReadInv ==
    ASSUME PipelineInv, NEW k \in Key, ReadBundle(k)
    PROVE  PipelineInv'
<1>1. /\ UNCHANGED <<manifests, job, batches, markers, ledger, generations>>
      /\ population.phase = "reading" /\ k \in population.todo
      /\ population \in PopulationRow /\ PipelineTypeOK /\ TablesFit
  BY DEF ReadBundle, PipelineInv, PipelineTypeOK
<1>2. /\ BundlesFit(manifests, batches, markers, population.run, population.bundles)
      /\ InLedger(population.run)
      /\ \A n \in DOMAIN generations :
            manifests[generations[n].run].date <= manifests[population.run].date
      /\ population.todo \cup DOMAIN population.bundles = StockOf(manifests[population.run])
      /\ StockMarked(manifests[population.run], markers["stock_position"], population.run)
  BY <1>1 DEF PipelineInv, PopulationFits
<1>3. PICK b : b = MaterializeBundle(population.run, k)
  OBVIOUS
<1>4. /\ b \in Bundle
      /\ \A g \in Group : b[g] # NoRead =>
            /\ Marked(batches[g], markers[g], population.run, b[g])
            /\ Covered(g, manifests[population.run])
  BY <1>1, <1>2, <1>3, BundleFits DEF BundlesFit
<1>5. PICK more : more = [x \in DOMAIN population.bundles \cup {k} |->
                             IF x = k THEN b ELSE population.bundles[x]]
  OBVIOUS
<1>6. /\ population.run \in Nat /\ population.todo \in SUBSET Key
      /\ population.bundles \in Bundles /\ population.base \in Nat
  BY <1>1 DEF PopulationRow
<1>7. PICK D \in SUBSET Key : population.bundles \in [D -> Bundle]
  BY <1>6 DEF Bundles
<1>8. more \in [D \cup {k} -> Bundle]
  BY <1>4, <1>5, <1>7
<1>9. more \in Bundles
  BY <1>8 DEF Bundles
<1>10. BundlesFit(manifests, batches, markers, population.run, more)
  <2>1. DOMAIN more = DOMAIN population.bundles \cup {k}
    BY <1>5
  <2>2. ASSUME NEW x \in DOMAIN more, NEW g \in Group, more[x][g] # NoRead
        PROVE  /\ Marked(batches[g], markers[g], population.run, more[x][g])
               /\ Covered(g, manifests[population.run])
    <3>1. CASE x = k
      BY <1>4, <1>5, <2>2, <3>1
    <3>2. CASE x # k
      <4>1. x \in DOMAIN population.bundles /\ more[x] = population.bundles[x]
        BY <1>5, <2>1, <3>2
      <4>. QED  BY <1>2, <2>2, <4>1 DEF BundlesFit
    <3>. QED  BY <3>1, <3>2
  <2>. QED  BY <1>2, <2>2 DEF BundlesFit
<1>11. b["stock_position"] # NoRead
  BY <1>1, <1>2, <1>3, StockIsRead DEF BundlesFit
<1>12. population' = [population EXCEPT !.todo = population.todo \ {k}, !.bundles = more]
  BY <1>3, <1>5, <1>11 DEF ReadBundle
<1>13. population' = [phase |-> population.phase, run |-> population.run,
                      todo |-> population.todo \ {k}, bundles |-> more,
                      base |-> population.base]
  BY <1>1, <1>12 DEF PopulationRow
<1>14. population' \in PopulationRow
  BY <1>1, <1>6, <1>9, <1>13 DEF PopulationRow
<1>15. /\ population'.run = population.run /\ population'.bundles = more
       /\ population'.phase = "reading" /\ population'.todo = population.todo \ {k}
  BY <1>1, <1>13
<1>16. population'.todo \cup DOMAIN population'.bundles = StockOf(manifests[population.run])
  <2>1. DOMAIN more = DOMAIN population.bundles \cup {k}
    BY <1>5
  <2>. QED  BY <1>1, <1>2, <1>15, <2>1
<1>. QED  BY <1>1, <1>2, <1>10, <1>14, <1>15, <1>16, PopulationStep

\* The population has read its keys, and takes the base of its swap.
LEMMA BeginInv ==
    ASSUME PipelineInv, BeginPopulation
    PROVE  PipelineInv'
<1>1. /\ UNCHANGED <<manifests, job, batches, markers, ledger, generations>>
      /\ population.phase = "reading" /\ population.todo = {}
      /\ population \in PopulationRow
      /\ population' = [population EXCEPT !.phase = "staging", !.base = Len(generations)]
      /\ generations \in Seq(GenerationRow)
  BY DEF BeginPopulation, PipelineInv, PipelineTypeOK
<1>2. Len(generations) \in Nat
  BY <1>1, LenProperties
<1>3. /\ population' \in PopulationRow /\ population'.run = population.run
      /\ population'.bundles = population.bundles /\ population'.todo = population.todo
  BY <1>1, <1>2 DEF PopulationRow
<1>4. PopulationFits
  BY DEF PipelineInv
<1>. QED  BY <1>1, <1>3, <1>4, PopulationStep DEF PopulationFits

\* A population fails.
LEMMA FailInv ==
    ASSUME PipelineInv, PopulationFails
    PROVE  PipelineInv'
<1>1. /\ UNCHANGED <<manifests, job, batches, markers, ledger, generations>>
      /\ population' = Idle
  BY DEF PopulationFails
<1>. QED  BY <1>1, IdleFits, PopulationStep

\* The generation a commit adds is of the population's run, and the others stay.
LEMMA CommitGenerations ==
    ASSUME PipelineInv, CommitPopulation
    PROVE  /\ generations' \in Seq(GenerationRow)
           /\ DOMAIN generations = 1..Len(generations) /\ Len(generations) \in Nat
           /\ \A n \in DOMAIN generations' :
                 \/ n \in DOMAIN generations /\ generations'[n] = generations[n]
                 \/ /\ n = Len(generations) + 1
                    /\ generations'[n].run = population.run
                    /\ generations'[n].bundles = population.bundles
           /\ Grows(generations, generations')
<1>1. generations \in Seq(GenerationRow) /\ population \in PopulationRow
  BY DEF PipelineInv, PipelineTypeOK
<1>2. PICK x : x = [run |-> population.run, bundles |-> population.bundles]
  OBVIOUS
<1>3. /\ x \in GenerationRow /\ x.run = population.run
      /\ x.bundles = population.bundles
  BY <1>1, <1>2 DEF PopulationRow, GenerationRow
<1>4. generations' = Append(generations, x) \/ generations' = generations
  BY <1>2 DEF CommitPopulation
<1>5. DOMAIN generations = 1..Len(generations) /\ Len(generations) \in Nat
  BY <1>1, LenProperties
<1>6. CASE generations' = generations
  BY <1>1, <1>5, <1>6 DEF Grows
<1>7. CASE generations' = Append(generations, x)
  <2>1. /\ generations' \in Seq(GenerationRow) /\ Grows(generations, generations')
        /\ generations'[Len(generations) + 1] = x
        /\ DOMAIN generations' = 1..(Len(generations) + 1)
    BY <1>1, <1>3, <1>7, AppendGrows
  <2>2. ASSUME NEW n \in DOMAIN generations'
        PROVE  \/ n \in DOMAIN generations /\ generations'[n] = generations[n]
               \/ n = Len(generations) + 1 /\ generations'[n] = x
    <3>1. n \in DOMAIN generations \/ n = Len(generations) + 1
      BY <1>5, <2>1
    <3>. QED  BY <2>1, <3>1 DEF Grows
  <2>. QED  BY <1>3, <1>5, <2>1, <2>2
<1>. QED  BY <1>4, <1>6, <1>7

\* A commit serves what the population read.
LEMMA CommitInv ==
    ASSUME PipelineInv, CommitPopulation
    PROVE  PipelineInv'
<1>1. /\ UNCHANGED <<manifests, job, batches, markers, ledger>>
      /\ population' = Idle /\ population.phase = "staging"
  BY DEF CommitPopulation
<1>2. /\ BundlesFit(manifests, batches, markers, population.run, population.bundles)
      /\ InLedger(population.run)
      /\ DOMAIN population.bundles = StockOf(manifests[population.run])
  BY <1>1 DEF PipelineInv, PopulationFits
<1>3. /\ generations' \in Seq(GenerationRow)
      /\ \A n \in DOMAIN generations' :
            \/ n \in DOMAIN generations /\ generations'[n] = generations[n]
            \/ /\ generations'[n].run = population.run
               /\ generations'[n].bundles = population.bundles
  BY CommitGenerations
<1>4. PipelineTypeOK'
  BY <1>1, <1>3, IdleFits DEF PipelineInv, PipelineTypeOK
<1>5. TablesFit'
  BY <1>1 DEF PipelineInv, TablesFit
<1>6. ASSUME NEW n \in DOMAIN generations'
      PROVE  /\ BundlesFit(manifests, batches, markers, generations'[n].run,
                           generations'[n].bundles)
             /\ InLedger(generations'[n].run)
             /\ DOMAIN generations'[n].bundles = StockOf(manifests[generations'[n].run])
  <2>1. CASE n \in DOMAIN generations /\ generations'[n] = generations[n]
    BY <2>1 DEF PipelineInv, GenerationsFit
  <2>2. CASE /\ generations'[n].run = population.run
             /\ generations'[n].bundles = population.bundles
    BY <1>2, <2>2
  <2>. QED  BY <1>3, <2>1, <2>2
<1>7. GenerationsFit'
  BY <1>1, <1>6 DEF GenerationsFit, InLedger
<1>8. PopulationFits'
  BY <1>1, IdleFits DEF PopulationFits
<1>. QED  BY <1>4, <1>5, <1>7, <1>8 DEF PipelineInv

\* A step that only a reader takes, or no step, keeps the tables.
LEMMA ReaderInv ==
    ASSUME PipelineInv,
           UNCHANGED <<manifests, job, batches, markers, ledger, population, generations>>
    PROVE  PipelineInv'
<1>1. population \in PopulationRow /\ PopulationFits
  BY DEF PipelineInv, PipelineTypeOK
<1>. QED  BY <1>1, PopulationStep DEF PopulationFits

\* Every step keeps the invariant.
LEMMA PipelineStep == PipelineInv /\ [PipelineNext]_pipelineVars => PipelineInv'
<1>. SUFFICES ASSUME PipelineInv, [PipelineNext]_pipelineVars PROVE PipelineInv'
  OBVIOUS
<1>1. ASSUME NEW d \in Date, RunExtract(d) PROVE PipelineInv'
  BY <1>1, ExtractInv
<1>2. ASSUME NEW g \in Group, NEW r \in Run, AppendRows(g, r) PROVE PipelineInv'
  BY <1>2, RowsInv
<1>3. ASSUME NEW g \in Group, AppendMarker(g) \/ JobDies(g) PROVE PipelineInv'
  BY <1>3, MarkerInv
<1>4. ASSUME NEW r \in Run, AppendLedger(r) PROVE PipelineInv'
  BY <1>4, LedgerInv
<1>5. ASSUME StartPopulation PROVE PipelineInv'
  BY <1>5, StartInv
<1>6. ASSUME NEW k \in Key, ReadBundle(k) PROVE PipelineInv'
  BY <1>6, ReadInv
<1>7. ASSUME BeginPopulation PROVE PipelineInv'
  BY <1>7, BeginInv
<1>8. ASSUME CommitPopulation PROVE PipelineInv'
  BY <1>8, CommitInv
<1>9. ASSUME PopulationFails PROVE PipelineInv'
  BY <1>9, FailInv
<1>10. ASSUME NEW rd \in Reader, Snapshot(rd) \/ Release(rd) PROVE PipelineInv'
  BY <1>10, ReaderInv DEF Snapshot, Release
<1>11. ASSUME NEW rd \in Reader, NEW k \in Key, FetchBundle(rd, k) PROVE PipelineInv'
  BY <1>11, ReaderInv DEF FetchBundle
<1>12. ASSUME UNCHANGED pipelineVars PROVE PipelineInv'
  BY <1>12, ReaderInv DEF pipelineVars
<1>. QED
  BY <1>1, <1>2, <1>3, <1>4, <1>5, <1>6, <1>7, <1>8, <1>9, <1>10, <1>11, <1>12
     DEF PipelineNext

-----------------------------------------------------------------------------
(* The theorems                                                              *)

\* The types, and the tables, the population and what is served in order.
THEOREM PipelineInvariance == PipelineSpec => []PipelineInv
<1>1. PipelineInit => PipelineInv
  BY InitPipeline
<1>2. PipelineInv /\ [PipelineNext]_pipelineVars => PipelineInv'
  BY PipelineStep
<1>. QED  BY <1>1, <1>2, PTL DEF PipelineSpec

\* What is served is the whole stock of one run, and of batches that were marked
\* complete for it, however many keys are read while jobs append, repeat and die.
THEOREM OneRunServed == PipelineSpec => []ServedFromOneRun
<1>1. PipelineInv => ServedFromOneRun
  <2>. SUFFICES ASSUME PipelineInv, NEW n \in DOMAIN generations
                PROVE  /\ DOMAIN generations[n].bundles = Stocked(generations[n].run)
                       /\ \A k \in DOMAIN generations[n].bundles : \A g \in Group :
                             LET i == generations[n].bundles[k][g]
                             IN  i # NoRead =>
                                    /\ batches[g][i] = generations[n].run
                                    /\ \E m \in Completed(g, generations[n].run) :
                                           markers[g][m].batch = i
    BY DEF ServedFromOneRun
  <2>1. DOMAIN generations[n].bundles = StockOf(manifests[generations[n].run])
    BY DEF PipelineInv, GenerationsFit
  <2>2. DOMAIN generations[n].bundles = Stocked(generations[n].run)
    BY <2>1 DEF Stocked, StockOf, SourcesAvailable
  <2>3. ASSUME NEW k \in DOMAIN generations[n].bundles, NEW g \in Group,
               generations[n].bundles[k][g] # NoRead
        PROVE  /\ batches[g][generations[n].bundles[k][g]] = generations[n].run
               /\ \E m \in Completed(g, generations[n].run) :
                     markers[g][m].batch = generations[n].bundles[k][g]
    <3>1. Marked(batches[g], markers[g], generations[n].run, generations[n].bundles[k][g])
      BY <2>3 DEF PipelineInv, GenerationsFit, BundlesFit
    <3>. QED  BY <3>1 DEF Marked, Completed
  <2>. QED  BY <2>2, <2>3
<1>. QED  BY <1>1, PipelineInvariance, PTL

\* A demand history that is served is of a run that extracted both of its domains.
THEOREM DemandObserved == PipelineSpec => []DemandIsObserved
<1>1. PipelineInv => DemandIsObserved
  <2>. SUFFICES ASSUME PipelineInv, "demand_history" \in Group,
                       NEW n \in DOMAIN generations,
                       NEW k \in DOMAIN generations[n].bundles,
                       generations[n].bundles[k]["demand_history"] # NoRead
                PROVE  Sources("demand_history") \subseteq
                          Succeeded(manifests[generations[n].run])
    BY DEF DemandIsObserved
  <2>1. Covered("demand_history", manifests[generations[n].run])
    BY DEF PipelineInv, GenerationsFit, BundlesFit
  <2>2. "demand_history" \notin AnySource
    BY DEF AnySource
  <2>. QED  BY <2>1, <2>2 DEF Covered
<1>. QED  BY <1>1, PipelineInvariance, PTL

\* What is served never goes back to an older extract date.
THEOREM ServingGoesForward == PipelineSpec => ServingNeverGoesBack
<1>. DEFINE Forward == \A n \in DOMAIN generations' :
                          n \notin DOMAIN generations /\ n > 1 =>
                             manifests[generations'[n].run].date >=
                                manifests[generations'[n - 1].run].date
<1>1. PipelineInv /\ [PipelineNext]_pipelineVars => [Forward]_pipelineVars
  <2>. SUFFICES ASSUME PipelineInv, PipelineNext PROVE Forward
    OBVIOUS
  <2>1. CASE CommitPopulation
    <3>1. /\ DOMAIN generations = 1..Len(generations) /\ Len(generations) \in Nat
          /\ \A n \in DOMAIN generations' : n \notin DOMAIN generations =>
                n = Len(generations) + 1 /\ generations'[n].run = population.run
          /\ Grows(generations, generations')
      BY <2>1, CommitGenerations
    <3>2. /\ population.run \in DOMAIN manifests
          /\ \A n \in DOMAIN generations :
                /\ generations[n].run \in DOMAIN manifests
                /\ manifests[generations[n].run].date <= manifests[population.run].date
      BY <2>1 DEF CommitPopulation, PipelineInv, PopulationFits, GenerationsFit, BundlesFit
    <3>. SUFFICES ASSUME NEW n \in DOMAIN generations', n \notin DOMAIN generations, n > 1
                  PROVE  manifests[generations'[n].run].date >=
                            manifests[generations'[n - 1].run].date
      OBVIOUS
    <3>3. n = Len(generations) + 1 /\ generations'[n].run = population.run
      BY <3>1
    <3>4. n - 1 \in DOMAIN generations
      BY <3>1, <3>3
    <3>5. generations'[n - 1] = generations[n - 1]
      BY <3>1, <3>4 DEF Grows
    <3>6. /\ manifests[population.run].date \in Nat
          /\ manifests[generations[n - 1].run].date \in Nat
      BY <3>2, <3>4, ManifestFields DEF PipelineInv
    <3>. QED  BY <3>2, <3>3, <3>4, <3>5, <3>6
  <2>2. CASE ~CommitPopulation
    <3>1. generations' = generations
      BY <2>2 DEF PipelineNext, RunExtract, AppendRows, AppendMarker, JobDies, AppendLedger,
                  StartPopulation, ReadBundle, BeginPopulation, PopulationFails, Snapshot,
                  FetchBundle, Release
    <3>. QED  BY <3>1
  <2>. QED  BY <2>1, <2>2
<1>. QED  BY <1>1, PipelineInvariance, PTL DEF PipelineSpec, ServingNeverGoesBack

-----------------------------------------------------------------------------
(* The stores that boot                                                      *)

\* What a store has read is of the generation it has pinned, and so is the rest.
StoreFits(r, gens) ==
    /\ r.gen \in DOMAIN gens
    /\ r.todo \cup DOMAIN r.bundles = DOMAIN gens[r.gen].bundles
    /\ \A k \in DOMAIN r.bundles : r.bundles[k] = gens[r.gen].bundles[k]

StoresFit ==
    /\ reader \in [Reader -> ReaderRow]
    /\ \A rd \in Reader : reader[rd] = NotPinned \/ StoreFits(reader[rd], generations)

\* A store that holds nothing is in order.
LEMMA NotPinnedFits == NotPinned \in ReaderRow
<1>1. <<>> \in Bundles
  BY IdleFits DEF Idle, PopulationRow
<1>. QED  BY <1>1 DEF NotPinned, ReaderRow

\* Generations are only added to.
LEMMA GenerationsGrow ==
    ASSUME PipelineInv, [PipelineNext]_pipelineVars
    PROVE  Grows(generations, generations')
<1>1. CASE CommitPopulation
  BY <1>1, CommitGenerations
<1>2. CASE ~CommitPopulation
  <2>1. generations' = generations
    BY <1>2 DEF PipelineNext, RunExtract, AppendRows, AppendMarker, JobDies, AppendLedger,
                StartPopulation, ReadBundle, BeginPopulation, PopulationFails, Snapshot,
                FetchBundle, Release, pipelineVars
  <2>. QED  BY <2>1, SameGrows
<1>. QED  BY <1>1, <1>2

\* A store pins a generation with its keys.
LEMMA SnapshotFits ==
    ASSUME PipelineInv, StoresFit, NEW rd \in Reader, Snapshot(rd)
    PROVE  StoresFit'
<1>1. /\ generations' = generations /\ Len(generations) > 0
      /\ generations \in Seq(GenerationRow)
  BY DEF Snapshot, Current, PipelineInv, PipelineTypeOK
<1>2. PICK n : n = Len(generations)
  OBVIOUS
<1>3. /\ n \in Nat /\ DOMAIN generations = 1..n
      /\ generations \in [1..n -> GenerationRow]
  BY <1>1, <1>2, LenProperties
<1>4. n \in DOMAIN generations /\ generations[n] \in GenerationRow
  BY <1>1, <1>2, <1>3
<1>5. PICK r : r = [gen |-> n, todo |-> DOMAIN generations[n].bundles, bundles |-> <<>>]
  OBVIOUS
<1>6. reader' = [reader EXCEPT ![rd] = r]
  BY <1>2, <1>5 DEF Snapshot, Current, SnapshotKeys
<1>7. generations[n].bundles \in Bundles
  BY <1>4 DEF GenerationRow
<1>8. DOMAIN generations[n].bundles \in SUBSET Key
  BY <1>7 DEF Bundles
<1>9. <<>> \in Bundles
  BY NotPinnedFits DEF NotPinned, ReaderRow
<1>10. r \in ReaderRow
  BY <1>3, <1>5, <1>8, <1>9 DEF ReaderRow
<1>11. r.gen = n /\ r.todo = DOMAIN generations[n].bundles /\ DOMAIN r.bundles = {}
  BY <1>5
<1>12. StoreFits(r, generations)
  BY <1>4, <1>11 DEF StoreFits
<1>13. reader \in [Reader -> ReaderRow]
  BY DEF StoresFit
<1>14. /\ reader' \in [Reader -> ReaderRow] /\ reader'[rd] = r
       /\ \A o \in Reader \ {rd} : reader'[o] = reader[o]
  BY <1>6, <1>10, <1>13
<1>. QED  BY <1>1, <1>12, <1>14 DEF StoresFit

\* A store reads one key as its generation has it.
LEMMA FetchFits ==
    ASSUME PipelineInv, StoresFit, NEW rd \in Reader, NEW k \in Key, FetchBundle(rd, k)
    PROVE  StoresFit'
<1>1. /\ generations' = generations /\ generations \in Seq(GenerationRow)
      /\ reader \in [Reader -> ReaderRow] /\ k \in reader[rd].todo
  BY DEF FetchBundle, StoresFit, PipelineInv, PipelineTypeOK
<1>2. PICK r : r = reader[rd]
  OBVIOUS
<1>3. r \in ReaderRow /\ k \in r.todo
  BY <1>1, <1>2
<1>4. StoreFits(r, generations)
  <2>1. r # NotPinned
    BY <1>3 DEF NotPinned
  <2>. QED  BY <1>2, <2>1 DEF StoresFit
<1>5. PICK b : b = generations[r.gen].bundles[k]
  OBVIOUS
<1>6. PICK more : more = [x \in DOMAIN r.bundles \cup {k} |->
                             IF x = k THEN b ELSE r.bundles[x]]
  OBVIOUS
<1>7. PICK q : q = [r EXCEPT !.todo = r.todo \ {k}, !.bundles = more]
  OBVIOUS
<1>8. reader' = [reader EXCEPT ![rd] = q]
  BY <1>1, <1>2, <1>5, <1>6, <1>7 DEF FetchBundle, GetBundle, ServedBy
<1>9. q = [gen |-> r.gen, todo |-> r.todo \ {k}, bundles |-> more]
  BY <1>3, <1>7 DEF ReaderRow
<1>10. r.gen \in Nat /\ r.todo \in SUBSET Key /\ r.bundles \in Bundles
  BY <1>3 DEF ReaderRow
<1>11. more \in Bundles
  <2>1. generations \in [1..Len(generations) -> GenerationRow]
    BY <1>1, LenProperties
  <2>2. generations[r.gen] \in GenerationRow
    BY <1>4, <2>1 DEF StoreFits
  <2>3. generations[r.gen].bundles \in Bundles /\ k \in DOMAIN generations[r.gen].bundles
    BY <1>3, <1>4, <2>2 DEF GenerationRow, StoreFits
  <2>4. b \in Bundle
    BY <1>5, <2>3 DEF Bundles
  <2>5. PICK D \in SUBSET Key : r.bundles \in [D -> Bundle]
    BY <1>10 DEF Bundles
  <2>6. more \in [D \cup {k} -> Bundle]
    BY <1>6, <2>4, <2>5
  <2>. QED  BY <2>6 DEF Bundles
<1>12. q \in ReaderRow
  BY <1>9, <1>10, <1>11 DEF ReaderRow
<1>13. /\ q.gen = r.gen /\ q.todo = r.todo \ {k} /\ q.bundles = more
       /\ DOMAIN more = DOMAIN r.bundles \cup {k}
  BY <1>6, <1>9
<1>14. StoreFits(q, generations)
  <2>1. q.todo \cup DOMAIN q.bundles = DOMAIN generations[q.gen].bundles
    BY <1>3, <1>4, <1>13 DEF StoreFits
  <2>2. \A x \in DOMAIN more : more[x] = generations[r.gen].bundles[x]
    BY <1>4, <1>5, <1>6 DEF StoreFits
  <2>. QED  BY <1>4, <1>13, <2>1, <2>2 DEF StoreFits
<1>15. /\ reader' \in [Reader -> ReaderRow] /\ reader'[rd] = q
       /\ \A o \in Reader \ {rd} : reader'[o] = reader[o]
  BY <1>1, <1>8, <1>12
<1>. QED  BY <1>1, <1>14, <1>15 DEF StoresFit

\* A boot fails, or a store is dropped.
LEMMA ReleaseFits ==
    ASSUME StoresFit, NEW rd \in Reader, Release(rd)
    PROVE  StoresFit'
<1>1. /\ reader \in [Reader -> ReaderRow] /\ generations' = generations
      /\ reader' = [reader EXCEPT ![rd] = NotPinned]
  BY DEF StoresFit, Release
<1>2. /\ reader' \in [Reader -> ReaderRow] /\ reader'[rd] = NotPinned
      /\ \A o \in Reader \ {rd} : reader'[o] = reader[o]
  BY <1>1, NotPinnedFits
<1>. QED  BY <1>1, <1>2 DEF StoresFit

\* Every step keeps the stores in order.
LEMMA StoresStep == PipelineInv /\ StoresFit /\ [PipelineNext]_pipelineVars => StoresFit'
<1>. SUFFICES ASSUME PipelineInv, StoresFit, [PipelineNext]_pipelineVars PROVE StoresFit'
  OBVIOUS
<1>1. ASSUME NEW rd \in Reader, Snapshot(rd) PROVE StoresFit'
  BY <1>1, SnapshotFits
<1>2. ASSUME NEW rd \in Reader, Release(rd) PROVE StoresFit'
  BY <1>2, ReleaseFits
<1>3. ASSUME NEW rd \in Reader, NEW k \in Key, FetchBundle(rd, k) PROVE StoresFit'
  BY <1>3, FetchFits
<1>4. CASE UNCHANGED reader
  <2>1. Grows(generations, generations')
    BY GenerationsGrow
  <2>. QED  BY <1>4, <2>1 DEF StoresFit, StoreFits, Grows
<1>5. \/ \E rd \in Reader : Snapshot(rd) \/ Release(rd)
      \/ \E rd \in Reader, k \in Key : FetchBundle(rd, k)
      \/ UNCHANGED reader
  BY DEF PipelineNext, RunExtract, AppendRows, AppendMarker, JobDies, AppendLedger,
         StartPopulation, ReadBundle, BeginPopulation, CommitPopulation, PopulationFails,
         pipelineVars
<1>. QED  BY <1>1, <1>2, <1>3, <1>4, <1>5

\* A store that has read its keys holds the whole of one population, for any number
\* of stores, and of populations that are committed while they read.
THEOREM BootedStores == PipelineSpec => []StoreIsOnePopulation
<1>1. PipelineInit => StoresFit
  BY NotPinnedFits DEF PipelineInit, StoresFit
<1>2. PipelineInv /\ StoresFit /\ [PipelineNext]_pipelineVars => StoresFit'
  BY StoresStep
<1>3. PipelineInv /\ StoresFit => StoreIsOnePopulation
  <2>. SUFFICES ASSUME PipelineInv, StoresFit, NEW rd \in Reader,
                       reader[rd] # NotPinned, reader[rd].todo = {}
                PROVE  \E n \in DOMAIN generations :
                          reader[rd].bundles = generations[n].bundles
    BY DEF StoreIsOnePopulation
  <2>1. PICK r : r = reader[rd]
    OBVIOUS
  <2>2. /\ r.gen \in DOMAIN generations /\ r \in ReaderRow
        /\ DOMAIN r.bundles = DOMAIN generations[r.gen].bundles
        /\ \A k \in DOMAIN r.bundles : r.bundles[k] = generations[r.gen].bundles[k]
    BY <2>1 DEF StoresFit, StoreFits
  <2>3. generations \in Seq(GenerationRow)
    BY DEF PipelineInv, PipelineTypeOK
  <2>4. generations \in [1..Len(generations) -> GenerationRow]
    BY <2>3, LenProperties
  <2>5. generations[r.gen] \in GenerationRow
    BY <2>2, <2>4
  <2>6. r.bundles \in Bundles /\ generations[r.gen].bundles \in Bundles
    BY <2>2, <2>5 DEF ReaderRow, GenerationRow
  <2>7. r.bundles = generations[r.gen].bundles
    BY <2>2, <2>6 DEF Bundles
  <2>. QED  BY <2>1, <2>2, <2>7
<1>. QED  BY <1>1, <1>2, <1>3, PipelineInvariance, PTL DEF PipelineSpec
=============================================================================
