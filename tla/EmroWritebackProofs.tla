------------------------- MODULE EmroWritebackProofs -------------------------
(***************************************************************************)
(* Proofs about EmroWriteback, for any number of consumers, clients, rows  *)
(* and messages: the chain of versions is whole, no order is created       *)
(* twice, the ledger tells what the levels went through, and no message is *)
(* let go of with a row unaccounted for.                                   *)
(***************************************************************************)
EXTENDS EmroWriteback, FiniteSetTheorems, SequenceTheorems, TLAPS

LevelValue == Row \cup {None, Edited}
Outcome    == {"rejected", "error", "accepted", "duplicate"}

CallRecord ==
    [phase : {"idle", "start", "fresh", "read", "stored", "versioned", "done"},
     key : (Row \cup {None}) \X Nat, value : LevelValue, old : LevelValue,
     version : Nat, conflicts : Nat, collisions : Nat,
     result : Outcome \cup {"infrastructure", None}]

LedgerEntry ==
    [key : Row \X Nat, domain : {"STOCK_LEVEL", "REQUISITION", "TRANSFER"},
     version : Nat, parent : Int, old : LevelValue, new : Row \cup {Edited},
     outcome : {"WRITTEN", "SHADOWED"}]

DeliveryRecord ==
    [phase : {"idle", "rows", "exhausted"}, msg : Message \cup {<<>>}, attempt : Nat,
     response : Seq(Outcome)]

EmroTypeOK ==
    /\ level \in LevelValue
    /\ ledger \subseteq LedgerEntry
    /\ call \in [Process -> CallRecord]
    /\ delivery \in [Consumer -> DeliveryRecord]

Versions == {e.version : e \in ledger}

\* Every version up to the number of entries is there, and a last written entry.
LedgerFilled ==
    /\ IsFiniteSet(ledger)
    /\ Versions = 1..Cardinality(ledger)
    /\ Written # {} => \E e \in Written : \A f \in Written : f.version <= e.version

\* The levels are those the last write left.
Follows(old) == Written # {} => old \in {Last(Written).new, Edited}

\* What a call holds: a row, a version that is at most the next one, for a live
\* row its lock and the levels the last write left, and once it has succeeded an
\* entry in the ledger.
CallFits(p, r) ==
    /\ r.phase # "idle" => r.key \in Row \X Nat /\ r.value # None
    /\ r.phase = "versioned" => r.version \in 1..(Cardinality(ledger) + 1)
    /\ r.phase \in {"read", "stored", "versioned"} /\ r.key[1] \in LevelRow =>
          \/ r.phase = "read" /\ r.old = None
          \/ lock = p /\ Follows(r.old)
    /\ r.phase = "done" =>
          /\ r.result \in Outcome \cup {"infrastructure"}
          /\ r.result \in {"accepted", "duplicate"} => Recorded(r.key)

\* A row that was answered is in the ledger, or was refused or failed.
Accounted(msg, response) ==
    \A n \in DOMAIN response : response[n] \in {"rejected", "error"} \/ Recorded(Key(msg[n], 0))

\* The answers of a batch are of its first rows, and its call is of the next one.
DeliveryFits(d, r) ==
    /\ d.phase = "rows" => /\ d.msg \in Message
                           /\ Len(d.response) <= Len(d.msg)
                           /\ Accounted(d.msg, d.response)
    /\ d.phase = "exhausted" => d.response = <<>>
    /\ r.phase # "idle" => /\ d.phase = "rows"
                           /\ Len(d.response) < Len(d.msg)
                           /\ r.key = Key(d.msg[Len(d.response) + 1], 0)

\* The inductive invariant.
EmroInv ==
    /\ EmroTypeOK
    /\ LedgerFilled
    /\ ChainIsWhole
    /\ OneOrderPerKey
    /\ LevelsFollowLedger
    /\ AckedIsAccounted
    /\ \A p \in Process : CallFits(p, call[p])
    /\ \A c \in Consumer : DeliveryFits(delivery[c], call[c])

\* Nothing is written, delivered or under way.
LEMMA InitEmro == EmroInit => EmroInv
<1>. SUFFICES ASSUME EmroInit PROVE EmroInv
  OBVIOUS
<1>1. /\ ledger = {} /\ orders = {} /\ acked = {} /\ Written = {}
      /\ \A p \in Process : call[p] = Idle
      /\ \A c \in Consumer : delivery[c] = NoDelivery
  BY DEF EmroInit, Written, Process
<1>2. Idle \in CallRecord /\ NoDelivery \in DeliveryRecord
  <2>1. <<>> \in Seq(Outcome)
    OBVIOUS
  <2>. QED  BY <2>1 DEF Idle, CallRecord, LevelValue, NoDelivery, DeliveryRecord
<1>3. EmroTypeOK
  BY <1>1, <1>2 DEF EmroInit, EmroTypeOK, LevelValue
<1>4. LedgerFilled
  BY <1>1, FS_EmptySet DEF LedgerFilled, Versions
<1>5. ChainIsWhole /\ OneOrderPerKey /\ LevelsFollowLedger /\ AckedIsAccounted
  BY <1>1 DEF ChainIsWhole, OneOrderPerKey, LevelsFollowLedger, AckedIsAccounted
<1>6. \A p \in Process : CallFits(p, call[p])
  BY <1>1 DEF CallFits, Idle
<1>7. \A c \in Consumer : DeliveryFits(delivery[c], call[c])
  BY <1>1 DEF DeliveryFits, NoDelivery, Idle, Process
<1>. QED  BY <1>3, <1>4, <1>5, <1>6, <1>7 DEF EmroInv

-----------------------------------------------------------------------------
(* Steps that commit nothing                                                 *)

\* A lock that is another's stays another's.
LockKept(p) == lock' = lock \/ (lock \in {None, p} /\ lock' \in {None, p})

\* A step of one call that commits nothing only has to keep that call in order,
\* and its delivery with it.
LEMMA LocalStep ==
    ASSUME EmroInv, NEW p \in Process,
           UNCHANGED <<level, ledger, orders, delivery, topics>>, LockKept(p),
           call' \in [Process -> CallRecord],
           \A q \in Process \ {p} : call'[q] = call[q],
           CallFits(p, call[p])',
           call'[p].phase = "idle" \/ (call[p].phase # "idle" /\ call'[p].key = call[p].key)
              \/ p \notin Consumer
    PROVE  EmroInv'
<1>0. UNCHANGED <<ledger, acked, results, dlq, orders, level, delivery>> /\ Written' = Written
  BY DEF topics, Written
<1>1. EmroTypeOK'
  BY <1>0 DEF EmroInv, EmroTypeOK
<1>2. LedgerFilled' /\ ChainIsWhole' /\ OneOrderPerKey' /\ LevelsFollowLedger'
  BY <1>0 DEF EmroInv, LedgerFilled, Versions, ChainIsWhole, OneOrderPerKey, LevelsFollowLedger
<1>3. AckedIsAccounted'
  BY <1>0 DEF EmroInv, AckedIsAccounted, Recorded
<1>4. ASSUME NEW q \in Process PROVE CallFits(q, call[q])'
  <2>1. CASE q = p
    BY <2>1
  <2>2. CASE q # p
    <3>1. call'[q] = call[q] /\ CallFits(q, call[q]) /\ (lock = q => lock' = q)
      BY <2>2, EmroAssumption DEF EmroInv, LockKept
    <3>. QED  BY <1>0, <3>1 DEF CallFits, Follows, Recorded
  <2>. QED  BY <2>1, <2>2
<1>5. ASSUME NEW c \in Consumer PROVE DeliveryFits(delivery[c], call[c])'
  <2>1. DeliveryFits(delivery[c], call[c]) /\ c \in Process
    BY DEF EmroInv, Process
  <2>2. \/ call'[c] = call[c] \/ call'[c].phase = "idle"
        \/ call[c].phase # "idle" /\ call'[c].key = call[c].key
    BY <2>1
  <2>. QED  BY <1>0, <2>1, <2>2 DEF DeliveryFits, Accounted, Recorded
<1>. QED  BY <1>1, <1>2, <1>3, <1>4, <1>5 DEF EmroInv

\* The fields of a call that is given another phase.
LEMMA PhaseFields ==
    ASSUME call \in [Process -> CallRecord], NEW p \in Process,
           NEW s \in {"idle", "start", "fresh", "read", "stored", "versioned", "done"},
           call' = [call EXCEPT ![p].phase = s]
    PROVE  /\ call' \in [Process -> CallRecord]
           /\ \A q \in Process \ {p} : call'[q] = call[q]
           /\ call'[p].phase = s /\ call'[p].key = call[p].key
           /\ call'[p].value = call[p].value /\ call'[p].old = call[p].old
           /\ call'[p].version = call[p].version
BY DEF CallRecord

\* The fields of a call that returns.
LEMMA ResultFields ==
    ASSUME call \in [Process -> CallRecord], NEW p \in Process,
           NEW x \in Outcome \cup {"infrastructure"}, call' = Result(p, x)
    PROVE  /\ call' \in [Process -> CallRecord]
           /\ \A q \in Process \ {p} : call'[q] = call[q]
           /\ call'[p].phase = "done" /\ call'[p].key = call[p].key
           /\ call'[p].value = call[p].value /\ call'[p].result = x
<1>1. PICK f : f = [call EXCEPT ![p].phase = "done"]
  OBVIOUS
<1>2. /\ f \in [Process -> CallRecord]
      /\ \A q \in Process \ {p} : f[q] = call[q]
      /\ f[p].phase = "done" /\ f[p].key = call[p].key /\ f[p].value = call[p].value
  BY <1>1 DEF CallRecord
<1>3. call' = [f EXCEPT ![p].result = x]
  BY <1>1 DEF Result
<1>. QED  BY <1>2, <1>3 DEF CallRecord

\* The fields of a call that is given other old levels.
LEMMA SetOld ==
    ASSUME NEW f \in [Process -> CallRecord], NEW p \in Process, NEW v \in LevelValue,
           NEW g, g = [f EXCEPT ![p].old = v]
    PROVE  /\ g \in [Process -> CallRecord]
           /\ \A q \in Process \ {p} : g[q] = f[q]
           /\ g[p].phase = f[p].phase /\ g[p].key = f[p].key
           /\ g[p].value = f[p].value /\ g[p].old = v
<1>1. PICK r : r = [f[p] EXCEPT !.old = v]
  OBVIOUS
<1>2. /\ r \in CallRecord /\ r.phase = f[p].phase /\ r.key = f[p].key
      /\ r.value = f[p].value /\ r.old = v
  BY <1>1 DEF CallRecord
<1>3. g = [f EXCEPT ![p] = r]
  BY <1>1
<1>. QED  BY <1>2, <1>3

\* The fields of a call that is given another version.
LEMMA SetVersion ==
    ASSUME NEW f \in [Process -> CallRecord], NEW p \in Process, NEW v \in Nat,
           NEW g, g = [f EXCEPT ![p].version = v]
    PROVE  /\ g \in [Process -> CallRecord]
           /\ \A q \in Process \ {p} : g[q] = f[q]
           /\ g[p].phase = f[p].phase /\ g[p].key = f[p].key
           /\ g[p].value = f[p].value /\ g[p].old = f[p].old /\ g[p].version = v
<1>1. PICK r : r = [f[p] EXCEPT !.version = v]
  OBVIOUS
<1>2. /\ r \in CallRecord /\ r.phase = f[p].phase /\ r.key = f[p].key
      /\ r.value = f[p].value /\ r.old = f[p].old /\ r.version = v
  BY <1>1 DEF CallRecord
<1>3. g = [f EXCEPT ![p] = r]
  BY <1>1
<1>. QED  BY <1>2, <1>3

\* A call counts a conflict or a collision.
Counts(f, g, p, counter) == g = [f EXCEPT ![p][counter] = f[p][counter] + 1]

\* The fields of such a call.
LEMMA CountFields ==
    ASSUME NEW f \in [Process -> CallRecord], NEW p \in Process,
           NEW counter \in {"conflicts", "collisions"},
           NEW g, Counts(f, g, p, counter)
    PROVE  /\ g \in [Process -> CallRecord]
           /\ \A q \in Process \ {p} : g[q] = f[q]
           /\ g[p].phase = f[p].phase /\ g[p].key = f[p].key /\ g[p].value = f[p].value
<1>1. PICK r : r = [f[p] EXCEPT ![counter] = f[p][counter] + 1]
  OBVIOUS
<1>2. f[p] \in CallRecord /\ f[p][counter] + 1 \in Nat
  BY DEF CallRecord
<1>3. r \in CallRecord /\ r.phase = f[p].phase /\ r.key = f[p].key /\ r.value = f[p].value
  <2>1. CASE counter = "conflicts"
    BY <1>1, <1>2, <2>1 DEF CallRecord
  <2>2. CASE counter = "collisions"
    BY <1>1, <1>2, <2>2 DEF CallRecord
  <2>. QED  BY <2>1, <2>2
<1>4. g = [f EXCEPT ![p] = r]
  BY <1>1 DEF Counts
<1>. QED  BY <1>3, <1>4

\* The fields of a call that is tried again.
LEMMA RetryFields ==
    ASSUME call \in [Process -> CallRecord], NEW p \in Process,
           NEW counter \in {"conflicts", "collisions"}, NEW max, Retry(p, counter, max)
    PROVE  /\ call' \in [Process -> CallRecord]
           /\ \A q \in Process \ {p} : call'[q] = call[q]
           /\ call'[p].key = call[p].key /\ call'[p].value = call[p].value
           /\ \/ call'[p].phase = "start"
              \/ call'[p].phase = "done" /\ call'[p].result = "error"
<1>1. CASE call' = Result(p, "error")
  <2>1. "error" \in Outcome \cup {"infrastructure"}
    BY DEF Outcome
  <2>. QED  BY <1>1, <2>1, ResultFields
<1>2. CASE call' = [call EXCEPT ![p].phase = "start", ![p][counter] = @ + 1, ![p].old = None]
  <2>1. PICK f : f = [call EXCEPT ![p].phase = "start"]
    OBVIOUS
  <2>2. /\ f \in [Process -> CallRecord]
        /\ \A q \in Process \ {p} : f[q] = call[q]
        /\ f[p].phase = "start" /\ f[p].key = call[p].key /\ f[p].value = call[p].value
    BY <2>1 DEF CallRecord
  <2>3. PICK g : Counts(f, g, p, counter)
    BY DEF Counts
  <2>4. /\ g \in [Process -> CallRecord]
        /\ \A q \in Process \ {p} : g[q] = f[q]
        /\ g[p].phase = f[p].phase /\ g[p].key = f[p].key /\ g[p].value = f[p].value
    BY <2>2, <2>3, CountFields
  <2>5. call' = [g EXCEPT ![p].old = None]
    BY <1>2, <2>1, <2>3 DEF Counts
  <2>6. /\ call' \in [Process -> CallRecord]
        /\ \A q \in Process \ {p} : call'[q] = g[q]
        /\ call'[p].phase = g[p].phase /\ call'[p].key = g[p].key
        /\ call'[p].value = g[p].value
    <3>1. None \in LevelValue
      BY DEF LevelValue
    <3>2. g \in [Process -> CallRecord]
      BY <2>4
    <3>. QED  BY <2>5, <3>1, <3>2 DEF CallRecord
  <2>. QED  BY <2>2, <2>4, <2>6
<1>. QED  BY <1>1, <1>2 DEF Retry

\* What a call that reads the levels, or a version, puts down.
Reads(p) == call' = [call EXCEPT ![p].phase = "read", ![p].old = level]
Takes(p, v) == call' = [call EXCEPT ![p].phase = "versioned", ![p].version = v]

\* The fields of a call that has read the levels.
LEMMA ReadFields ==
    ASSUME EmroTypeOK, NEW p \in Process, Reads(p)
    PROVE  /\ call' \in [Process -> CallRecord]
           /\ \A q \in Process \ {p} : call'[q] = call[q]
           /\ call'[p].phase = "read" /\ call'[p].key = call[p].key
           /\ call'[p].value = call[p].value /\ call'[p].old = level
<1>0. call \in [Process -> CallRecord] /\ level \in LevelValue
  BY DEF EmroTypeOK
<1>1. PICK f : f = [call EXCEPT ![p].phase = "read"]
  OBVIOUS
<1>2. /\ f \in [Process -> CallRecord]
      /\ \A q \in Process \ {p} : f[q] = call[q]
      /\ f[p].phase = "read" /\ f[p].key = call[p].key /\ f[p].value = call[p].value
  BY <1>0, <1>1 DEF CallRecord
<1>3. call' = [f EXCEPT ![p].old = level]
  BY <1>1 DEF Reads
<1>. QED  BY <1>0, <1>2, <1>3, SetOld

\* The fields of a call that has read a version.
LEMMA VersionFields ==
    ASSUME call \in [Process -> CallRecord], NEW p \in Process, NEW v \in Nat, Takes(p, v)
    PROVE  /\ call' \in [Process -> CallRecord]
           /\ \A q \in Process \ {p} : call'[q] = call[q]
           /\ call'[p].phase = "versioned" /\ call'[p].key = call[p].key
           /\ call'[p].value = call[p].value /\ call'[p].old = call[p].old
           /\ call'[p].version = v
<1>1. PICK f : f = [call EXCEPT ![p].phase = "versioned"]
  OBVIOUS
<1>2. /\ f \in [Process -> CallRecord]
      /\ \A q \in Process \ {p} : f[q] = call[q]
      /\ f[p].phase = "versioned" /\ f[p].key = call[p].key
      /\ f[p].value = call[p].value /\ f[p].old = call[p].old
  BY <1>1 DEF CallRecord
<1>3. call' = [f EXCEPT ![p].version = v]
  BY <1>1 DEF Takes
<1>. QED  BY <1>2, <1>3, SetVersion

\* The latest version counts the entries.
LEMMA LatestIsCount ==
    ASSUME EmroInv
    PROVE  LatestVersion = Cardinality(ledger) /\ Cardinality(ledger) \in Nat
<1>1. /\ IsFiniteSet(ledger) /\ Cardinality(ledger) \in Nat
      /\ Versions = 1..Cardinality(ledger)
      /\ Cardinality(ledger) = 0 <=> ledger = {}
  BY FS_CardinalityType, FS_EmptySet DEF EmroInv, LedgerFilled
<1>2. CASE ledger = {}
  BY <1>1, <1>2 DEF LatestVersion
<1>3. CASE ledger # {}
  <2>1. Cardinality(ledger) \in Versions /\ \A v \in Versions : v <= Cardinality(ledger)
    BY <1>1, <1>3
  <2>2. PICK e \in ledger : e.version = Cardinality(ledger)
    BY <2>1 DEF Versions
  <2>3. \A f \in ledger : f.version <= e.version
    BY <2>1, <2>2 DEF Versions
  <2>. DEFINE g == CHOOSE x \in ledger : \A f \in ledger : f.version <= x.version
  <2>4. g \in ledger /\ \A f \in ledger : f.version <= g.version
    BY <2>2, <2>3
  <2>5. g.version \in 1..Cardinality(ledger)
    BY <1>1, <2>4 DEF Versions
  <2>6. e.version <= g.version
    BY <2>2, <2>4
  <2>. HIDE DEF g
  <2>7. g.version = Cardinality(ledger)
    BY <1>1, <2>2, <2>5, <2>6
  <2>. QED  BY <1>1, <1>3, <2>7 DEF LatestVersion, g
<1>. QED  BY <1>2, <1>3

\* Where a row is there, it holds what the last write left.
LEMMA LevelFollows ==
    ASSUME EmroInv
    PROVE  Follows(level) /\ (level = None => Written = {})
<1>1. Written # {} => level \in {Last(Written).new, Edited}
  BY DEF EmroInv, LevelsFollowLedger
<1>2. Written # {} => Last(Written).new # None
  <2>1. ASSUME Written # {} PROVE Last(Written) \in Written
    BY <2>1 DEF EmroInv, LedgerFilled, Last
  <2>2. \A e \in Written : e.new # None
    BY EmroAssumption DEF Written, EmroInv, EmroTypeOK, LedgerEntry
  <2>. QED  BY <2>1, <2>2
<1>. QED  BY <1>1, <1>2, EmroAssumption DEF Follows

\* A statement that commits nothing leaves everything in order.
LEMMA UncommittedInv ==
    ASSUME EmroInv, NEW p \in Process, Pipeline(p), ~Commit(p),
           UNCHANGED <<delivery, topics>>
    PROVE  EmroInv'
<1>0. EmroTypeOK /\ call \in [Process -> CallRecord] /\ CallFits(p, call[p])
  BY DEF EmroInv, EmroTypeOK
<1>1. ASSUME NEW x \in Outcome \cup {"infrastructure"}, call' = Result(p, x),
             x \in {"accepted", "duplicate"} => Recorded(call[p].key),
             call[p].phase # "idle", UNCHANGED <<level, ledger, orders>>, LockKept(p)
      PROVE  EmroInv'
  <2>1. /\ call' \in [Process -> CallRecord] /\ \A q \in Process \ {p} : call'[q] = call[q]
        /\ call'[p].phase = "done" /\ call'[p].key = call[p].key
        /\ call'[p].value = call[p].value /\ call'[p].result = x
    BY <1>0, <1>1, ResultFields
  <2>2. CallFits(p, call[p])'
    BY <1>0, <1>1, <2>1 DEF CallFits, Recorded
  <2>. QED  BY <1>1, <2>1, <2>2, LocalStep
<1>2. ASSUME NEW s \in {"start", "fresh", "read", "stored", "versioned", "done"},
             NEW t \in {"fresh", "stored"}, Steps(p, s, t),
             s # "idle", UNCHANGED <<level, ledger, orders>>, LockKept(p),
             t = "stored" /\ call[p].key[1] \in LevelRow => lock' = p /\ Follows(call[p].old)
      PROVE  EmroInv'
  <2>1. call[p].phase = s /\ call' = [call EXCEPT ![p].phase = t]
    BY <1>2 DEF Steps
  <2>2. /\ call' \in [Process -> CallRecord] /\ \A q \in Process \ {p} : call'[q] = call[q]
        /\ call'[p].phase = t /\ call'[p].key = call[p].key
        /\ call'[p].value = call[p].value /\ call'[p].old = call[p].old
    BY <1>0, <2>1, PhaseFields
  <2>3. CallFits(p, call[p])'
    BY <1>0, <1>2, <2>1, <2>2 DEF CallFits, Follows, Written
  <2>. QED  BY <1>2, <2>1, <2>2, <2>3, LocalStep
<1>3. ASSUME NEW counter \in {"conflicts", "collisions"}, NEW max, Retry(p, counter, max),
             call[p].phase # "idle", RolledBack(p)
      PROVE  EmroInv'
  <2>1. /\ call' \in [Process -> CallRecord] /\ \A q \in Process \ {p} : call'[q] = call[q]
        /\ call'[p].key = call[p].key /\ call'[p].value = call[p].value
        /\ \/ call'[p].phase = "start"
           \/ call'[p].phase = "done" /\ call'[p].result = "error"
    BY <1>0, <1>3, RetryFields
  <2>2. LockKept(p) /\ UNCHANGED <<level, ledger, orders>>
    BY <1>3 DEF RolledBack, Release, LockKept
  <2>3. CallFits(p, call[p])'
    BY <1>0, <1>3, <2>1 DEF CallFits, Outcome
  <2>. QED  BY <1>3, <2>1, <2>2, <2>3, LocalStep
<1>4. CASE Reject(p)
  BY <1>1, <1>4 DEF Reject, database, LockKept, Outcome
<1>5. CASE SkipDuplicate(p)
  BY <1>1, <1>5 DEF SkipDuplicate, database, LockKept, Outcome
<1>6. CASE NotRecorded(p)
  BY <1>2, <1>6 DEF NotRecorded, database, LockKept
<1>7. CASE ReadLevel(p)
  <2>1. call[p].phase = "fresh" /\ Reads(p) /\ LockKept(p)
        /\ UNCHANGED <<level, ledger, orders>> /\ (level = None \/ lock' = p)
    BY <1>7 DEF ReadLevel, LockKept, Reads
  <2>2. /\ call' \in [Process -> CallRecord]
        /\ \A q \in Process \ {p} : call'[q] = call[q]
        /\ call'[p].phase = "read" /\ call'[p].key = call[p].key
        /\ call'[p].value = call[p].value /\ call'[p].old = level
    BY <1>0, <2>1, ReadFields
  <2>3. CallFits(p, call[p])'
    BY <1>0, <2>1, <2>2, LevelFollows DEF CallFits, Follows, Written
  <2>. QED  BY <2>1, <2>2, <2>3, LocalStep
<1>8. CASE PassOver(p)
  <2>1. call[p].key[1] \notin LevelRow
    BY <1>8, EmroAssumption DEF PassOver, RowOf
  <2>. QED  BY <1>2, <1>8, <2>1 DEF PassOver, database, LockKept
<1>9. CASE StoreLevel(p)
  <2>1. /\ Steps(p, "read", "stored") /\ call[p].phase = "read"
        /\ UNCHANGED <<level, ledger, orders>> /\ LockKept(p) /\ lock' = p
        /\ call[p].key[1] \in LevelRow /\ (call[p].old = None => level = None)
    BY <1>9 DEF StoreLevel, Steps, LockKept, Live, RowOf
  <2>2. Follows(call[p].old)
    BY <1>0, <2>1, LevelFollows DEF CallFits, Follows
  <2>. QED  BY <1>2, <2>1, <2>2
<1>10. CASE CreateRequisition(p) \/ CreateTransfer(p)
  <2>1. call[p].key[1] \notin LevelRow
    BY <1>10, EmroAssumption DEF CreateRequisition, CreateTransfer, RowOf, Order
  <2>. QED  BY <1>2, <1>10, <2>1 DEF CreateRequisition, CreateTransfer, database, LockKept
<1>11. CASE ReadVersion(p)
  <2>. DEFINE v == LatestVersion + 1
  <2>1. v \in Nat /\ v \in 1..(Cardinality(ledger) + 1)
    BY LatestIsCount
  <2>2. call[p].phase = "stored" /\ UNCHANGED <<lock, level, ledger, orders>> /\ Takes(p, v)
    BY <1>11 DEF ReadVersion, database, Takes
  <2>. HIDE DEF v
  <2>3. /\ call' \in [Process -> CallRecord]
        /\ \A q \in Process \ {p} : call'[q] = call[q]
        /\ call'[p].phase = "versioned" /\ call'[p].key = call[p].key
        /\ call'[p].value = call[p].value /\ call'[p].old = call[p].old
        /\ call'[p].version = v
    BY <1>0, <2>1, <2>2, VersionFields
  <2>4. CallFits(p, call[p])'
    BY <1>0, <2>1, <2>2, <2>3 DEF CallFits, Follows, Written
  <2>. QED  BY <2>2, <2>3, <2>4, LocalStep DEF LockKept
<1>12. CASE LoseToDuplicate(p)
  BY <1>1, <1>12 DEF LoseToDuplicate, RolledBack, Release, LockKept, Outcome
<1>13. CASE Conflict(p)
  BY <1>3, <1>13 DEF Conflict
<1>14. CASE AuditCollision(p)
  BY <1>3, <1>14 DEF AuditCollision
<1>15. CASE Disconnect(p)
  BY <1>1, <1>15 DEF Disconnect, RolledBack, Release, LockKept
<1>. QED  BY <1>4, <1>5, <1>6, <1>7, <1>8, <1>9, <1>10, <1>11, <1>12, <1>13, <1>14, <1>15
          DEF Pipeline

-----------------------------------------------------------------------------
(* The commit                                                                *)

\* The entry of a commit takes the next version of the chain, whatever was
\* written since the call read the last one.
LEMMA NextVersion ==
    ASSUME EmroInv, NEW p \in Process, Commit(p)
    PROVE  /\ EntryOf(p) \in LedgerEntry /\ EntryOf(p) \notin ledger
           /\ EntryOf(p).version = Cardinality(ledger) + 1
           /\ EntryOf(p).parent = Cardinality(ledger)
           /\ EntryOf(p).key = call[p].key
           /\ ledger' = ledger \cup {EntryOf(p)}
           /\ IsFiniteSet(ledger') /\ Cardinality(ledger') = Cardinality(ledger) + 1
           /\ Cardinality(ledger) \in Nat
           /\ \A e \in ledger : e.version \in 1..Cardinality(ledger)
<1>1. /\ CallFits(p, call[p]) /\ call[p] \in CallRecord
      /\ IsFiniteSet(ledger) /\ Versions = 1..Cardinality(ledger)
      /\ ledger \subseteq LedgerEntry
  BY DEF EmroInv, EmroTypeOK, LedgerFilled
<1>2. /\ call[p].phase = "versioned" /\ ~VersionTaken(p)
      /\ ledger' = ledger \cup {EntryOf(p)}
  BY DEF Commit, Committed
<1>3. Cardinality(ledger) \in Nat /\ \A e \in ledger : e.version \in 1..Cardinality(ledger)
  BY <1>1, FS_CardinalityType DEF Versions
<1>4. call[p].version \in 1..(Cardinality(ledger) + 1) /\ call[p].version \notin Versions
  BY <1>1, <1>2 DEF CallFits, VersionTaken, Versions
<1>5. call[p].version = Cardinality(ledger) + 1
  BY <1>1, <1>3, <1>4
<1>6. /\ EntryOf(p).version = Cardinality(ledger) + 1
      /\ EntryOf(p).parent = Cardinality(ledger) /\ EntryOf(p).key = call[p].key
  BY <1>3, <1>5 DEF EntryOf
<1>7. EntryOf(p) \notin ledger
  BY <1>3, <1>6
<1>8. EntryOf(p) \in LedgerEntry
  <2>1. call[p].key \in Row \X Nat /\ call[p].value \in Row \cup {Edited}
    BY <1>1, <1>2 DEF CallFits, CallRecord, LevelValue
  <2>2. Domain(RowOf(p)) \in {"STOCK_LEVEL", "REQUISITION", "TRANSFER"}
    BY DEF Domain
  <2>3. call[p].old \in LevelValue /\ call[p].version \in Nat /\ call[p].version - 1 \in Int
    BY <1>1 DEF CallRecord
  <2>. QED  BY <2>1, <2>2, <2>3 DEF EntryOf, LedgerEntry
<1>9. IsFiniteSet(ledger') /\ Cardinality(ledger') = Cardinality(ledger) + 1
  BY <1>1, <1>2, <1>7, FS_AddElement
<1>. QED  BY <1>2, <1>3, <1>6, <1>7, <1>8, <1>9

\* A live write is the last one written; the others leave what is written alone.
LEMMA LastWritten ==
    ASSUME EmroInv, NEW p \in Process, Commit(p)
    PROVE  /\ Live(p) => /\ Written' = Written \cup {EntryOf(p)}
                         /\ Last(Written') = EntryOf(p)
                         /\ level' = EntryOf(p).new
           /\ ~Live(p) => Written' = Written /\ level' = level
<1>1. /\ ledger' = ledger \cup {EntryOf(p)} /\ Cardinality(ledger) \in Nat
      /\ EntryOf(p).version = Cardinality(ledger) + 1
      /\ \A e \in ledger : e.version \in 1..Cardinality(ledger)
  BY NextVersion
<1>2. /\ call[p].phase = "versioned" /\ CallFits(p, call[p])
      /\ level' = IF Live(p) THEN call[p].value ELSE level
  BY DEF Commit, Committed, EmroInv
<1>3. RowOf(p) \in Row
  BY <1>2 DEF CallFits, RowOf
<1>4. ASSUME Live(p)
      PROVE  /\ Written' = Written \cup {EntryOf(p)} /\ Last(Written') = EntryOf(p)
             /\ level' = EntryOf(p).new
  <2>1. /\ Domain(RowOf(p)) = "STOCK_LEVEL" /\ RowOf(p) \notin ShadowRow
    BY <1>4, EmroAssumption DEF Live, Domain, Order
  <2>2. EntryOf(p).domain = "STOCK_LEVEL" /\ EntryOf(p).outcome = "WRITTEN"
        /\ EntryOf(p).new = call[p].value
    BY <2>1 DEF EntryOf
  <2>3. Written' = Written \cup {EntryOf(p)}
    BY <1>1, <2>2 DEF Written
  <2>4. \A e \in Written' : e.version <= EntryOf(p).version
    BY <1>1, <2>3 DEF Written
  <2>5. \A g \in Written' : (\A f \in Written' : f.version <= g.version) => g = EntryOf(p)
    BY <1>1, <2>3 DEF Written
  <2>6. Last(Written') = EntryOf(p)
    BY <2>3, <2>4, <2>5 DEF Last
  <2>. QED  BY <1>2, <1>4, <2>2, <2>3, <2>6
<1>5. ASSUME ~Live(p) PROVE Written' = Written /\ level' = level
  <2>1. \/ Domain(RowOf(p)) # "STOCK_LEVEL" \/ RowOf(p) \in ShadowRow
    BY <1>3, <1>5 DEF Live, Row, Order, Domain
  <2>2. EntryOf(p).domain # "STOCK_LEVEL" \/ EntryOf(p).outcome # "WRITTEN"
    BY <2>1 DEF EntryOf
  <2>. QED  BY <1>1, <1>2, <1>5, <2>2 DEF Written
<1>. QED  BY <1>4, <1>5

\* What is recorded stays recorded.
LEMMA StaysRecorded ==
    ASSUME ledger \subseteq ledger'
    PROVE  \A key : Recorded(key) => Recorded(key)'
BY DEF Recorded

\* A commit keeps all of it in order.
LEMMA CommitInv ==
    ASSUME EmroInv, NEW p \in Process, Commit(p), UNCHANGED <<delivery, topics>>
    PROVE  EmroInv'
<1>. DEFINE n == Cardinality(ledger)
            entry == EntryOf(p)
<1>0. /\ entry \in LedgerEntry /\ entry \notin ledger
      /\ entry.version = n + 1 /\ entry.parent = n /\ entry.key = call[p].key
      /\ ledger' = ledger \cup {entry}
      /\ IsFiniteSet(ledger') /\ Cardinality(ledger') = n + 1 /\ n \in Nat
      /\ \A e \in ledger : e.version \in 1..n
  BY NextVersion
<1>1. /\ Live(p) => Written' = Written \cup {entry} /\ Last(Written') = entry
                    /\ level' = entry.new
      /\ ~Live(p) => Written' = Written /\ level' = level
  BY LastWritten
<1>2. /\ EmroTypeOK /\ LedgerFilled /\ ChainIsWhole /\ OneOrderPerKey
      /\ LevelsFollowLedger /\ AckedIsAccounted
      /\ \A q \in Process : CallFits(q, call[q])
      /\ \A c \in Consumer : DeliveryFits(delivery[c], call[c])
      /\ call \in [Process -> CallRecord]
  BY DEF EmroInv, EmroTypeOK
<1>3. /\ call[p].phase = "versioned" /\ ~Recorded(call[p].key)
      /\ UNCHANGED <<delivery, acked, results, dlq>>
      /\ lock' = IF lock = p THEN None ELSE lock
      /\ orders' = IF RowOf(p) \in Order
                   THEN orders \cup {[number |-> Cardinality(orders) + 1, key |-> call[p].key]}
                   ELSE orders
  BY DEF Commit, Committed, Release, topics
<1>4. /\ call' \in [Process -> CallRecord] /\ \A q \in Process \ {p} : call'[q] = call[q]
      /\ call'[p].phase = "done" /\ call'[p].key = call[p].key
      /\ call'[p].value = call[p].value /\ call'[p].result \in Outcome \cup {"infrastructure"}
  <2>1. PICK x \in {"accepted", "infrastructure"} : call' = Result(p, x)
    BY DEF Commit
  <2>2. x \in Outcome \cup {"infrastructure"}
    BY DEF Outcome
  <2>. QED  BY <1>2, <2>1, <2>2, ResultFields
<1>5. Live(p) => lock = p /\ Follows(call[p].old) /\ entry.old = call[p].old
  BY <1>2, <1>3 DEF CallFits, Live, RowOf, EntryOf
<1>6. \A key : Recorded(key) => Recorded(key)'
  BY <1>0, StaysRecorded
<1>7. Recorded(call[p].key)'
  BY <1>0, <1>4 DEF Recorded
<1>. HIDE DEF entry, n
<1>8. EmroTypeOK'
  <2>1. level' \in LevelValue
    BY <1>0, <1>1, <1>2 DEF EmroTypeOK, LedgerEntry, LevelValue
  <2>2. ledger' \subseteq LedgerEntry
    BY <1>0, <1>2 DEF EmroTypeOK
  <2>. QED  BY <1>2, <1>3, <1>4, <2>1, <2>2 DEF EmroTypeOK
<1>9. LedgerFilled'
  <2>1. Versions' = 1..(n + 1)
    <3>1. Versions = 1..n
      BY <1>2 DEF LedgerFilled, n
    <3>2. Versions' = Versions \cup {entry.version}
      BY <1>0 DEF Versions
    <3>. QED  BY <1>0, <3>1, <3>2
  <2>2. Written' # {} => \E e \in Written' : \A f \in Written' : f.version <= e.version
    <3>1. CASE Live(p)
      BY <1>0, <1>1, <3>1 DEF Written
    <3>2. CASE ~Live(p)
      BY <1>1, <1>2, <3>2 DEF LedgerFilled
    <3>. QED  BY <3>1, <3>2
  <2>. QED  BY <1>0, <2>1, <2>2 DEF LedgerFilled
<1>10. ChainIsWhole'
  <2>1. \A e \in ledger : e.version \in 1..n /\ e.parent = e.version - 1
                          /\ \A f \in ledger : f.version = e.version => f = e
    BY <1>2 DEF ChainIsWhole, n
  <2>. QED  BY <1>0, <2>1 DEF ChainIsWhole
<1>11. OneOrderPerKey'
  <2>1. \A e \in ledger : e.key # entry.key
    BY <1>0, <1>3 DEF Recorded
  <2>2. \A o \in orders : o.key # entry.key
    BY <1>2, <2>1 DEF OneOrderPerKey
  <2>3. \A e, f \in ledger' : e.key = f.key => e = f
    BY <1>0, <1>2, <2>1 DEF OneOrderPerKey
  <2>. DEFINE new == [number |-> Cardinality(orders) + 1, key |-> call[p].key]
  <2>4. new.key = entry.key
    BY <1>0
  <2>5. orders' \subseteq orders \cup {new}
    BY <1>3
  <2>. HIDE DEF new
  <2>6. \A o \in orders' : /\ \A m \in orders' : o.key = m.key => o = m
                           /\ \E e \in ledger' : e.key = o.key
    BY <1>0, <1>2, <2>2, <2>4, <2>5 DEF OneOrderPerKey
  <2>. QED  BY <2>3, <2>6 DEF OneOrderPerKey
<1>12. LevelsFollowLedger'
  <2>1. CASE ~Live(p)
    BY <1>1, <1>2, <2>1 DEF LevelsFollowLedger
  <2>2. CASE Live(p)
    <3>1. /\ Written' = Written \cup {entry} /\ Last(Written') = entry /\ level' = entry.new
          /\ Follows(entry.old)
      BY <1>1, <1>5, <2>2
    <3>2. \A e \in Written : e.version \in 1..n
      BY <1>0 DEF Written
    <3>3. ASSUME NEW e \in Written', {f \in Written' : f.version < e.version} # {}
          PROVE  e.old \in {Last({f \in Written' : f.version < e.version}).new, Edited}
      <4>1. CASE e = entry
        <5>1. {f \in Written' : f.version < e.version} = Written
          BY <1>0, <3>1, <3>2, <4>1
        <5>. QED  BY <3>1, <3>3, <4>1, <5>1 DEF Follows
      <4>2. CASE e # entry
        <5>1. e \in Written
          BY <3>1, <4>2
        <5>2. {f \in Written' : f.version < e.version}
                 = {f \in Written : f.version < e.version}
          BY <1>0, <3>1, <3>2, <5>1
        <5>. QED  BY <1>2, <3>3, <5>1, <5>2 DEF LevelsFollowLedger
      <4>. QED  BY <4>1, <4>2
    <3>. QED  BY <3>1, <3>3 DEF LevelsFollowLedger
  <2>. QED  BY <2>1, <2>2
<1>13. AckedIsAccounted'
  BY <1>2, <1>3, <1>6 DEF AckedIsAccounted
<1>14. ASSUME NEW q \in Process PROVE CallFits(q, call[q])'
  <2>1. CASE q = p
    BY <1>2, <1>3, <1>4, <1>7, <2>1 DEF CallFits
  <2>2. CASE q # p
    <3>1. call'[q] = call[q] /\ CallFits(q, call[q]) /\ (lock = q => lock' = q)
      BY <1>2, <1>3, <1>4, <2>2
    <3>2. call[q].phase = "versioned" => call[q].version \in 1..(Cardinality(ledger') + 1)
      BY <1>0, <3>1 DEF CallFits, n
    <3>3. lock = q => \A old : Follows(old) => Follows(old)'
      BY <1>1, <1>5, <2>2 DEF Follows
    <3>. QED  BY <1>6, <3>1, <3>2, <3>3 DEF CallFits
  <2>. QED  BY <2>1, <2>2
<1>15. ASSUME NEW c \in Consumer PROVE DeliveryFits(delivery[c], call[c])'
  <2>1. DeliveryFits(delivery[c], call[c]) /\ c \in Process /\ delivery'[c] = delivery[c]
    BY <1>2, <1>3 DEF Process
  <2>2. \/ call'[c] = call[c]
        \/ call[c].phase # "idle" /\ call'[c].key = call[c].key
    BY <1>3, <1>4, <2>1
  <2>. QED  BY <1>6, <2>1, <2>2 DEF DeliveryFits, Accounted
<1>. QED  BY <1>8, <1>9, <1>10, <1>11, <1>12, <1>13, <1>14, <1>15 DEF EmroInv

-----------------------------------------------------------------------------
(* Requests and deliveries                                                   *)

\* The fields of a call that starts on a row.
LEMMA BeginFields ==
    ASSUME call \in [Process -> CallRecord], NEW p \in Process, NEW row \in Row,
           NEW depth \in Nat, NEW value \in Row \cup {Edited}, Begin(p, row, depth, value)
    PROVE  /\ call' \in [Process -> CallRecord]
           /\ \A q \in Process \ {p} : call'[q] = call[q]
           /\ call'[p].phase = "start" /\ call'[p].key = Key(row, depth)
           /\ CallFits(p, call[p])'
<1>. DEFINE new == [Idle EXCEPT !.phase = "start", !.key = Key(row, depth), !.value = value]
<1>1. /\ new \in CallRecord /\ new.phase = "start" /\ new.key = Key(row, depth)
      /\ new.value = value /\ Key(row, depth) \in Row \X Nat
  BY DEF Idle, CallRecord, LevelValue, Key
<1>2. call' = [call EXCEPT ![p] = new]
  BY DEF Begin
<1>. HIDE DEF new
<1>3. /\ call' \in [Process -> CallRecord] /\ call'[p] = new
      /\ \A q \in Process \ {p} : call'[q] = call[q]
  BY <1>1, <1>2
<1>4. CallFits(p, call[p])'
  BY <1>1, <1>3, EmroAssumption DEF CallFits
<1>. QED  BY <1>1, <1>3, <1>4

\* The fields of a call that is over.
LEMMA IdleFields ==
    ASSUME call \in [Process -> CallRecord], NEW p \in Process,
           call' = [call EXCEPT ![p] = Idle]
    PROVE  /\ call' \in [Process -> CallRecord]
           /\ \A q \in Process \ {p} : call'[q] = call[q]
           /\ call'[p].phase = "idle" /\ CallFits(p, call[p])'
<1>1. Idle \in CallRecord /\ Idle.phase = "idle"
  BY DEF Idle, CallRecord, LevelValue
<1>2. /\ call' \in [Process -> CallRecord] /\ call'[p] = Idle
      /\ \A q \in Process \ {p} : call'[q] = call[q]
  BY <1>1
<1>. QED  BY <1>1, <1>2 DEF CallFits

\* A request, of a row or of a rollback, and its answer.
LEMMA ClientInv ==
    ASSUME EmroInv, NEW r \in Client, ClientStep(r)
    PROVE  EmroInv'
<1>0. r \in Process /\ r \notin Consumer /\ call \in [Process -> CallRecord]
  BY EmroAssumption DEF Process, EmroInv, EmroTypeOK
<1>1. ASSUME NEW row \in Row, NEW depth \in Nat, NEW value \in Row \cup {Edited},
             Begin(r, row, depth, value), Asks(r)
      PROVE  EmroInv'
  <2>1. UNCHANGED <<level, ledger, orders, delivery, topics>> /\ LockKept(r)
    BY <1>1 DEF Asks, database, LockKept
  <2>. QED  BY <1>0, <1>1, <2>1, BeginFields, LocalStep
<1>2. ASSUME NEW row \in Row, Request(r, row) PROVE EmroInv'
  BY <1>1, <1>2 DEF Request
<1>3. CASE Apply(r) \/ PostRequisition(r) \/ PostTransfer(r)
  BY <1>2, <1>3 DEF Apply, PostRequisition, PostTransfer, Row, Order
<1>4. CASE Rollback(r)
  <2>. DEFINE reverted == Last(Written)
  <2>1. /\ Written # {} /\ reverted.old # None
        /\ Begin(r, reverted.key[1], reverted.key[2] + 1, reverted.old) /\ Asks(r)
    BY <1>4 DEF Rollback
  <2>2. reverted \in Written
    BY <2>1 DEF EmroInv, LedgerFilled, Last
  <2>3. reverted \in LedgerEntry
    BY <2>2 DEF Written, EmroInv, EmroTypeOK
  <2>. HIDE DEF reverted
  <2>4. /\ reverted.key[1] \in Row /\ reverted.key[2] + 1 \in Nat
        /\ reverted.old \in Row \cup {Edited}
    BY <2>1, <2>3 DEF LedgerEntry, LevelValue
  <2>. QED  BY <1>1, <2>1, <2>4
<1>5. CASE Respond(r)
  <2>1. /\ UNCHANGED <<level, ledger, orders, delivery, topics>> /\ LockKept(r)
        /\ call' = [call EXCEPT ![r] = Idle]
    BY <1>5 DEF Respond, database, LockKept
  <2>2. /\ call' \in [Process -> CallRecord] /\ \A q \in Process \ {r} : call'[q] = call[q]
        /\ call'[r].phase = "idle" /\ CallFits(r, call[r])'
    BY <1>0, <2>1, IdleFields
  <2>. QED  BY <1>0, <2>1, <2>2, LocalStep
<1>. QED  BY <1>3, <1>4, <1>5, ClientStep(r) DEF ClientStep

\* A step of one consumer that writes nothing has to keep its call, its delivery
\* and what it acknowledges in order.
LEMMA DeliveryStep ==
    ASSUME EmroInv, NEW c \in Consumer, UNCHANGED <<level, ledger, orders>>, LockKept(c),
           call' \in [Process -> CallRecord],
           \A q \in Process \ {c} : call'[q] = call[q],
           delivery' \in [Consumer -> DeliveryRecord],
           \A d \in Consumer \ {c} : delivery'[d] = delivery[d],
           CallFits(c, call[c])', DeliveryFits(delivery[c], call[c])', AckedIsAccounted'
    PROVE  EmroInv'
<1>0. c \in Process /\ Written' = Written
  BY DEF Process, Written
<1>1. EmroTypeOK'
  BY DEF EmroInv, EmroTypeOK
<1>2. LedgerFilled' /\ ChainIsWhole' /\ OneOrderPerKey' /\ LevelsFollowLedger'
  BY <1>0 DEF EmroInv, LedgerFilled, Versions, ChainIsWhole, OneOrderPerKey, LevelsFollowLedger
<1>3. ASSUME NEW q \in Process PROVE CallFits(q, call[q])'
  <2>1. CASE q = c
    BY <2>1
  <2>2. CASE q # c
    <3>1. call'[q] = call[q] /\ CallFits(q, call[q]) /\ (lock = q => lock' = q)
      BY <2>2, EmroAssumption DEF EmroInv, LockKept
    <3>. QED  BY <1>0, <3>1 DEF CallFits, Follows, Recorded
  <2>. QED  BY <2>1, <2>2
<1>4. ASSUME NEW d \in Consumer PROVE DeliveryFits(delivery[d], call[d])'
  <2>1. CASE d = c
    BY <2>1
  <2>2. CASE d # c
    <3>1. /\ call'[d] = call[d] /\ delivery'[d] = delivery[d]
          /\ DeliveryFits(delivery[d], call[d])
      BY <2>2 DEF EmroInv, Process
    <3>. QED  BY <3>1 DEF DeliveryFits, Accounted, Recorded
  <2>. QED  BY <2>1, <2>2
<1>. QED  BY <1>1, <1>2, <1>3, <1>4 DEF EmroInv

\* No answers.
LEMMA NoAnswers == <<>> \in Seq(Outcome) /\ Len(<<>>) = 0 /\ DOMAIN <<>> = {}
OBVIOUS

\* The fields of a delivery that is over.
LEMMA DroppedFields ==
    ASSUME EmroTypeOK, NEW c \in Consumer, delivery' = [delivery EXCEPT ![c] = NoDelivery],
           call'[c].phase = "idle"
    PROVE  /\ delivery' \in [Consumer -> DeliveryRecord]
           /\ \A d \in Consumer \ {c} : delivery'[d] = delivery[d]
           /\ DeliveryFits(delivery[c], call[c])'
<1>1. NoDelivery \in DeliveryRecord /\ NoDelivery.phase = "idle"
  BY NoAnswers DEF NoDelivery, DeliveryRecord
<1>2. /\ delivery' \in [Consumer -> DeliveryRecord] /\ delivery'[c] = NoDelivery
      /\ \A d \in Consumer \ {c} : delivery'[d] = delivery[d]
  BY <1>1 DEF EmroTypeOK
<1>. QED  BY <1>1, <1>2 DEF DeliveryFits

\* A batch whose call has failed: tried again, or given up.
Restarts(c) == delivery' = [delivery EXCEPT ![c].attempt = @ + 1, ![c].response = <<>>]
GivesUp(c) == delivery' = [delivery EXCEPT ![c].phase = "exhausted", ![c].response = <<>>]

\* The fields of such a delivery.
LEMMA FailedFields ==
    ASSUME EmroTypeOK, NEW c \in Consumer, Restarts(c) \/ GivesUp(c)
    PROVE  /\ delivery' \in [Consumer -> DeliveryRecord]
           /\ \A d \in Consumer \ {c} : delivery'[d] = delivery[d]
           /\ delivery'[c].phase \in {delivery[c].phase, "exhausted"}
           /\ delivery'[c].msg = delivery[c].msg /\ delivery'[c].response = <<>>
<1>0. delivery \in [Consumer -> DeliveryRecord]
  BY DEF EmroTypeOK
<1>1. CASE Restarts(c)
  <2>0. PICK n : n = delivery[c].attempt + 1
    OBVIOUS
  <2>a. n \in Nat
    BY <1>0, <2>0 DEF DeliveryRecord
  <2>1. PICK f : f = [delivery EXCEPT ![c].attempt = n]
    OBVIOUS
  <2>2. /\ f \in [Consumer -> DeliveryRecord]
        /\ \A d \in Consumer \ {c} : f[d] = delivery[d]
        /\ f[c].phase = delivery[c].phase /\ f[c].msg = delivery[c].msg
    BY <1>0, <2>a, <2>1 DEF DeliveryRecord
  <2>3. delivery' = [f EXCEPT ![c].response = <<>>]
    BY <1>1, <2>0, <2>1 DEF Restarts
  <2>. QED  BY <2>2, <2>3, NoAnswers DEF DeliveryRecord
<1>2. CASE GivesUp(c)
  <2>1. PICK f : f = [delivery EXCEPT ![c].phase = "exhausted"]
    OBVIOUS
  <2>2. /\ f \in [Consumer -> DeliveryRecord]
        /\ \A d \in Consumer \ {c} : f[d] = delivery[d]
        /\ f[c].phase = "exhausted" /\ f[c].msg = delivery[c].msg
    BY <1>0, <2>1 DEF DeliveryRecord
  <2>3. delivery' = [f EXCEPT ![c].response = <<>>]
    BY <1>2, <2>1 DEF GivesUp
  <2>. QED  BY <2>2, <2>3, NoAnswers DEF DeliveryRecord
<1>. QED  BY <1>1, <1>2

\* A message is taken, and its rows are handed to the pipeline one by one.
LEMMA HandInv ==
    ASSUME EmroInv, NEW c \in Consumer,
           (\E msg \in Message : Deliver(c, msg)) \/ ProcessItem(c)
    PROVE  EmroInv'
<1>0. /\ c \in Process /\ call \in [Process -> CallRecord] /\ EmroTypeOK
      /\ delivery \in [Consumer -> DeliveryRecord]
      /\ DeliveryFits(delivery[c], call[c]) /\ CallFits(c, call[c])
  BY DEF Process, EmroInv, EmroTypeOK
<1>1. UNCHANGED <<level, ledger, orders, acked, results, dlq>> /\ LockKept(c)
  BY DEF Deliver, ProcessItem, database, topics, LockKept
<1>2. AckedIsAccounted'
  BY <1>1 DEF EmroInv, AckedIsAccounted, Recorded
<1>3. ASSUME NEW msg \in Message, Deliver(c, msg) PROVE EmroInv'
  <2>. DEFINE new == [NoDelivery EXCEPT !.phase = "rows", !.msg = msg, !.attempt = 1]
  <2>1. /\ new \in DeliveryRecord /\ new.phase = "rows" /\ new.msg = msg
        /\ new.response = <<>>
    BY NoAnswers DEF NoDelivery, DeliveryRecord
  <2>2. delivery[c].phase = "idle" /\ delivery' = [delivery EXCEPT ![c] = new]
        /\ call' = call
    BY <1>3 DEF Deliver
  <2>. HIDE DEF new
  <2>3. /\ delivery' \in [Consumer -> DeliveryRecord] /\ delivery'[c] = new
        /\ \A d \in Consumer \ {c} : delivery'[d] = delivery[d]
    BY <1>0, <2>1, <2>2
  <2>4. call'[c].phase = "idle"
    BY <1>0, <2>2 DEF DeliveryFits
  <2>5. Len(new.response) <= Len(msg)
    BY <2>1, NoAnswers, LenProperties, EmroAssumption
  <2>6. DeliveryFits(delivery[c], call[c])'
    BY <2>1, <2>3, <2>4, <2>5, NoAnswers DEF DeliveryFits, Accounted
  <2>7. CallFits(c, call[c])'
    BY <2>4 DEF CallFits
  <2>. QED  BY <1>0, <1>1, <1>2, <2>2, <2>3, <2>6, <2>7, DeliveryStep
<1>4. CASE ProcessItem(c)
  <2>. DEFINE next == Len(delivery[c].response) + 1
              row == delivery[c].msg[next]
  <2>1. /\ delivery[c].phase = "rows" /\ next <= Len(delivery[c].msg)
        /\ Begin(c, row, 0, row) /\ delivery' = delivery
    BY <1>4 DEF ProcessItem
  <2>2. delivery[c].msg \in Seq(Row) /\ delivery[c].response \in Seq(Outcome)
    BY <1>0, <2>1, EmroAssumption DEF DeliveryFits, DeliveryRecord
  <2>3. next \in 1..Len(delivery[c].msg) /\ Len(delivery[c].response) < Len(delivery[c].msg)
    BY <2>1, <2>2, LenProperties
  <2>4. row \in Row
    BY <2>2, <2>3, ElementOfSeq
  <2>5. /\ call' \in [Process -> CallRecord] /\ \A q \in Process \ {c} : call'[q] = call[q]
        /\ call'[c].phase = "start" /\ call'[c].key = Key(row, 0) /\ CallFits(c, call[c])'
    BY <1>0, <2>1, <2>4, BeginFields
  <2>6. DeliveryFits(delivery[c], call[c])'
    BY <1>0, <1>1, <2>1, <2>3, <2>5 DEF DeliveryFits, Accounted, Recorded
  <2>. QED  BY <1>0, <1>1, <1>2, <2>1, <2>5, <2>6, DeliveryStep
<1>. QED  BY <1>3, <1>4

\* A row is answered, or the batch starts again or is given up.
LEMMA ReturnInv ==
    ASSUME EmroInv, NEW c \in Consumer, ItemDone(c) \/ BatchFails(c)
    PROVE  EmroInv'
<1>0. /\ c \in Process /\ call \in [Process -> CallRecord] /\ EmroTypeOK
      /\ delivery \in [Consumer -> DeliveryRecord]
      /\ DeliveryFits(delivery[c], call[c]) /\ CallFits(c, call[c])
  BY DEF Process, EmroInv, EmroTypeOK
<1>1. /\ UNCHANGED <<level, ledger, orders, acked, results, dlq>> /\ LockKept(c)
      /\ call[c].phase = "done" /\ call' = [call EXCEPT ![c] = Idle]
  BY DEF ItemDone, BatchFails, database, topics, LockKept
<1>2. AckedIsAccounted'
  BY <1>1 DEF EmroInv, AckedIsAccounted, Recorded
<1>3. /\ call' \in [Process -> CallRecord] /\ \A q \in Process \ {c} : call'[q] = call[q]
      /\ call'[c].phase = "idle" /\ CallFits(c, call[c])'
  BY <1>0, <1>1, IdleFields
<1>4. /\ delivery[c].phase = "rows" /\ delivery[c].msg \in Message
      /\ Len(delivery[c].response) < Len(delivery[c].msg)
      /\ call[c].key = Key(delivery[c].msg[Len(delivery[c].response) + 1], 0)
      /\ Accounted(delivery[c].msg, delivery[c].response)
      /\ delivery[c].response \in Seq(Outcome)
      /\ call[c].result \in Outcome \cup {"infrastructure"}
      /\ call[c].result \in {"accepted", "duplicate"} => Recorded(call[c].key)
  BY <1>0, <1>1 DEF DeliveryFits, CallFits, DeliveryRecord
<1>5. delivery[c].msg \in Seq(Row)
  BY <1>4, EmroAssumption
<1>6. CASE ItemDone(c)
  <2>. DEFINE old == delivery[c].response
              new == Append(old, call[c].result)
  <2>1. /\ call[c].result \in Outcome
        /\ delivery' = [delivery EXCEPT ![c].response = new]
    BY <1>4, <1>6 DEF ItemDone
  <2>2. /\ new \in Seq(Outcome) /\ Len(new) = Len(old) + 1
        /\ \A i \in 1..Len(old) : new[i] = old[i]
        /\ new[Len(old) + 1] = call[c].result /\ DOMAIN new = 1..(Len(old) + 1)
        /\ DOMAIN old = 1..Len(old) /\ Len(old) \in Nat /\ Len(delivery[c].msg) \in Nat
    BY <1>4, <1>5, <2>1, AppendProperties, LenProperties
  <2>. HIDE DEF new
  <2>3. /\ delivery' \in [Consumer -> DeliveryRecord]
        /\ \A d \in Consumer \ {c} : delivery'[d] = delivery[d]
        /\ delivery'[c].phase = "rows" /\ delivery'[c].msg = delivery[c].msg
        /\ delivery'[c].response = new
    BY <1>0, <1>4, <2>1, <2>2 DEF DeliveryRecord
  <2>4. Len(new) <= Len(delivery[c].msg)
    BY <1>4, <2>2
  <2>5. Accounted(delivery[c].msg, new)
    <3>1. ASSUME NEW n \in DOMAIN new
          PROVE  new[n] \in {"rejected", "error"} \/ Recorded(Key(delivery[c].msg[n], 0))
      <4>1. CASE n \in DOMAIN old
        BY <1>4, <2>2, <4>1 DEF Accounted
      <4>2. CASE n = Len(old) + 1
        BY <1>4, <2>1, <2>2, <4>2 DEF Outcome
      <4>. QED  BY <2>2, <4>1, <4>2
    <3>. QED  BY <3>1 DEF Accounted
  <2>6. DeliveryFits(delivery[c], call[c])'
    BY <1>1, <1>3, <1>4, <2>3, <2>4, <2>5 DEF DeliveryFits, Accounted, Recorded
  <2>. QED  BY <1>0, <1>1, <1>2, <1>3, <2>3, <2>6, DeliveryStep
<1>7. CASE BatchFails(c)
  <2>1. Restarts(c) \/ GivesUp(c)
    BY <1>7 DEF BatchFails, Restarts, GivesUp
  <2>2. /\ delivery' \in [Consumer -> DeliveryRecord]
        /\ \A d \in Consumer \ {c} : delivery'[d] = delivery[d]
        /\ delivery'[c].phase \in {delivery[c].phase, "exhausted"}
        /\ delivery'[c].msg = delivery[c].msg /\ delivery'[c].response = <<>>
    BY <1>0, <2>1, FailedFields
  <2>3. Len(<<>>) <= Len(delivery[c].msg)
    BY <1>5, NoAnswers, LenProperties
  <2>4. DeliveryFits(delivery[c], call[c])'
    BY <1>3, <1>4, <2>2, <2>3, NoAnswers DEF DeliveryFits, Accounted
  <2>. QED  BY <1>0, <1>1, <1>2, <1>3, <2>2, <2>4, DeliveryStep
<1>. QED  BY <1>6, <1>7

\* A message is let go of with all its rows accounted for, or comes again.
LEMMA ReleaseInv ==
    ASSUME EmroInv, NEW c \in Consumer,
           SendResult(c) \/ SendToDlq(c) \/ DlqFails(c) \/ Crash(c)
    PROVE  EmroInv'
<1>0. /\ c \in Process /\ call \in [Process -> CallRecord] /\ EmroTypeOK
      /\ delivery \in [Consumer -> DeliveryRecord]
      /\ DeliveryFits(delivery[c], call[c]) /\ CallFits(c, call[c]) /\ AckedIsAccounted
  BY DEF Process, EmroInv, EmroTypeOK
<1>1. /\ UNCHANGED <<level, ledger, orders>>
      /\ delivery' = [delivery EXCEPT ![c] = NoDelivery]
  BY DEF SendResult, SendToDlq, DlqFails, Crash, Ack, database
<1>2. /\ call' \in [Process -> CallRecord] /\ \A q \in Process \ {c} : call'[q] = call[q]
      /\ call'[c].phase = "idle" /\ CallFits(c, call[c])' /\ LockKept(c)
  <2>1. CASE Crash(c)
    <3>1. call' = [call EXCEPT ![c] = Idle] /\ LockKept(c)
      BY <2>1 DEF Crash, Release, LockKept
    <3>. QED  BY <1>0, <3>1, IdleFields
  <2>2. CASE SendResult(c) \/ SendToDlq(c) \/ DlqFails(c)
    <3>1. /\ call' = call /\ LockKept(c)
          /\ Answered(c) \/ delivery[c].phase = "exhausted"
      BY <2>2 DEF SendResult, SendToDlq, DlqFails, database, LockKept
    <3>2. call[c].phase = "idle"
      <4>1. delivery[c].response \in Seq(Outcome) /\ Len(delivery[c].response) \in Nat
        BY <1>0, LenProperties DEF DeliveryRecord
      <4>. QED  BY <1>0, <3>1, <4>1 DEF DeliveryFits, Answered
    <3>. QED  BY <1>0, <3>1, <3>2 DEF CallFits
  <2>. QED  BY <2>1, <2>2
<1>3. /\ delivery' \in [Consumer -> DeliveryRecord]
      /\ \A d \in Consumer \ {c} : delivery'[d] = delivery[d]
      /\ DeliveryFits(delivery[c], call[c])'
  BY <1>0, <1>1, <1>2, DroppedFields
<1>4. AckedIsAccounted'
  <2>1. CASE DlqFails(c) \/ Crash(c)
    BY <1>0, <1>1, <2>1 DEF DlqFails, Crash, topics, AckedIsAccounted, Recorded
  <2>2. CASE SendResult(c) \/ SendToDlq(c)
    <3>. DEFINE m == delivery[c].msg
                body == delivery[c].response
    <3>1. /\ acked' = acked \cup {m} /\ results \subseteq results' /\ dlq \subseteq dlq'
          /\ Emitted(c) \in results' \cup dlq'
          /\ \/ Answered(c)
             \/ delivery[c].phase = "exhausted" /\ Emitted(c) \in dlq'
      BY <2>2 DEF SendResult, SendToDlq, Ack
    <3>2. Emitted(c).msg = m /\ Emitted(c).body = body
      BY DEF Emitted
    <3>3. CASE Answered(c)
      <4>1. /\ m \in Message /\ Len(body) = Len(m) /\ Accounted(m, body)
            /\ body \in Seq(Outcome) /\ m \in Seq(Row)
        BY <1>0, <3>3, EmroAssumption DEF Answered, DeliveryFits, DeliveryRecord
      <4>2. DOMAIN m = DOMAIN body
        BY <4>1, LenProperties
      <4>3. \A n \in DOMAIN m : body[n] \in {"rejected", "error"} \/ Recorded(Key(m[n], 0))
        BY <4>1, <4>2 DEF Accounted
      <4>. QED  BY <1>0, <1>1, <3>1, <3>2, <4>3 DEF AckedIsAccounted, Recorded
    <3>4. CASE delivery[c].phase = "exhausted" /\ Emitted(c) \in dlq'
      <4>1. body = <<>>
        BY <1>0, <3>4 DEF DeliveryFits
      <4>. QED  BY <1>0, <1>1, <3>1, <3>2, <3>4, <4>1 DEF AckedIsAccounted, Recorded
    <3>. QED  BY <3>1, <3>3, <3>4
  <2>. QED  BY <2>1, <2>2
<1>. QED  BY <1>1, <1>2, <1>3, <1>4, DeliveryStep

-----------------------------------------------------------------------------
(* The whole service                                                         *)

\* Another eMRO user writes the levels.
LEMMA EditInv == EmroInv /\ EditLevel => EmroInv'
<1>. SUFFICES ASSUME EmroInv, EditLevel PROVE EmroInv'
  OBVIOUS
<1>1. /\ UNCHANGED <<lock, ledger, orders, call, delivery, acked, results, dlq>>
      /\ level' = Edited /\ Written' = Written
  BY DEF EditLevel, topics, Written
<1>2. EmroTypeOK'
  BY <1>1 DEF EmroInv, EmroTypeOK, LevelValue
<1>3. LevelsFollowLedger'
  BY <1>1 DEF EmroInv, LevelsFollowLedger
<1>4. /\ LedgerFilled' /\ ChainIsWhole' /\ OneOrderPerKey' /\ AckedIsAccounted'
  BY <1>1 DEF EmroInv, LedgerFilled, Versions, ChainIsWhole, OneOrderPerKey,
              AckedIsAccounted, Recorded
<1>5. \A p \in Process : CallFits(p, call[p])'
  BY <1>1 DEF EmroInv, CallFits, Follows, Recorded
<1>6. \A c \in Consumer : DeliveryFits(delivery[c], call[c])'
  BY <1>1 DEF EmroInv, DeliveryFits, Accounted, Recorded
<1>. QED  BY <1>2, <1>3, <1>4, <1>5, <1>6 DEF EmroInv

\* What the invariant is about, left alone.
LEMMA SteadyInv ==
    EmroInv /\ UNCHANGED <<database, call, delivery, topics>> => EmroInv'
<1>. SUFFICES ASSUME EmroInv, UNCHANGED <<database, call, delivery, topics>> PROVE EmroInv'
  OBVIOUS
<1>1. /\ UNCHANGED <<level, lock, ledger, orders, call, delivery, acked, results, dlq>>
      /\ Written' = Written
  BY DEF database, topics, Written
<1>2. /\ EmroTypeOK' /\ LedgerFilled' /\ ChainIsWhole' /\ OneOrderPerKey'
      /\ LevelsFollowLedger' /\ AckedIsAccounted'
  BY <1>1 DEF EmroInv, EmroTypeOK, LedgerFilled, Versions, ChainIsWhole, OneOrderPerKey,
              LevelsFollowLedger, AckedIsAccounted, Recorded
<1>3. \A p \in Process : CallFits(p, call[p])'
  BY <1>1 DEF EmroInv, CallFits, Follows, Recorded
<1>4. \A c \in Consumer : DeliveryFits(delivery[c], call[c])'
  BY <1>1 DEF EmroInv, DeliveryFits, Accounted, Recorded
<1>. QED  BY <1>2, <1>3, <1>4 DEF EmroInv

\* EmroInv holds in every state the service reaches.
THEOREM EmroInvariance == EmroSpec => []EmroInv
<1>1. EmroInv /\ [EmroNext]_emroVars => EmroInv'
  <2>. SUFFICES ASSUME EmroInv, [EmroNext]_emroVars PROVE EmroInv'
    OBVIOUS
  <2>1. ASSUME NEW p \in Process, WriteStep(p) PROVE EmroInv'
    <3>1. Pipeline(p) /\ UNCHANGED <<delivery, topics>>
      BY <2>1 DEF WriteStep
    <3>. QED  BY <3>1, CommitInv, UncommittedInv
  <2>2. ASSUME NEW c \in Consumer, ConsumerStep(c) PROVE EmroInv'
    BY <2>2, HandInv, ReturnInv, ReleaseInv DEF ConsumerStep
  <2>3. ASSUME NEW r \in Client, ClientStep(r) PROVE EmroInv'
    BY <2>3, ClientInv
  <2>4. CASE EditLevel
    BY <2>4, EditInv
  <2>5. CASE Deactivate
    BY <2>5, SteadyInv DEF Deactivate
  <2>6. CASE UNCHANGED emroVars
    BY <2>6, SteadyInv DEF emroVars
  <2>. QED  BY <2>1, <2>2, <2>3, <2>4, <2>5, <2>6 DEF EmroNext
<1>. QED  BY <1>1, InitEmro, PTL DEF EmroSpec

\* However the writes of the four kinds overlap, the versions of a key are 1, 2,
\* 3 ... and each entry's parent is the one before it.
THEOREM ContiguousChain == EmroSpec => []ChainIsWhole
<1>1. EmroInv => ChainIsWhole
  BY DEF EmroInv
<1>. QED  BY <1>1, EmroInvariance, PTL

\* However often a row is sent or tried, one order is created for it, with its
\* ledger entry.
THEOREM OrdersOnce == EmroSpec => []OneOrderPerKey
<1>1. EmroInv => OneOrderPerKey
  BY DEF EmroInv
<1>. QED  BY <1>1, EmroInvariance, PTL

\* No write undoes another one unseen: an entry's old levels are those the entry
\* before it wrote, or an eMRO user's.
THEOREM LevelsTold == EmroSpec => []LevelsFollowLedger
<1>1. EmroInv => LevelsFollowLedger
  BY DEF EmroInv
<1>. QED  BY <1>1, EmroInvariance, PTL

\* No message is let go of with a row that is neither written, nor answered with
\* a refusal, nor in the dead-letter topic.
THEOREM NothingDropped == EmroSpec => []AckedIsAccounted
<1>1. EmroInv => AckedIsAccounted
  BY DEF EmroInv
<1>. QED  BY <1>1, EmroInvariance, PTL
=============================================================================
