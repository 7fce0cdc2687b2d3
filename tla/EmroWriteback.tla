---------------------------- MODULE EmroWriteback ----------------------------
(***************************************************************************)
(* emro-writeback-java: the service that writes recommendations into the   *)
(* customer's eMRO database, for one (tenant, part, location).  Three      *)
(* facades share one pipeline: the Kafka consumer, the REST endpoints and  *)
(* the rollback.  A row to write is a stock level (live or shadow), a      *)
(* requisition or a transfer; all of them extend one chain of versions in  *)
(* WRITEBACK_LEDGER.                                                       *)
(*                                                                         *)
(* A transaction is READ COMMITTED, one action per statement that another  *)
(* transaction can come between.  The levels of a row stand for the row.   *)
(***************************************************************************)
EXTENDS Naturals, Sequences, FiniteSets

CONSTANTS Consumer,       \* Kafka consumers of writeback-in
          Client,         \* threads that serve a REST request
          LevelRow,       \* stock levels to write
          ShadowRow,      \* stock levels of an onboarding tenant
          RequisitionRow, \* requisitions to create
          TransferRow,    \* transfers out of the location to create
          BadRow,         \* rows whose numbers or locations are refused
          Message,        \* batches on the topic: sequences of rows
          RestRow,        \* rows that are (also) sent to the REST endpoints
          MaxConflicts,   \* MAX_VERSION_CONFLICT_ATTEMPTS, 3
          MaxCollisions,  \* MAX_AUDIT_PK_COLLISION_ATTEMPTS, 3
          MaxAttempts,    \* MAX_ATTEMPTS at a batch, 3
          MaxRollback,    \* bound on rollbacks of rollbacks
          MaxRequests,    \* bound on the requests of a client
          None, Edited    \* no levels; levels another eMRO user typed in

VARIABLES eligible, \* the ends of a transfer where the part is active and stocked
          level,    \* the row of PN_INVENTORY_LEVEL
          lock,     \* the transaction that holds that row
          ledger,   \* WRITEBACK_LEDGER
          orders,   \* requisition and order headers
          call,     \* what each thread is doing in the write pipeline
          delivery, \* the message each consumer is on
          requests, \* how many requests each client made
          acked,    \* messages the broker will not deliver again
          results,  \* topic writeback-results
          dlq       \* topic writeback-dlq

database == <<level, lock, ledger, orders>>
topics   == <<acked, results, dlq>>
emroVars == <<eligible, database, call, delivery, requests, topics>>

Process == Consumer \cup Client
Order   == RequisitionRow \cup TransferRow
Row     == LevelRow \cup ShadowRow \cup Order

ASSUME EmroAssumption ==
    /\ Consumer \cap Client = {} /\ None \notin Process
    /\ LevelRow \cap (ShadowRow \cup Order) = {} /\ ShadowRow \cap Order = {}
    /\ None \notin Row \cup {Edited}
    /\ Message \subseteq Seq(Row)
    /\ MaxRollback \in Nat

\* Provenance.idempotencyKey: of the row itself, or with "rollback:" before it
\* once for every time it was rolled back.
Key(row, depth) == <<row, depth>>

Idle == [phase |-> "idle", key |-> <<None, 0>>, value |-> None, old |-> None, version |-> 0,
         conflicts |-> 0, collisions |-> 0, result |-> None]

NoDelivery == [phase |-> "idle", msg |-> <<>>, attempt |-> 0, response |-> <<>>]

EmroInit ==
    /\ eligible = {"here", "destination"}
    /\ level \in {None, Edited}
    /\ lock = None
    /\ ledger = {} /\ orders = {}
    /\ call = [p \in Process |-> Idle]
    /\ delivery = [c \in Consumer |-> NoDelivery]
    /\ requests = [r \in Client |-> 0]
    /\ acked = {} /\ results = {} /\ dlq = {}

-----------------------------------------------------------------------------
(* The ledger                                                                *)

RowOf(p) == call[p].key[1]
Domain(row) == CASE row \in RequisitionRow -> "REQUISITION"
                 [] row \in TransferRow -> "TRANSFER"
                 [] OTHER -> "STOCK_LEVEL"
Live(p) == RowOf(p) \in LevelRow

\* findByIdempotencyKey: one key for all three kinds of rows.
Recorded(key) == \E e \in ledger : e.key = key

\* maxVersion: over all kinds of rows.
LatestVersion ==
    IF ledger = {} THEN 0
    ELSE (CHOOSE e \in ledger : \A f \in ledger : f.version <= e.version).version

Written == {e \in ledger : e.domain = "STOCK_LEVEL" /\ e.outcome = "WRITTEN"}

\* The last entry among `entries`, where there is one.
Last(entries) == CHOOSE e \in entries : \A f \in entries : f.version <= e.version

-----------------------------------------------------------------------------
(* StockLevelWriter.writeItem, RequisitionCreator.create and                 *)
(* TransferCreator.create: one transaction                                   *)

Steps(p, from, to) == call[p].phase = from /\ call' = [call EXCEPT ![p].phase = to]

\* The call returns a result, or raises an InfrastructureException.
Result(p, result) == [call EXCEPT ![p].phase = "done", ![p].result = result]

Release(p) == lock' = IF lock = p THEN None ELSE lock

\* validate, of each kind of row: the part is active and the location holds
\* inventory, for a transfer the one it goes to as well, and the numbers are right.
LevelRefused(row) == row \in LevelRow \cup ShadowRow /\ ("here" \notin eligible \/ row \in BadRow)
RequisitionRefused(row) == row \in RequisitionRow /\ ("here" \notin eligible \/ row \in BadRow)
TransferRefused(row) ==
    row \in TransferRow /\ (eligible # {"here", "destination"} \/ row \in BadRow)

Refused(row) == LevelRefused(row) \/ RequisitionRefused(row) \/ TransferRefused(row)

Reject(p) ==
    /\ call[p].phase = "start"
    /\ Refused(RowOf(p))
    /\ call' = Result(p, "rejected")
    /\ UNCHANGED database

\* A key in the ledger: the answer of the write that put it there.
SkipDuplicate(p) ==
    /\ call[p].phase = "start"
    /\ ~Refused(RowOf(p))
    /\ Recorded(call[p].key)
    /\ call' = Result(p, "duplicate")
    /\ UNCHANGED database

NotRecorded(p) ==
    /\ ~Refused(RowOf(p))
    /\ ~Recorded(call[p].key)
    /\ Steps(p, "start", "fresh")
    /\ UNCHANGED database

\* Fault: findLevel in place of findLevelForUpdate.
ReadUnlocked(p) ==
    /\ call[p].phase = "fresh"
    /\ RowOf(p) \in LevelRow \cup ShadowRow
    /\ call' = [call EXCEPT ![p].phase = "read", ![p].old = level]
    /\ UNCHANGED database

\* findLevelForUpdate waits for the row, where there is one; where there is none
\* there is nothing to lock.
ReadLevel(p) ==
    /\ call[p].phase = "fresh"
    /\ RowOf(p) \in LevelRow \cup ShadowRow
    /\ \/ level = None /\ UNCHANGED lock
       \/ level # None /\ lock = None /\ lock' = p
    /\ call' = [call EXCEPT ![p].phase = "read", ![p].old = level]
    /\ UNCHANGED <<level, ledger, orders>>

\* A shadow write leaves the row alone.
PassOver(p) ==
    /\ RowOf(p) \in ShadowRow
    /\ Steps(p, "read", "stored")
    /\ UNCHANGED database

\* The levels and their audit row are flushed, and seen by others at the commit.
\* The insert of a row that was not there waits for another one.
StoreLevel(p) ==
    /\ Live(p)
    /\ lock \in {None, p}
    /\ call[p].old = None => level = None
    /\ Steps(p, "read", "stored")
    /\ lock' = p
    /\ UNCHANGED <<level, ledger, orders>>

\* Fault: the header is inserted in a transaction of its own.
CommitHeader(p) ==
    /\ RowOf(p) \in RequisitionRow
    /\ Steps(p, "fresh", "stored")
    /\ orders' = orders \cup {[number |-> Cardinality(orders) + 1, key |-> call[p].key]}
    /\ UNCHANGED <<level, lock, ledger>>

\* Header, line and audit rows of a requisition, under a number of their own.
CreateRequisition(p) ==
    /\ RowOf(p) \in RequisitionRow
    /\ Steps(p, "fresh", "stored")
    /\ UNCHANGED database

CreateTransfer(p) ==
    /\ RowOf(p) \in TransferRow
    /\ Steps(p, "fresh", "stored")
    /\ UNCHANGED database

ReadVersion(p) ==
    /\ call[p].phase = "stored"
    /\ call' = [call EXCEPT ![p].phase = "versioned", ![p].version = LatestVersion + 1]
    /\ UNCHANGED database

VersionTaken(p) == \E e \in ledger : e.version = call[p].version

EntryOf(p) ==
    [key |-> call[p].key, domain |-> Domain(RowOf(p)), version |-> call[p].version,
     parent |-> call[p].version - 1, old |-> call[p].old, new |-> call[p].value,
     outcome |-> IF RowOf(p) \in ShadowRow THEN "SHADOWED" ELSE "WRITTEN"]

Committed(p) ==
    /\ ledger' = ledger \cup {EntryOf(p)}
    /\ level' = IF Live(p) THEN call[p].value ELSE level
    /\ orders' = IF RowOf(p) \in Order
                 THEN orders \cup {[number |-> Cardinality(orders) + 1, key |-> call[p].key]}
                 ELSE orders
    /\ Release(p)

\* Fault: WRITEBACK_LEDGER as V1 of the schema left it, without
\* UQ_WRITEBACK_KEY_VERSION.
CommitAnyVersion(p) ==
    /\ call[p].phase = "versioned"
    /\ ~Recorded(call[p].key)
    /\ Committed(p)
    /\ \/ call' = Result(p, "accepted")
       \/ call' = Result(p, "infrastructure")

\* The ledger row is inserted and all is committed.  The connection may fail
\* before the service hears of it.
Commit(p) ==
    /\ call[p].phase = "versioned"
    /\ ~Recorded(call[p].key)
    /\ ~VersionTaken(p)
    /\ Committed(p)
    /\ \/ call' = Result(p, "accepted")
       \/ call' = Result(p, "infrastructure")

-----------------------------------------------------------------------------
(* writeItemDedup and createDedup: what becomes of a failed transaction      *)

RolledBack(p) == Release(p) /\ UNCHANGED <<level, ledger, orders>>

\* UQ_WRITEBACK_IDEMPOTENCY: the row of the winner is read in a new transaction.
LoseToDuplicate(p) ==
    /\ call[p].phase = "versioned"
    /\ Recorded(call[p].key)
    /\ call' = Result(p, "duplicate")
    /\ RolledBack(p)

Retry(p, counter, max) ==
    call' = IF call[p][counter] + 1 < max
            THEN [call EXCEPT ![p].phase = "start", ![p][counter] = @ + 1, ![p].old = None]
            ELSE Result(p, "error")

\* UQ_WRITEBACK_KEY_VERSION, or the insert of a level row someone else inserted.
Conflict(p) ==
    /\ \/ call[p].phase = "versioned" /\ VersionTaken(p)
       \/ call[p].phase = "read" /\ Live(p) /\ call[p].old = None /\ level # None
    /\ Retry(p, "conflicts", MaxConflicts)
    /\ RolledBack(p)

\* A second level written within a second by the same principal: the key of the
\* audit row is taken.
AuditCollision(p) ==
    /\ call[p].phase = "read" /\ Live(p) /\ lock \in {None, p}
    /\ Written # {}
    /\ Retry(p, "collisions", MaxCollisions)
    /\ RolledBack(p)

\* isInfrastructureFailure: not retried here.
Disconnect(p) ==
    /\ call[p].phase \notin {"idle", "done"}
    /\ call' = Result(p, "infrastructure")
    /\ RolledBack(p)

Pipeline(p) ==
    \/ Reject(p) \/ SkipDuplicate(p) \/ NotRecorded(p)
    \/ ReadLevel(p) \/ PassOver(p) \/ StoreLevel(p)
    \/ CreateRequisition(p) \/ CreateTransfer(p)
    \/ ReadVersion(p) \/ Commit(p)
    \/ LoseToDuplicate(p) \/ Conflict(p) \/ AuditCollision(p) \/ Disconnect(p)

WriteStep(p) == Pipeline(p) /\ UNCHANGED <<eligible, delivery, requests, topics>>

Begin(p, row, depth, value) ==
    call' = [call EXCEPT ![p] = [Idle EXCEPT !.phase = "start", !.key = Key(row, depth),
                                             !.value = value]]

-----------------------------------------------------------------------------
(* WritebackConsumer and the batch processors                                *)

\* After a rebalance a message can be with two consumers.
Deliver(c, msg) ==
    /\ delivery[c].phase = "idle"
    /\ msg \notin acked
    /\ delivery' = [delivery EXCEPT ![c] = [NoDelivery EXCEPT !.phase = "rows", !.msg = msg,
                                                              !.attempt = 1]]
    /\ UNCHANGED <<eligible, requests, database, call, topics>>

\* processItem: the rows of the batch one by one.
ProcessItem(c) ==
    LET next == Len(delivery[c].response) + 1
    IN  /\ delivery[c].phase = "rows"
        /\ call[c].phase = "idle"
        /\ next <= Len(delivery[c].msg)
        /\ LET row == delivery[c].msg[next] IN Begin(c, row, 0, row)
        /\ UNCHANGED <<eligible, requests, database, delivery, topics>>

ItemDone(c) ==
    /\ call[c].phase = "done"
    /\ call[c].result # "infrastructure"
    /\ delivery' = [delivery EXCEPT ![c].response = Append(@, call[c].result)]
    /\ call' = [call EXCEPT ![c] = Idle]
    /\ UNCHANGED <<eligible, requests, database, topics>>

\* processWithRetry: an InfrastructureException starts the whole batch again; the
\* third one gives it up.
BatchFails(c) ==
    /\ call[c].phase = "done"
    /\ call[c].result = "infrastructure"
    /\ delivery' = IF delivery[c].attempt < MaxAttempts
                   THEN [delivery EXCEPT ![c].attempt = @ + 1, ![c].response = <<>>]
                   ELSE [delivery EXCEPT ![c].phase = "exhausted", ![c].response = <<>>]
    /\ call' = [call EXCEPT ![c] = Idle]
    /\ UNCHANGED <<eligible, requests, database, topics>>

Answered(c) ==
    /\ delivery[c].phase = "rows"
    /\ Len(delivery[c].response) = Len(delivery[c].msg)

Ack(c) ==
    /\ acked' = acked \cup {delivery[c].msg}
    /\ delivery' = [delivery EXCEPT ![c] = NoDelivery]

\* `body` is the response, or <<>> for the payload as it came.
Emitted(c) == [msg |-> delivery[c].msg, body |-> delivery[c].response]

\* sendResult
SendResult(c) ==
    /\ Answered(c)
    /\ results' = results \cup {Emitted(c)}
    /\ Ack(c)
    /\ UNCHANGED <<eligible, requests, database, call, dlq>>

\* The results topic refuses the response three times, or is thought to have.
SendToDlq(c) ==
    /\ Answered(c) \/ delivery[c].phase = "exhausted"
    /\ dlq' = dlq \cup {Emitted(c)}
    /\ results' \in {results} \cup (IF Answered(c) THEN {results \cup {Emitted(c)}} ELSE {})
    /\ Ack(c)
    /\ UNCHANGED <<eligible, requests, database, call>>

\* Fault: the failure is logged and swallowed.
DlqFailsQuietly(c) ==
    /\ Answered(c) \/ delivery[c].phase = "exhausted"
    /\ Ack(c)
    /\ UNCHANGED <<eligible, requests, database, call, results, dlq>>

\* The dead-letter topic fails too: the message is nacked and comes again.
DlqFails(c) ==
    /\ Answered(c) \/ delivery[c].phase = "exhausted"
    /\ delivery' = [delivery EXCEPT ![c] = NoDelivery]
    /\ UNCHANGED <<eligible, requests, database, call, topics>>

\* The process of a consumer dies; its transaction rolls back.
Crash(c) ==
    /\ delivery[c].phase # "idle"
    /\ delivery' = [delivery EXCEPT ![c] = NoDelivery]
    /\ call' = [call EXCEPT ![c] = Idle]
    /\ Release(c)
    /\ UNCHANGED <<eligible, requests, level, ledger, orders, topics>>

-----------------------------------------------------------------------------
(* The REST endpoints                                                        *)

Asks(r) ==
    /\ requests[r] < MaxRequests
    /\ requests' = [requests EXCEPT ![r] = @ + 1]
    /\ UNCHANGED <<eligible, database, delivery, topics>>

Request(r, row) ==
    /\ call[r].phase = "idle"
    /\ Begin(r, row, 0, row)
    /\ Asks(r)

\* A request may be repeated, and may name a row that is on the topic too.
Apply(r) == \E row \in RestRow \cap (LevelRow \cup ShadowRow) : Request(r, row)
PostRequisition(r) == \E row \in RestRow \cap RequisitionRow : Request(r, row)
PostTransfer(r) == \E row \in RestRow \cap TransferRow : Request(r, row)

\* RollbackService.rollback: what is reverted is looked up before the write and
\* outside its transaction.
Rollback(r) ==
    /\ call[r].phase = "idle"
    /\ Written # {}
    /\ LET reverted == Last(Written) IN
         /\ reverted.old # None
         /\ reverted.key[2] < MaxRollback
         /\ Begin(r, reverted.key[1], reverted.key[2] + 1, reverted.old)
    /\ Asks(r)

\* Every exception is an answer of its own here.
Respond(r) ==
    /\ call[r].phase = "done"
    /\ call' = [call EXCEPT ![r] = Idle]
    /\ UNCHANGED <<eligible, database, delivery, requests, topics>>

-----------------------------------------------------------------------------
(* eMRO's own users                                                          *)

EditLevel ==
    /\ lock = None
    /\ level' = Edited
    /\ UNCHANGED <<eligible, lock, ledger, orders, call, delivery, requests, topics>>

Deactivate ==
    /\ \E end \in eligible : eligible' = eligible \ {end}
    /\ UNCHANGED <<database, call, delivery, requests, topics>>

ConsumerStep(c) ==
    \/ \E msg \in Message : Deliver(c, msg)
    \/ ProcessItem(c) \/ ItemDone(c) \/ BatchFails(c)
    \/ SendResult(c) \/ SendToDlq(c) \/ DlqFails(c) \/ Crash(c)

ClientStep(r) ==
    Apply(r) \/ PostRequisition(r) \/ PostTransfer(r) \/ Rollback(r) \/ Respond(r)

EmroNext ==
    \/ \E p \in Process : WriteStep(p)
    \/ \E c \in Consumer : ConsumerStep(c)
    \/ \E r \in Client : ClientStep(r)
    \/ EditLevel \/ Deactivate

EmroSpec == EmroInit /\ [][EmroNext]_emroVars

-----------------------------------------------------------------------------
(* Properties                                                                *)

\* However live, shadow, requisition and transfer writes overlap, the versions of
\* the key are 1, 2, 3 ... and each entry's parent is the one before it (decision
\* D10: one chain for all of them, though requisitions and transfers take no lock).
ChainIsWhole ==
    \A e \in ledger : /\ e.version \in 1..Cardinality(ledger)
                      /\ e.parent = e.version - 1
                      /\ \A f \in ledger : f.version = e.version => f = e

\* However often a row is sent, retried after a lost commit or delivered again,
\* one requisition or transfer is created for it, and it is in the ledger
\* ("effectively-once", RunResultsResource.java:52).
OneOrderPerKey ==
    /\ \A e, f \in ledger : e.key = f.key => e = f
    /\ \A o \in orders : /\ \A n \in orders : o.key = n.key => o = n
                         /\ \E e \in ledger : e.key = o.key

\* The values an entry replaced are those the write before it left, unless an
\* eMRO user changed them in between: no write of this service undoes another
\* one unseen.  This is what a rollback goes back to.
LevelsFollowLedger ==
    /\ \A e \in Written :
          LET earlier == {f \in Written : f.version < e.version}
          IN  earlier # {} => e.old \in {Last(earlier).new, Edited}
    /\ Written # {} => level \in {Last(Written).new, Edited}

\* Of a message the broker has let go, every row is in the ledger, or was refused
\* or failed in a response someone can read, or is in the dead-letter topic ("a
\* deliberate no-silent-drop choice", WritebackConsumer.java:83).
AckedIsAccounted ==
    \A msg \in acked :
        \/ \E r \in dlq : r.msg = msg /\ r.body = <<>>
        \/ \E r \in results \cup dlq :
              /\ r.msg = msg
              /\ \A n \in DOMAIN msg : r.body[n] \in {"rejected", "error"}
                                          \/ Recorded(Key(msg[n], 0))

\* "reverts the latest WRITTEN ledger entry" (RollbackService.java:21): when a
\* rollback is written, what it reverts is the last written entry before it.
RollbackRevertsLatest ==
    \A e \in Written :
        e.key[2] > 0 => Last({f \in Written : f.version < e.version}).key
                           = Key(e.key[1], e.key[2] - 1)
=============================================================================
