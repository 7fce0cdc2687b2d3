--------------------------- MODULE WritebackLedger ---------------------------
(***************************************************************************)
(* PgWritebackTarget (pg/writeback.py): the audited writeback target kept  *)
(* in the writeback_ledger table, for one (tenant, part, location).  The   *)
(* current levels are not stored: they are the new values of the latest    *)
(* written entry.                                                          *)
(*                                                                         *)
(* A call is one READ COMMITTED transaction of several statements, and     *)
(* each of them is an action: it sees what was committed when it runs.     *)
(* Nothing but the primary key (tenant, part, location, version) stands    *)
(* between two calls.  A write is named by its idempotency key, which also *)
(* stands for the levels it writes.                                        *)
(***************************************************************************)
EXTENDS Naturals, FiniteSets

CONSTANTS Caller,     \* threads of the web server that may be inside a call
          Key,        \* idempotency keys of live writes
          ShadowKey,  \* idempotency keys of shadow writes
          MaxVersion, \* bound on the number of entries
          None        \* SQL null

ASSUME KeyAssumption == None \notin Key /\ None \notin ShadowKey
ASSUME MaxVersionAssumption == MaxVersion \in Nat

VARIABLES ledger,  \* the rows of writeback_ledger
          call     \* what each caller's open transaction has read so far

ledgerVars == <<ledger, call>>

Level       == Key \cup ShadowKey
WriteStatus == {"written", "shadowed"}

\* `idem` is None in the entry of a rollback, whose key is made up for it, and
\* `old` where the levels were never set; `parent` is 0 for none.  `by` tells the
\* entries of these calls from those an upload seeds (changed_by_principal).
Entry == [version : 1..MaxVersion, status : WriteStatus, idem : Level \cup {None},
          old : Level \cup {None}, new : Level, parent : 0..MaxVersion,
          by : {"caller", "seed"}]

\* A transaction that has read nothing, has found its key unused, has read the
\* levels it replaces, has read the version that is next.
CallPhase == {"idle", "started", "unseen", "read", "versioned"}
Call == [phase : CallPhase, status : WriteStatus, idem : Level \cup {None},
         old : Level \cup {None}, new : Level \cup {None},
         version : 0..MaxVersion, parent : 0..MaxVersion]
NoCall == [phase |-> "idle", status |-> "written", idem |-> None, old |-> None,
           new |-> None, version |-> 0, parent |-> 0]

LedgerTypeOK ==
    /\ ledger \in SUBSET Entry
    /\ call \in [Caller -> Call]

LedgerInit ==
    /\ ledger = {}
    /\ call = [c \in Caller |-> NoCall]

-----------------------------------------------------------------------------

\* Fault: a shadow entry counts as a change of the levels.
AnyEntry == ledger

Written == {e \in ledger : e.status = "written"}

\* The latest written entry among `entries`, where there is one.
Latest(entries) == CHOOSE e \in entries : \A f \in entries : f.version <= e.version

LatestVersion == IF Written = {} THEN 0 ELSE Latest(Written).version

\* _current_levels
CurrentLevels == IF Written = {} THEN None ELSE Latest(Written).new

Recorded(k) == \E e \in ledger : e.idem = k

-----------------------------------------------------------------------------
(* write and rollback, statement by statement                                *)

StartWrite(c, k) ==
    /\ call[c].phase = "idle"
    /\ call' = [call EXCEPT ![c] =
          [phase |-> "started", status |-> IF k \in ShadowKey THEN "shadowed" ELSE "written",
           idem |-> k, old |-> None, new |-> k, version |-> 0, parent |-> 0]]
    /\ UNCHANGED ledger

EndCall(c) == call' = [call EXCEPT ![c] = NoCall]

\* _replay: the result of a key that is in the ledger is returned again.
Replay(c) ==
    /\ call[c].phase = "started"
    /\ Recorded(call[c].idem)
    /\ EndCall(c)
    /\ UNCHANGED ledger

\* _replay finds nothing.
NotRecorded(c) ==
    /\ call[c].phase = "started"
    /\ ~Recorded(call[c].idem)
    /\ call' = [call EXCEPT ![c].phase = "unseen"]
    /\ UNCHANGED ledger

\* An open order for the key defers a live write.
DeferForOpenOrder(c) ==
    /\ call[c].phase = "unseen"
    /\ call[c].status = "written"
    /\ EndCall(c)
    /\ UNCHANGED ledger

ReadLevels(c) ==
    /\ call[c].phase = "unseen"
    /\ call' = [call EXCEPT ![c].phase = "read", ![c].old = CurrentLevels]
    /\ UNCHANGED ledger

\* A rollback restores what the latest written entry replaced.  It is refused,
\* with no effect, where there is nothing to restore or the window has closed.
StartRollback(c) ==
    /\ call[c].phase = "idle"
    /\ Written # {}
    /\ Latest(Written).old # None
    /\ call' = [call EXCEPT ![c] =
          [phase |-> "read", status |-> "written", idem |-> None, old |-> CurrentLevels,
           new |-> Latest(Written).old, version |-> 0, parent |-> 0]]
    /\ UNCHANGED ledger

\* _record reads the entries a second time.
ReadVersion(c) ==
    /\ call[c].phase = "read"
    /\ Cardinality(ledger) < MaxVersion
    /\ call' = [call EXCEPT ![c].phase = "versioned", ![c].parent = LatestVersion,
                            ![c].version = Cardinality(ledger) + 1]
    /\ UNCHANGED ledger

EntryOf(c) == [version |-> call[c].version, status |-> call[c].status,
               idem |-> call[c].idem, old |-> call[c].old, new |-> call[c].new,
               parent |-> call[c].parent, by |-> "caller"]

\* Fault: the table has no primary key.
InsertAnyway(c) ==
    /\ call[c].phase = "versioned"
    /\ ledger' = ledger \cup {EntryOf(c)}
    /\ EndCall(c)

\* Fault: on a conflict the entry is given the version that is free by then.
InsertRenumbered(c) ==
    /\ call[c].phase = "versioned"
    /\ Cardinality(ledger) < MaxVersion
    /\ ledger' = ledger \cup
          {[EntryOf(c) EXCEPT !.version = Cardinality(ledger) + 1]}
    /\ EndCall(c)

\* The insert waits for another that holds the version, and the transaction
\* commits with it.
Commit(c) ==
    /\ call[c].phase = "versioned"
    /\ \A e \in ledger : e.version # call[c].version
    /\ ledger' = ledger \cup {EntryOf(c)}
    /\ EndCall(c)

\* The version was taken since: a unique violation, and the request fails.
VersionTaken(c) ==
    /\ call[c].phase = "versioned"
    /\ \E e \in ledger : e.version = call[c].version
    /\ EndCall(c)
    /\ UNCHANGED ledger

\* The connection or the process dies.
AbortCall(c) ==
    /\ call[c].phase # "idle"
    /\ EndCall(c)
    /\ UNCHANGED ledger

\* The transaction goes on by one statement, or ends.
CallStep(c) == NotRecorded(c) \/ ReadLevels(c) \/ ReadVersion(c)
CallReturns(c) == Replay(c) \/ DeferForOpenOrder(c) \/ Commit(c)
CallRaises(c) == VersionTaken(c) \/ AbortCall(c)

LedgerNext ==
    \E c \in Caller : \/ \E k \in Level : StartWrite(c, k)
                      \/ StartRollback(c)
                      \/ CallStep(c) \/ CallReturns(c) \/ CallRaises(c)

LedgerSpec == LedgerInit /\ [][LedgerNext]_ledgerVars

-----------------------------------------------------------------------------
(* Properties                                                                *)

Versions == {e.version : e \in ledger}

\* However calls overlap, the versions of a key are 1, 2, 3 ... without a gap
\* or a repetition ("monotonic per (tenant, pn, location), starting at 1",
\* contracts.py:120): a gap would make count + 1 a version that is taken, and
\* every later write would fail.
VersionsContiguous ==
    /\ Versions = 1..Cardinality(ledger)
    /\ \A e, f \in ledger : e.version = f.version => e = f

\* However calls overlap, an entry's parent is the last entry before it that
\* changed the levels: the link a rollback and an audit follow.
ParentIsLatestWritten ==
    \A e \in ledger :
        LET earlier == {f \in Written : f.version < e.version}
        IN  e.parent = IF earlier = {} THEN 0 ELSE Latest(earlier).version

\* What the two properties rely on: there is a newest written entry, a call that
\* is under way has levels to write, and the version a call is about to insert is
\* at most the next one; if it is the next one, the parent it read is still the
\* latest written entry.
Bookkeeping ==
    /\ IsFiniteSet(ledger)
    /\ Written # {} => \E e \in Written : \A f \in Written : f.version <= e.version
    /\ \A c \in Caller :
          /\ call[c].phase # "idle" => call[c].new \in Level
          /\ call[c].phase = "versioned" =>
                /\ call[c].version \in 1..(Cardinality(ledger) + 1)
                /\ call[c].version = Cardinality(ledger) + 1 =>
                      call[c].parent = LatestVersion

\* The inductive invariant.
LedgerInv ==
    /\ LedgerTypeOK
    /\ VersionsContiguous
    /\ ParentIsLatestWritten
    /\ Bookkeeping

\* The ledger as the history of the in-memory target, oldest entry first.
History == [n \in 1..Cardinality(ledger) |->
               LET e == CHOOSE e \in ledger : e.version = n
               IN  [status |-> e.status, idem |-> e.idem, old |-> e.old,
                    new |-> e.new, parent |-> e.parent]]

Target == INSTANCE AuditedTarget WITH levels <- CurrentLevels, history <- History

\* As long as no two calls overlap, the ledger behaves as the in-memory target
\* does: "Executable spec: InMemoryWritebackTarget" (writeback.py:3).
ImplementsAuditedTarget == Target!TargetSpec
=============================================================================
