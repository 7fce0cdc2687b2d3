-------------------------- MODULE PlannerDecisions --------------------------
(***************************************************************************)
(* PgPlannerStore's decisions (pg/store.py): approve, reject, defer, bulk  *)
(* approve, rollback and the kill switch, over the recommendations of one  *)
(* (tenant, part, location) and its writeback ledger, next to the seeds    *)
(* (pg/seed.py) that replace what they decide about.                       *)
(*                                                                         *)
(* A request is several transactions on connections of their own: the kill *)
(* switch is read in one, the decision is made in a second, the levels are *)
(* written in a third.  Requests of other threads, seeds and the death of  *)
(* the process come in between.                                            *)
(***************************************************************************)
EXTENDS WritebackLedger

CONSTANTS Writable,    \* keys of the recommendations that carry a policy
          MaxUploads,  \* bound on the uploads that are seeded
          MaxSeeds     \* bound on uploads and recomputes together

ASSUME WritableAssumption == Writable \subseteq Key

VARIABLES status,     \* the status column of recommendations
          engaged,    \* the kill switch
          approvals,  \* rows of `decisions` that approve a recommendation
          rollbacks,  \* rows of `decisions` that tell of an effective rollback
          request,    \* what each caller's request is about to do
          seeds,      \* number of seeds so far
          upload      \* the seed transaction of an upload, while it is open

decisionVars == <<status, engaged, approvals, rollbacks, seeds, upload>>
plannerVars  == <<ledgerVars, decisionVars, request>>

\* Each seed makes recommendations of its own (their ids are ULIDs), which may
\* carry an idempotency key seen before.
RecId == [key : Key, seed : 0..MaxSeeds]
NoRec == [key |-> None, seed |-> 0]

TaskStatus == {"absent", "pending", "approved", "rejected", "deferred"}

\* Where a request is: nothing under way ("idle"); the kill switch was seen released,
\* by a bulk approval ("bulk") or before one approval ("allowed"); the next target of
\* a bulk approval is due ("next"); the approval is committed ("approved"); it is
\* being written ("writing"); a rollback is being written ("reverting"); it is yet to
\* be recorded ("reverted").
NotAsked == [phase |-> "idle", rec |-> NoRec, targets |-> {}]
NoUpload == [phase |-> "idle", doomed |-> {}]

PlannerInit ==
    /\ LedgerInit
    /\ status = [r \in RecId |-> "absent"]
    /\ engaged = FALSE
    /\ approvals = [r \in RecId |-> 0]
    /\ rollbacks = 0
    /\ request = [c \in Caller |-> NotAsked]
    /\ seeds = 0
    /\ upload = NoUpload

-----------------------------------------------------------------------------

Goto(c, phase) == request' = [request EXCEPT ![c].phase = phase]
EndRequest(c)  == request' = [request EXCEPT ![c] = NotAsked]

\* A target of a bulk approval is dealt with, or the only one of an approval.
NextTarget(c) ==
    request' = [request EXCEPT ![c] = IF @.targets = {} THEN NotAsked
                                      ELSE [phase |-> "next", rec |-> NoRec,
                                            targets |-> @.targets]]

\* The delete of an open upload transaction holds every row it will replace.
RowsFree == upload.phase = "idle"

\* The first transaction of an approval reads the kill switch.
StartApprove(c, r) ==
    /\ request[c].phase = "idle"
    /\ ~engaged
    /\ request' = [request EXCEPT ![c] = [phase |-> "allowed", rec |-> r, targets |-> {}]]
    /\ UNCHANGED <<ledgerVars, decisionVars>>

StartBulkApprove(c) ==
    /\ request[c].phase = "idle"
    /\ ~engaged
    /\ Goto(c, "bulk")
    /\ UNCHANGED <<ledgerVars, decisionVars>>

\* What the filter lets through of what is pending now.
SelectTargets(c) ==
    /\ request[c].phase = "bulk"
    /\ \E targets \in SUBSET {r \in RecId : status[r] = "pending" /\ r.key \in Writable} :
          request' = [request EXCEPT ![c] =
              IF targets = {} THEN NotAsked
              ELSE [phase |-> "next", rec |-> NoRec, targets |-> targets]]
    /\ UNCHANGED <<ledgerVars, decisionVars>>

\* Each target is approved like any other: the kill switch is read again.
ApproveTarget(c) ==
    /\ request[c].phase = "next"
    /\ \/ engaged /\ EndRequest(c)
       \/ /\ ~engaged
          /\ \E r \in request[c].targets :
                request' = [request EXCEPT ![c] =
                    [phase |-> "allowed", rec |-> r, targets |-> @.targets \ {r}]]
    /\ UNCHANGED <<ledgerVars, decisionVars>>

Approvable(r) == status[r] = "pending" /\ r.key \in Writable

\* Fault: the kill switch is not read again under the lock.
ApproveUnchecked(c) ==
    LET r == request[c].rec
    IN  /\ request[c].phase = "allowed"
        /\ RowsFree
        /\ Approvable(r)
        /\ status' = [status EXCEPT ![r] = "approved"]
        /\ approvals' = [approvals EXCEPT ![r] = @ + 1]
        /\ Goto(c, "approved")
        /\ UNCHANGED <<ledgerVars, engaged, rollbacks, seeds, upload>>

\* Fault: the status is not read again under the lock.
ApproveStale(c) ==
    LET r == request[c].rec
    IN  /\ request[c].phase = "allowed"
        /\ RowsFree
        /\ ~engaged
        /\ r.key \in Writable /\ status[r] # "absent"
        /\ status' = [status EXCEPT ![r] = "approved"]
        /\ approvals' = [approvals EXCEPT ![r] = @ + 1]
        /\ Goto(c, "approved")
        /\ UNCHANGED <<ledgerVars, engaged, rollbacks, seeds, upload>>

\* The second transaction locks the kill switch and the recommendation, and
\* commits the status with the decision row.
Approve(c) ==
    LET r == request[c].rec
    IN  /\ request[c].phase = "allowed"
        /\ RowsFree
        /\ ~engaged
        /\ Approvable(r)
        /\ status' = [status EXCEPT ![r] = "approved"]
        /\ approvals' = [approvals EXCEPT ![r] = @ + 1]
        /\ Goto(c, "approved")
        /\ UNCHANGED <<ledgerVars, engaged, rollbacks, seeds, upload>>

\* Fault: a retry of an approval that is not written yet goes on to write it.
ResumeApproval(c) ==
    /\ request[c].phase = "allowed"
    /\ RowsFree
    /\ engaged \/ ~Approvable(request[c].rec)
    /\ IF status[request[c].rec] = "approved" THEN Goto(c, "approved") ELSE EndRequest(c)
    /\ UNCHANGED <<ledgerVars, decisionVars>>

\* It raises, and so does the bulk approval it is part of: no later target is
\* approved, and no row is left to tell of the earlier ones.
RefuseApproval(c) ==
    /\ request[c].phase = "allowed"
    /\ RowsFree
    /\ engaged \/ ~Approvable(request[c].rec)
    /\ EndRequest(c)
    /\ UNCHANGED <<ledgerVars, decisionVars>>

\* The third transaction writes the levels.
BeginWrite(c) ==
    /\ request[c].phase = "approved"
    /\ StartWrite(c, request[c].rec.key)
    /\ Goto(c, "writing")
    /\ UNCHANGED decisionVars

WriteGoesOn(c) ==
    /\ CallStep(c)
    /\ UNCHANGED <<decisionVars, request>>

WriteReturns(c) ==
    /\ request[c].phase = "writing"
    /\ CallReturns(c)
    /\ NextTarget(c)
    /\ UNCHANGED decisionVars

WriteRaises(c) ==
    /\ VersionTaken(c)
    /\ EndRequest(c)
    /\ UNCHANGED decisionVars

-----------------------------------------------------------------------------

BeginRollback(c) ==
    /\ request[c].phase = "idle"
    /\ StartRollback(c)
    /\ Goto(c, "reverting")
    /\ UNCHANGED decisionVars

RollbackReturns(c) ==
    /\ request[c].phase = "reverting"
    /\ CallReturns(c)
    /\ Goto(c, "reverted")
    /\ UNCHANGED decisionVars

\* The decision row of a rollback is a transaction of its own, after it.
RecordRollback(c) ==
    /\ request[c].phase = "reverted"
    /\ rollbacks' = rollbacks + 1
    /\ EndRequest(c)
    /\ UNCHANGED <<ledgerVars, status, engaged, approvals, seeds, upload>>

\* reject and defer ask neither for the status nor for the kill switch.
Overrule(r, decision) ==
    /\ RowsFree
    /\ status[r] # "absent"
    /\ status' = [status EXCEPT ![r] = decision]
    /\ UNCHANGED <<ledgerVars, engaged, approvals, rollbacks, request, seeds, upload>>

SetKillSwitch(value) ==
    /\ RowsFree
    /\ engaged' = value
    /\ UNCHANGED <<ledgerVars, status, approvals, rollbacks, request, seeds, upload>>

\* The thread dies with its process; what it committed stays.
RequestDies(c) ==
    /\ request[c].phase # "idle"
    /\ EndRequest(c)
    /\ EndCall(c)
    /\ UNCHANGED <<ledger, decisionVars>>

-----------------------------------------------------------------------------
(* Seeds.  The guardrail gives each recommendation its first status.         *)

\* The recommendations of the new seed take the place of all others.
Reseed(verdict) ==
    status' = [r \in RecId |-> IF r.seed = seeds + 1 THEN verdict[r.key] ELSE "absent"]

Verdicts == {v \in [Key -> TaskStatus] : \A k \in Key : v[k] = "approved" => k \in Writable}

\* Fault: the nightly seed replaces the ledger as an upload does.
RecomputeAll ==
    /\ seeds \in 1..(MaxSeeds - 1)
    /\ RowsFree
    /\ \E verdict \in Verdicts : Reseed(verdict)
    /\ ledger' = {}
    /\ seeds' = seeds + 1
    /\ UNCHANGED <<call, engaged, approvals, rollbacks, request, upload>>

\* The nightly recompute replaces the recommendations and preserves the ledger
\* and the kill switch.  What the guardrail lets through is approved without an
\* entry in the ledger.
Recompute ==
    /\ seeds \in 1..(MaxSeeds - 1)
    /\ RowsFree
    /\ \E verdict \in Verdicts : Reseed(verdict)
    /\ seeds' = seeds + 1
    /\ UNCHANGED <<ledgerVars, engaged, approvals, rollbacks, request, upload>>

\* An upload deletes everything it seeds, as far as it is committed by then ...
ClearForUpload ==
    /\ RowsFree
    /\ seeds < MaxUploads
    /\ upload' = [phase |-> "cleared", doomed |-> ledger]
    /\ UNCHANGED <<ledgerVars, status, engaged, approvals, rollbacks, request, seeds>>

\* The entry of a write to a fresh in-memory target, after `before` others.
SeededEntry(k, before, previous) ==
    [version |-> before + 1, status |-> "written", idem |-> k, old |-> previous,
     new |-> k, parent |-> before, by |-> "seed"]

\* What a fresh in-memory target holds when exactly the keys of `auto` were
\* written to it, in some order.
SeededLedgers(auto) ==
    {{SeededEntry(order[n], n - 1, IF n = 1 THEN None ELSE order[n - 1]) :
          n \in DOMAIN order} :
        order \in {f \in [1..Cardinality(auto) -> auto] :
                      \A m, n \in DOMAIN f : f[m] = f[n] => m = n}}

\* ... and inserts the new rows: the ledger then holds what the guardrail let
\* through, and what was committed in between.
SeedUpload ==
    /\ upload.phase = "cleared"
    /\ \E verdict \in Verdicts :
         /\ Reseed(verdict)
         /\ \E seeded \in SeededLedgers({k \in Key : verdict[k] = "approved"}) :
              LET kept == ledger \ upload.doomed IN
                /\ {e.version : e \in kept} \cap {e.version : e \in seeded} = {}
                /\ ledger' = kept \cup seeded
    /\ engaged' = FALSE
    /\ seeds' = seeds + 1
    /\ upload' = NoUpload
    /\ UNCHANGED <<call, approvals, rollbacks, request>>

\* The seed transaction fails or its worker dies, and rolls back.
AbandonUpload ==
    /\ upload.phase = "cleared"
    /\ upload' = NoUpload
    /\ UNCHANGED <<ledgerVars, status, engaged, approvals, rollbacks, request, seeds>>

-----------------------------------------------------------------------------

ApprovalStep(c) ==
    SelectTargets(c) \/ ApproveTarget(c) \/ Approve(c) \/ RefuseApproval(c)

WriteStep(c) == BeginWrite(c) \/ WriteGoesOn(c) \/ WriteReturns(c) \/ WriteRaises(c)

RollbackStep(c) == RollbackReturns(c) \/ RecordRollback(c)

SeedStep == Recompute \/ ClearForUpload \/ SeedUpload \/ AbandonUpload

PlannerNext ==
    \/ \E c \in Caller :
          \/ \E r \in RecId : r.seed = seeds /\ StartApprove(c, r)
          \/ StartBulkApprove(c) \/ BeginRollback(c)
          \/ ApprovalStep(c) \/ WriteStep(c) \/ RollbackStep(c) \/ RequestDies(c)
    \/ \E r \in RecId, decision \in {"rejected", "deferred"} : Overrule(r, decision)
    \/ \E value \in BOOLEAN : SetKillSwitch(value)
    \/ SeedStep

PlannerSpec == PlannerInit /\ [][PlannerNext]_plannerVars

-----------------------------------------------------------------------------
(* Properties                                                                *)

Deciding(c) == request[c].phase \in {"approved", "writing"}

ByCaller == {e \in ledger : e.by = "caller"}

\* However requests for the same recommendation race (two planners, one of them
\* in bulk), each write, made or under way, has a committed approval of its own:
\* nothing reaches the ledger that nobody approved, and an approval is acted on
\* once.
WritesAreApproved ==
    \A k \in Key :
        Cardinality({c \in Caller : /\ request[c].phase \in {"approved", "writing"}
                                    /\ request[c].rec.key = k})
          + Cardinality({e \in ByCaller : e.idem = k})
        <= Cardinality({r \in RecId : r.key = k /\ approvals[r] > 0})

\* However approvals race with each other, with rejections and with seeds, a
\* recommendation is approved at most once (the status is read under its row
\* lock, store.py:353).
ApprovedOnce == \A r \in RecId : approvals[r] <= 1

\* No approval commits while the kill switch is engaged, whenever it was engaged
\* ("closes the cross-connection TOCTOU", store.py:346).
NoApprovalWhileEngaged == [][approvals' # approvals => ~engaged]_plannerVars

\* After its first upload, a tenant loses no entry of its ledger: "must never delete the append-only
\* writeback ledger" (seed.py:188), "decisions and writeback_ledger remain
\* append-only" (docs/superpowers/specs/2026-07-20-commercialization-
\* architecture-design.md:108).  A second upload replaces the ledger on purpose;
\* decisions, rollbacks, failures and nightly recomputes must not.
LedgerIsAppendOnly == [][ledger \subseteq ledger']_plannerVars
=============================================================================
