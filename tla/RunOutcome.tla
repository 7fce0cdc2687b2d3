----------------------------- MODULE RunOutcome -----------------------------
(***************************************************************************)
(* What the queue promises to whoever submits a planning or replay run,    *)
(* with the jobs, the workers, their leases and their retries left out: a  *)
(* request gets one run, the run is pending until it settles, it settles   *)
(* once, and there are selections or a scorecard to read exactly when it   *)
(* settles as completed.                                                   *)
(***************************************************************************)
CONSTANTS PlanningRequest, ReplayRequest

VARIABLES outcome,   \* what the submitter is told about the run
          evidence   \* whether there are selections or a scorecard to read

outcomeVars == <<outcome, evidence>>

AnyRequest == PlanningRequest \cup ReplayRequest

Settled == {"completed", "infeasible", "failed"}

\* A scorecard cannot be infeasible; only a portfolio plan can.
Possible(r) == IF r \in PlanningRequest THEN Settled ELSE Settled \ {"infeasible"}

OutcomeInit ==
    /\ outcome = [r \in AnyRequest |-> "unsubmitted"]
    /\ evidence = [r \in AnyRequest |-> "none"]

AcceptRun(r) ==
    /\ outcome[r] = "unsubmitted"
    /\ outcome' = [outcome EXCEPT ![r] = "pending"]
    /\ UNCHANGED evidence

SettleRun(r, o) ==
    /\ outcome[r] = "pending"
    /\ outcome' = [outcome EXCEPT ![r] = o]
    /\ evidence' = [evidence EXCEPT ![r] =
                        IF o = "completed" THEN "stored" ELSE "none"]

SettleSome(r) == \E o \in Possible(r) : SettleRun(r, o)

OutcomeNext == \E r \in AnyRequest : AcceptRun(r) \/ SettleSome(r)

OutcomeSpec == OutcomeInit /\ [][OutcomeNext]_outcomeVars

\* Every accepted run settles.
OutcomeFairSpec ==
    OutcomeSpec /\ \A r \in AnyRequest : WF_outcomeVars(SettleSome(r))
=============================================================================
