----------------------------- MODULE Algorithms -----------------------------
(***************************************************************************)
(* The pure functions together: one behaviour per case, that computes what *)
(* the function returns for it.  The cases are any whose values have the   *)
(* types the contracts and the columns give them, in sets of any kind.     *)
(***************************************************************************)
EXTENDS Uploads, Portfolio, RepairWork, Replay

CONSTANT CaseSets   \* the calls that are made, set by set

Typed(c) == /\ JobTyped(c)
            /\ c.fn \in {"batch", "preview"} => WorkListTyped(c)
            /\ c.fn = "upload" => UploadTyped(c.files)
            /\ c.fn = "plan" => RequestTyped(c)
            /\ c.fn = "repair" => RepairTyped(c)
            /\ c.fn = "replay" => PackageTyped(c)

ASSUME CaseAssumption == \A cases \in CaseSets : \A c \in cases : Typed(c)

AlgorithmInit == \E cases \in CaseSets : Given(cases)

AlgorithmNext == TransformStep \/ RecommendationStep \/ RunWithFrontiers \/ SolvePortfolio
                 \/ RunIngest \/ ProjectRepairs \/ ReplayDecisions

AlgorithmSpec == AlgorithmInit /\ [][AlgorithmNext]_caseVars
=============================================================================
