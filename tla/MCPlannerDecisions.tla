------------------------- MODULE MCPlannerDecisions -------------------------
(***************************************************************************)
(* Constants for model checking PlannerDecisions.                          *)
(***************************************************************************)
EXTENDS PlannerDecisions, TLC

CONSTANTS c1, c2, k1, k2

MCCaller2 == {c1, c2}
MCKey2 == {k1, k2}
NoKey == {}

PlannerSymmetry == Permutations({c1, c2}) \cup Permutations({k1, k2})
=============================================================================
