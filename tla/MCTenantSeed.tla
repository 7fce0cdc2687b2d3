---------------------------- MODULE MCTenantSeed ----------------------------
(***************************************************************************)
(* Constants for model checking TenantSeed.                                *)
(***************************************************************************)
EXTENDS TenantSeed, TLC

CONSTANTS w1, w2

MCWorker == {w1, w2}
MCJobId3 == 1..3
NoRequest == {}

WorkerSymmetry == Permutations(MCWorker)
=============================================================================
