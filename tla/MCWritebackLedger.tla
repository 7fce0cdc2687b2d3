-------------------------- MODULE MCWritebackLedger --------------------------
(***************************************************************************)
(* Constants for model checking WritebackLedger.                           *)
(***************************************************************************)
EXTENDS WritebackLedger, TLC

CONSTANTS c1, c2, k1, k2, s1

MCCaller1 == {c1}
MCCaller2 == {c1, c2}
MCKey == {k1, k2}
MCShadowKey == {s1}

LedgerSymmetry == Permutations({c1, c2}) \cup Permutations({k1, k2})
=============================================================================
