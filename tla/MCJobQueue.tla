----------------------------- MODULE MCJobQueue -----------------------------
(***************************************************************************)
(* Constants for model checking JobQueue.                                  *)
(***************************************************************************)
EXTENDS JobQueue

CONSTANTS w1, w2, plan, replay

MCWorker == {w1, w2}
MCJobId2 == 1..2
MCPlanning == {plan}
MCReplay == {replay}
=============================================================================
