--------------------------- MODULE MCEmroWriteback ---------------------------
(***************************************************************************)
(* Constants for model checking EmroWriteback.                             *)
(***************************************************************************)
EXTENDS EmroWriteback

CONSTANTS c1, a, level1, level2, shadow1, req1, transfer1, bad1

MCConsumer1 == {c1}
MCClient == {a}
MCLevelRow == {level1, level2, bad1}
MCShadowRow == {shadow1}
MCRequisitionRow == {req1}
MCTransferRow == {transfer1}
MCBadRow == {bad1}
MCRestRow == {level2, shadow1, req1, transfer1}

MCMessage == {<<bad1, level1>>}
=============================================================================
