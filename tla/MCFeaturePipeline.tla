-------------------------- MODULE MCFeaturePipeline --------------------------
(* A small feature pipeline for TLC. *)
EXTENDS FeaturePipeline

CONSTANTS k1, k2, reader1

MCDate  == {1, 2}
MCKey   == {k1, k2}
MCGroup == {"stock_position", "demand_history"}

Fails(domains, keys) ==
    [status |-> [d \in Domain |-> IF d \in domains THEN "failed" ELSE "succeeded"],
     keys |-> keys]
MCNight == {Fails({}, {k1, k2}), Fails({"stock_amount"}, {}),
            Fails({"demand_history_rotables"}, {k1}),
            Fails(Sources("demand_history"), {k1, k2})}
=============================================================================
