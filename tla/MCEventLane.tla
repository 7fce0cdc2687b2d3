----------------------------- MODULE MCEventLane -----------------------------
(* Two events on two keys of one tenant, two populations, a restart.     *)
EXTENDS EventLane

CONSTANTS e1, e2, k1, k2

EventKinds == e1 :> "stock_moved" @@ e2 :> "removal_recorded"
EventKeys  == e1 :> {k1, k2} @@ e2 :> {k1}
EventDays  == e1 :> 1 @@ e2 :> 1

Suggest(tier, aog, delta) ==
    {[deferral |-> FALSE, policy |-> TRUE, delta |-> delta, aog |-> aog, tier |-> tier,
     criticality |-> 5]}

EngineAdvice ==
    k1 :> <<Suggest("bounded", FALSE, 20), Suggest("autonomous", FALSE, 80)>>
    @@ k2 :> <<Suggest("autonomous", TRUE, 20), {}>>

RowsFound == {{k1}, {k1, k2}}
=============================================================================
