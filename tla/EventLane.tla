------------------------------ MODULE EventLane ------------------------------
(***************************************************************************)
(* Events of eMRO on their way to the stock levels of one tenant.          *)
(*                                                                         *)
(* The publisher (services/event-publisher) sends each event to the        *)
(* endpoint until it is answered, refused or out of attempts; the endpoint *)
(* remembers what it accepted and replays it on request; the ingestor      *)
(* (agent-spine/event_lane) drops what it has seen, reads the online       *)
(* bundle of each key the event names, and lets the supervisor recommend,  *)
(* ask the guardrail and write.  A population of the online store may be   *)
(* committed between any two reads, and a handler may raise anywhere.      *)
(*                                                                         *)
(* A generation of the online store stands for the inputs of its bundles,  *)
(* and for the levels that are recommended from them.                      *)
(***************************************************************************)
EXTENDS Integers, Sequences, FiniteSets, SequencesExt

CONSTANTS Event, Key,
          Kind,           \* of each event
          Named,          \* the keys each event's payload names
          DayOf,          \* the day each event occurred
          Advice,         \* what the engine recommends for a key from a generation,
                          \* nothing if the bundle lacks an input
          Populated,      \* the sets of keys a population may find rows for
          MaxAttempts,    \* of the publisher
          MaxGeneration,  \* bound on the populations
          MaxRestarts,    \* bound on the ingestor's restarts
          MaxBad          \* bound on the malformed deliveries

Generation == 1..MaxGeneration

Tiers == {"advisor", "bounded", "autonomous"}

Rec == [deferral : BOOLEAN, policy : BOOLEAN, delta : Nat, aog : BOOLEAN,
        tier : Tiers, criticality : 1..5]

EventKind == {"flight_completed", "stock_moved", "wo_scheduled", "vendor_price_changed",
              "plan_published", "removal_recorded", "eo_published"}

ASSUME EventAssumption ==
    /\ IsFiniteSet(Key)
    /\ Kind \in [Event -> EventKind]
    /\ Named \in [Event -> SUBSET Key]
    /\ DayOf \in [Event -> Nat]
    /\ DOMAIN Advice = Key
    /\ \A k \in Key : \A g \in Generation :
          Advice[k][g] \subseteq Rec /\ Cardinality(Advice[k][g]) <= 1
    /\ Populated \subseteq SUBSET Key
    /\ MaxAttempts \in Nat \ {0}
    /\ {MaxGeneration, MaxRestarts, MaxBad} \subseteq Nat

VARIABLES pub,       \* the publisher's call for each event
          undelivered, \* its dead-letter queue
          accepted,  \* the events the endpoint has accepted
          seen,      \* the event ids the ingestor remembers
          setAside,  \* how many items are in its dead-letter sink
          lane,      \* what the ingestor is doing
          finished,  \* the events it has handled to the end
          online,    \* the current generation of the online store, and its keys
          levels,    \* the generation the levels of each key come from, or 0
          history,   \* the writes of each key, oldest first
          results,   \* the write results by idempotency key
          restarts

publisherVars == <<pub, undelivered, accepted>>
ingestorVars  == <<seen, setAside, lane, finished, restarts>>
targetVars    == <<levels, history, results>>
laneVars      == <<publisherVars, ingestorVars, online, targetVars>>

Calling(n) == [phase |-> "sending", attempt |-> n]
NotCalled  == [phase |-> "new", attempt |-> 0]
Waiting    == [phase |-> "idle", event |-> {}, todo |-> {}, bundles |-> <<>>,
               day |-> 0, shadow |-> FALSE]

Handling(event, todo, bundles, day, shadow) ==
    [phase |-> "reading", event |-> event, todo |-> todo, bundles |-> bundles,
     day |-> day, shadow |-> shadow]

EventInit ==
    /\ pub = [e \in Event |-> NotCalled]
    /\ undelivered = {}
    /\ accepted = {}
    /\ seen = {}
    /\ setAside = 0
    /\ lane = Waiting
    /\ finished = {}
    /\ online = [gen |-> 0, keys |-> {}]
    /\ levels = [k \in Key |-> 0]
    /\ history = [k \in Key |-> <<>>]
    /\ results = {}
    /\ restarts = 0

-----------------------------------------------------------------------------
(* The publisher and the endpoint.                                         *)

Publish(e) ==
    /\ pub[e] = NotCalled
    /\ pub' = [pub EXCEPT ![e] = Calling(1)]
    /\ UNCHANGED <<undelivered, accepted, ingestorVars, online, targetVars>>

Returns(e, status) == pub' = [pub EXCEPT ![e].phase = status]

\* 202 for a new event and 409 for one that was accepted before are both success.
Answered(e) ==
    /\ pub[e].phase = "sending"
    /\ accepted' = accepted \cup {e}
    /\ Returns(e, "emitted")
    /\ UNCHANGED <<undelivered, ingestorVars, online, targetVars>>

\* 400, 401 or 403: the tenant or the certificate is refused.
RefusedForGood(e) ==
    /\ pub[e].phase = "sending"
    /\ undelivered' = undelivered \cup {e}
    /\ Returns(e, "rejected")
    /\ UNCHANGED <<accepted, ingestorVars, online, targetVars>>

\* Fault: the last attempt's event is not set aside.
TryAgainForgets(e) ==
    IF pub[e].attempt < MaxAttempts
    THEN /\ pub' = [pub EXCEPT ![e] = Calling(pub[e].attempt + 1)]
         /\ UNCHANGED undelivered
    ELSE /\ Returns(e, "dead_lettered")
         /\ UNCHANGED undelivered

\* Fault: after the last attempt the count starts again.
TryAgainForever(e) ==
    /\ pub' = [pub EXCEPT ![e] = Calling(IF @.attempt < MaxAttempts THEN @.attempt + 1 ELSE 1)]
    /\ UNCHANGED undelivered

\* After every wait, however long the endpoint asked for it to be.
TryAgain(e) ==
    IF pub[e].attempt < MaxAttempts
    THEN /\ pub' = [pub EXCEPT ![e] = Calling(pub[e].attempt + 1)]
         /\ UNCHANGED undelivered
    ELSE /\ Returns(e, "dead_lettered")
         /\ undelivered' = undelivered \cup {e}

\* A connection error, 5xx or 429: the request, or only its answer, was lost, or
\* the rate limit came before the endpoint looked at the event.
NoAnswer(e) ==
    /\ pub[e].phase = "sending"
    /\ accepted' \in {accepted, accepted \cup {e}}
    /\ TryAgain(e)
    /\ UNCHANGED <<ingestorVars, online, targetVars>>

-----------------------------------------------------------------------------
(* The ingestor.                                                           *)

\* The events that name a part and a location; the others need a catalog, and
\* nothing is recomputed for them.
ResolvedKeys(e) ==
    IF Kind[e] \in {"stock_moved", "removal_recorded"} THEN Named[e] ELSE {}

\* An item that is no event: its tenant, id, times or version, or the payload for
\* its kind, do not validate.
IngestMalformed ==
    /\ lane = Waiting /\ setAside < MaxBad
    /\ setAside' = setAside + 1
    /\ UNCHANGED <<publisherVars, seen, lane, finished, restarts, online, targetVars>>

\* An accepted event, from a replay, for the first time: a later one is a
\* duplicate, and no more than counted.
Ingest(e) ==
    /\ lane = Waiting /\ e \in accepted /\ e \notin seen
    /\ seen' = seen \cup {e}
    /\ lane' = Handling({e}, ResolvedKeys(e), <<>>, DayOf[e], FALSE)
    /\ UNCHANGED <<publisherVars, setAside, finished, restarts, online, targetVars>>

\* Fault: the pointer is read without asking for a consistent read.
ReadKeyStale(k) ==
    /\ lane.phase = "reading" /\ k \in lane.todo
    /\ \E g \in {online.gen - 1, online.gen} \cap Generation :
          lane' = [lane EXCEPT !.todo = @ \ {k},
                       !.bundles = Append(@, [key |-> k, gen |-> g])]
    /\ UNCHANGED <<publisherVars, seen, setAside, finished, restarts, online, targetVars>>

\* One read of the online store for each key, in any order; a key without a row is
\* left out.
ReadKey(k) ==
    /\ lane.phase = "reading" /\ k \in lane.todo
    /\ lane' = [lane EXCEPT !.todo = @ \ {k},
                   !.bundles = IF k \in online.keys
                               THEN Append(@, [key |-> k, gen |-> online.gen])
                               ELSE @]
    /\ UNCHANGED <<publisherVars, seen, setAside, finished, restarts, online, targetVars>>

\* The batch lane: every key, from one extract, for the record only if asked so.
Orchestrate(day, shadow) ==
    /\ lane = Waiting /\ online.gen > 0
    /\ LET order == SetToSeq(online.keys)
       IN  lane' = Handling({}, {}, [i \in DOMAIN order |->
                                        [key |-> order[i], gen |-> online.gen]], day, shadow)
    /\ UNCHANGED <<publisherVars, seen, setAside, finished, restarts, online, targetVars>>

-----------------------------------------------------------------------------
(* The supervisor, the guardrail and the writeback target.                 *)

\* Only parts of low criticality are changed unattended, and only so much at once.
Authorize(tier, delta, criticality) ==
    IF \/ tier = "advisor"
       \/ criticality < 4
       \/ delta > (IF tier = "autonomous" THEN 100 ELSE 25)
    THEN "queued" ELSE "approved"

\* Fault: the band of the engine's tier, whatever signal there is.
EnforceTier(rec) ==
    IF rec.deferral THEN "deferred"
    ELSE IF ~rec.policy THEN "queued"
    ELSE IF rec.delta > 100 THEN "rejected"
    ELSE Authorize(rec.tier, rec.delta, rec.criticality)

\* Open orders that cover the level defer it before anything else is asked.
Enforce(rec) ==
    IF rec.deferral THEN "deferred"
    ELSE IF ~rec.policy THEN "queued"
    ELSE IF rec.delta > 100 THEN "rejected"
    ELSE Authorize(IF rec.aog THEN "advisor" ELSE rec.tier, rec.delta, rec.criticality)

\* Fault: every attempt has a key of its own.
FreshKey(b) == <<b.key, b.gen, Len(history[b.key])>>

\* The hash of the inputs, with the day they are planned for.
IdempotencyKey(b) == <<b.key, b.gen, lane.day>>

\* In shadow mode what waits for approval is written too, for the record.
Writes(b) ==
    \E rec \in Advice[b.key][b.gen] :
        \/ Enforce(rec) = "approved"
        \/ lane.shadow /\ Enforce(rec) = "queued" /\ rec.policy

NextRec == lane' = [lane EXCEPT !.phase = "writing", !.bundles = Tail(@)]

\* A result is returned again for its key, whatever has changed.
Replayed(b) == IdempotencyKey(b) \in results

Entry(b, status) == [gen |-> b.gen, day |-> lane.day, status |-> status]

\* The target defers while there is an open order for the key.
WriteRec ==
    /\ lane.phase \in {"reading", "writing"} /\ lane.todo = {} /\ lane.bundles # <<>>
    /\ LET b == Head(lane.bundles) IN
         /\ Writes(b) /\ ~Replayed(b)
         /\ results' = results \cup {IdempotencyKey(b)}
         /\ \/ /\ lane.shadow
               /\ history' = [history EXCEPT ![b.key] = Append(@, Entry(b, "shadowed"))]
               /\ UNCHANGED levels
            \/ /\ ~lane.shadow
               /\ history' = [history EXCEPT ![b.key] = Append(@, Entry(b, "written"))]
               /\ levels' = [levels EXCEPT ![b.key] = b.gen]
            \/ /\ ~lane.shadow
               /\ UNCHANGED <<history, levels>>
    /\ NextRec
    /\ UNCHANGED <<publisherVars, seen, setAside, finished, restarts, online>>

PassRec ==
    /\ lane.phase \in {"reading", "writing"} /\ lane.todo = {} /\ lane.bundles # <<>>
    /\ LET b == Head(lane.bundles) IN ~Writes(b) \/ Replayed(b)
    /\ NextRec
    /\ UNCHANGED <<publisherVars, seen, setAside, finished, restarts, online, targetVars>>

HandlerReturns ==
    /\ lane.phase \in {"reading", "writing"} /\ lane.todo = {} /\ lane.bundles = <<>>
    /\ finished' = finished \cup lane.event
    /\ lane' = Waiting
    /\ UNCHANGED <<publisherVars, seen, setAside, restarts, online, targetVars>>

\* A read or a write raises, and nothing on the way up catches it.
HandlerRaises ==
    /\ lane # Waiting
    /\ lane' = Waiting
    /\ UNCHANGED <<publisherVars, seen, setAside, finished, restarts, online, targetVars>>

\* What the ingestor has seen is in its memory.
Restart ==
    /\ restarts < MaxRestarts
    /\ restarts' = restarts + 1
    /\ lane' = Waiting /\ seen' = {} /\ setAside' = 0
    /\ finished' = {}
    /\ UNCHANGED <<publisherVars, online, targetVars>>

\* Another population of the online store is committed.
Populate(keys) ==
    /\ online.gen < MaxGeneration
    /\ online' = [gen |-> online.gen + 1, keys |-> keys]
    /\ UNCHANGED <<publisherVars, ingestorVars, targetVars>>

-----------------------------------------------------------------------------

PublisherStep(e) == Publish(e) \/ Answered(e) \/ RefusedForGood(e) \/ NoAnswer(e)

EventNext ==
    \/ \E e \in Event : PublisherStep(e) \/ Ingest(e)
    \/ IngestMalformed
    \/ \E k \in Key : ReadKey(k)
    \/ \E d \in {DayOf[e] : e \in Event}, s \in BOOLEAN : Orchestrate(d, s)
    \/ WriteRec \/ PassRec \/ HandlerReturns \/ HandlerRaises \/ Restart
    \/ \E keys \in Populated : Populate(keys)

\* A call of the publisher that has begun goes on: it sleeps for a bounded time.
EventFairness == \A e \in Event : WF_laneVars(Answered(e) \/ RefusedForGood(e) \/ NoAnswer(e))

EventSpec == EventInit /\ [][EventNext]_laneVars

FairEventSpec == EventSpec /\ EventFairness

-----------------------------------------------------------------------------
(* What must hold.                                                         *)

\* An event whose publication has returned was accepted or is in the dead-letter
\* queue, however many answers were lost, and one reported as emitted was accepted.
NothingLostSilently ==
    \A e \in Event :
        /\ pub[e].phase \in {"emitted", "rejected", "dead_lettered"} =>
              e \in accepted \cup undelivered
        /\ pub[e].phase = "emitted" => e \in accepted

\* A publication that has begun returns, whatever the network and the endpoint do.
PublicationsReturn ==
    \A e \in Event : pub[e].phase = "sending" ~> pub[e].phase # "sending"

\* What is recommended from a snapshot on a day is written once, however often its
\* events are delivered, fail, and are handled again by another life of the ingestor.
OneWritePerSnapshot ==
    \A k \in Key : \A i, j \in DOMAIN history[k] :
        i # j => \/ history[k][i].gen # history[k][j].gen
                 \/ history[k][i].day # history[k][j].day

\* The levels of a key never go back to an older snapshot, although events are
\* late, reordered, delivered again and handled again after a restart.
LevelsNeverGoBack ==
    \A k \in Key : \A i, j \in DOMAIN history[k] :
        /\ i < j /\ history[k][i].status = "written" /\ history[k][j].status = "written"
        => history[k][i].gen <= history[k][j].gen

\* No level was changed unattended for a part of high criticality or one with an
\* aircraft on the ground, or by more than the band, or from no policy at all.
UnattendedWritesAreSafe ==
    \A k \in Key : \A i \in DOMAIN history[k] :
        history[k][i].status = "written" =>
            \E rec \in Advice[k][history[k][i].gen] :
                /\ rec.policy /\ ~rec.aog /\ ~rec.deferral
                /\ rec.criticality >= 4 /\ rec.delta <= 100

\* The contract's promise that what was accepted and then failed is set aside.
\* docs/contracts/2026-04-14-emro-event-publisher-contract.md:281
FailedEventsAreSetAside ==
    lane = Waiting => Cardinality(seen \ finished) <= setAside
=============================================================================
