--------------------------- MODULE EventLaneProofs ---------------------------
(***************************************************************************)
(* Proofs about EventLane, for any number of events, keys and populations: *)
(* what the publisher loses it sets aside, and the writes of a key are     *)
(* safe, in order and never repeated.                                      *)
(***************************************************************************)
EXTENDS EventLane, FunctionTheorems, FiniteSetTheorems, SequenceTheorems, TLAPS

PubRecord == [phase : {"new", "sending", "emitted", "rejected", "dead_lettered"}, attempt : Nat]

\* What the publisher's promise rests on.
PublisherInv ==
    /\ pub \in [Event -> PubRecord]
    /\ NothingLostSilently

\* No call begins with a promise to keep.
LEMMA InitPublisher == EventInit => PublisherInv
BY DEF EventInit, PublisherInv, PubRecord, NotCalled, NothingLostSilently

\* Every call that returns leaves its event with the endpoint or in the
\* dead-letter queue.
LEMMA PublisherStepInv ==
    ASSUME PublisherInv, NEW e \in Event, PublisherStep(e)
    PROVE  PublisherInv'
<1>0. pub \in [Event -> PubRecord] /\ pub[e] \in PubRecord
  BY DEF PublisherInv
<1>1. CASE Publish(e)
  <2>1. pub' = [pub EXCEPT ![e] = Calling(1)] /\ UNCHANGED <<accepted, undelivered>>
    BY <1>1 DEF Publish
  <2>2. Calling(1) \in PubRecord /\ Calling(1).phase = "sending"
    BY DEF Calling, PubRecord
  <2>. QED  BY <1>0, <2>1, <2>2 DEF PublisherInv, NothingLostSilently
<1>2. CASE Answered(e)
  <2>1. pub' = [pub EXCEPT ![e].phase = "emitted"] /\ accepted' = accepted \cup {e}
        /\ undelivered' = undelivered
    BY <1>2 DEF Answered, Returns
  <2>. QED  BY <1>0, <2>1 DEF PublisherInv, NothingLostSilently, PubRecord
<1>3. CASE RefusedForGood(e)
  <2>1. pub' = [pub EXCEPT ![e].phase = "rejected"] /\ undelivered' = undelivered \cup {e}
        /\ accepted' = accepted
    BY <1>3 DEF RefusedForGood, Returns
  <2>. QED  BY <1>0, <2>1 DEF PublisherInv, NothingLostSilently, PubRecord
<1>4. CASE NoAnswer(e)
  <2>1. accepted \subseteq accepted'
    BY <1>4 DEF NoAnswer
  <2>2. CASE pub[e].attempt < MaxAttempts
    <3>1. pub' = [pub EXCEPT ![e] = Calling(pub[e].attempt + 1)] /\ undelivered' = undelivered
      BY <1>4, <2>2 DEF NoAnswer, TryAgain
    <3>2. /\ Calling(pub[e].attempt + 1) \in PubRecord
          /\ Calling(pub[e].attempt + 1).phase = "sending"
      BY <1>0 DEF Calling, PubRecord
    <3>. QED  BY <1>0, <2>1, <3>1, <3>2 DEF PublisherInv, NothingLostSilently
  <2>3. CASE ~(pub[e].attempt < MaxAttempts)
    <3>1. pub' = [pub EXCEPT ![e].phase = "dead_lettered"]
          /\ undelivered' = undelivered \cup {e}
      BY <1>4, <2>3 DEF NoAnswer, TryAgain, Returns
    <3>. QED  BY <1>0, <2>1, <3>1 DEF PublisherInv, NothingLostSilently, PubRecord
  <2>. QED  BY <2>2, <2>3
<1>. QED  BY <1>1, <1>2, <1>3, <1>4 DEF PublisherStep

\* The ingestor, the online store and the target leave the publisher alone.
LEMMA PublisherNext == PublisherInv /\ [EventNext]_laneVars => PublisherInv'
<1>. SUFFICES ASSUME PublisherInv, [EventNext]_laneVars PROVE PublisherInv'
  OBVIOUS
<1>1. ASSUME NEW e \in Event, PublisherStep(e) PROVE PublisherInv'
  BY <1>1, PublisherStepInv
<1>2. ASSUME UNCHANGED publisherVars PROVE PublisherInv'
  BY <1>2 DEF publisherVars, PublisherInv, NothingLostSilently
<1>3. (\E e \in Event : PublisherStep(e)) \/ UNCHANGED publisherVars
  BY DEF EventNext, Ingest, IngestMalformed, ReadKey, Orchestrate, WriteRec, PassRec,
         HandlerReturns, HandlerRaises, Restart, Populate, laneVars
<1>. QED  BY <1>1, <1>2, <1>3

\* An event whose publication has returned was accepted or set aside, however
\* many answers were lost (publisher.py).
THEOREM NoSilentLoss == EventSpec => []NothingLostSilently
<1>1. PublisherInv => NothingLostSilently
  BY DEF PublisherInv
<1>. QED  BY <1>1, InitPublisher, PublisherNext, PTL DEF EventSpec

-----------------------------------------------------------------------------
(* The lane                                                                  *)

Bundle       == [key : Key, gen : Generation]
HistoryEntry == [gen : Generation, day : Nat, status : {"written", "shadowed"}]

LaneRecord == [phase : {"idle", "reading", "writing"}, event : SUBSET Event,
               todo : SUBSET Key, bundles : Seq(Bundle), day : Nat, shadow : BOOLEAN]

LaneTypeOK ==
    /\ lane \in LaneRecord
    /\ online \in [gen : 0..MaxGeneration, keys : SUBSET Key]
    /\ online.keys # {} => online.gen > 0
    /\ history \in [Key -> Seq(HistoryEntry)]

\* The target has a result for each write it made.
WritesHaveResults ==
    \A k \in Key : \A i \in DOMAIN history[k] :
        <<k, history[k][i].gen, history[k][i].day>> \in results

\* No write is of a snapshot that is still to come.
HistoryIsPast ==
    \A k \in Key : \A i \in DOMAIN history[k] : history[k][i].gen <= online.gen

\* The bundles the lane holds are of different keys, each at least as new as
\* all that was written of its key, and none is to be read again.
LaneIsFresh(l) ==
    \A i \in DOMAIN l.bundles :
        /\ l.bundles[i].gen <= online.gen
        /\ l.bundles[i].key \notin l.todo
        /\ \A j \in DOMAIN l.bundles : l.bundles[i].key = l.bundles[j].key => i = j
        /\ \A n \in DOMAIN history[l.bundles[i].key] :
              history[l.bundles[i].key][n].gen <= l.bundles[i].gen

\* The inductive invariant of the lane.
LaneInv ==
    /\ LaneTypeOK
    /\ WritesHaveResults /\ HistoryIsPast /\ LaneIsFresh(lane)
    /\ OneWritePerSnapshot /\ LevelsNeverGoBack /\ UnattendedWritesAreSafe

\* Nothing is in the lane when it waits.
LEMMA WaitingIsFresh == Waiting \in LaneRecord /\ LaneIsFresh(Waiting)
<1>1. <<>> \in Seq(Bundle) /\ DOMAIN <<>> = {}
  OBVIOUS
<1>. QED  BY <1>1 DEF Waiting, LaneRecord, LaneIsFresh

\* The invariant holds before anything is written.
LEMMA InitLane == EventInit => LaneInv
<1>. SUFFICES ASSUME EventInit PROVE LaneInv
  OBVIOUS
<1>1. \A k \in Key : history[k] = <<>> /\ DOMAIN history[k] = {}
  BY DEF EventInit
<1>2. history \in [Key -> Seq(HistoryEntry)]
  BY DEF EventInit
<1>3. LaneTypeOK
  BY <1>2, EventAssumption, WaitingIsFresh DEF EventInit, LaneTypeOK
<1>4. LaneIsFresh(lane)
  BY WaitingIsFresh DEF EventInit
<1>. QED  BY <1>1, <1>3, <1>4 DEF LaneInv, WritesHaveResults, HistoryIsPast,
          OneWritePerSnapshot, LevelsNeverGoBack, UnattendedWritesAreSafe

\* A step that writes nothing only has to leave the lane in order.
LEMMA LaneChange ==
    ASSUME LaneInv, UNCHANGED <<online, history, results>>,
           lane' \in LaneRecord, LaneIsFresh(lane')
    PROVE  LaneInv'
<1>1. LaneTypeOK'
  BY DEF LaneInv, LaneTypeOK
<1>2. LaneIsFresh(lane)'
  BY DEF LaneIsFresh
<1>. QED  BY <1>1, <1>2 DEF LaneInv, WritesHaveResults, HistoryIsPast,
          OneWritePerSnapshot, LevelsNeverGoBack, UnattendedWritesAreSafe

\* The fields of a lane, one by one.
LEMMA LaneFields ==
    ASSUME NEW l \in LaneRecord, NEW p, NEW T, NEW B
    PROVE  [[[l EXCEPT !.phase = p] EXCEPT !.todo = T] EXCEPT !.bundles = B] =
               [phase |-> p, event |-> l.event, todo |-> T, bundles |-> B,
                day |-> l.day, shadow |-> l.shadow]
<1>1. PICK x : x = [l EXCEPT !.phase = p]
  OBVIOUS
<1>2. x = [phase |-> p, event |-> l.event, todo |-> l.todo, bundles |-> l.bundles,
           day |-> l.day, shadow |-> l.shadow]
  BY <1>1 DEF LaneRecord
<1>3. PICK y : y = [x EXCEPT !.todo = T]
  OBVIOUS
<1>4. y = [phase |-> p, event |-> l.event, todo |-> T, bundles |-> l.bundles,
           day |-> l.day, shadow |-> l.shadow]
  BY <1>2, <1>3
<1>5. [y EXCEPT !.bundles = B] = [phase |-> p, event |-> l.event, todo |-> T, bundles |-> B,
                                  day |-> l.day, shadow |-> l.shadow]
  BY <1>4
<1>. QED  BY <1>1, <1>3, <1>5

\* An event brings its keys and no bundle.
LEMMA IngestInv ==
    ASSUME LaneInv, NEW e \in Event, Ingest(e)
    PROVE  LaneInv'
<1>1. ResolvedKeys(e) \in SUBSET Key /\ DayOf[e] \in Nat
  BY EventAssumption DEF ResolvedKeys
<1>2. <<>> \in Seq(Bundle) /\ DOMAIN <<>> = {}
  OBVIOUS
<1>3. lane' = Handling({e}, ResolvedKeys(e), <<>>, DayOf[e], FALSE)
      /\ UNCHANGED <<online, history, results>>
  BY DEF Ingest, targetVars
<1>4. lane' \in LaneRecord /\ LaneIsFresh(lane')
  BY <1>1, <1>2, <1>3 DEF LaneRecord, LaneIsFresh, Handling
<1>. QED  BY <1>3, <1>4, LaneChange

\* A bundle that is read is of the current generation and of a key that is due.
LEMMA ReadKeyInv ==
    ASSUME LaneInv, NEW k \in Key, ReadKey(k)
    PROVE  LaneInv'
<1>. DEFINE b == [key |-> k, gen |-> online.gen]
            B == IF k \in online.keys THEN Append(lane.bundles, b) ELSE lane.bundles
            l == [phase |-> lane.phase, event |-> lane.event, todo |-> lane.todo \ {k},
                  bundles |-> B, day |-> lane.day, shadow |-> lane.shadow]
<1>0. lane \in LaneRecord /\ lane.bundles \in Seq(Bundle) /\ LaneIsFresh(lane)
  BY DEF LaneInv, LaneTypeOK, LaneRecord
<1>1. lane' = l /\ UNCHANGED <<online, history, results>>
  <2>1. [[[lane EXCEPT !.phase = lane.phase] EXCEPT !.todo = lane.todo \ {k}]
            EXCEPT !.bundles = B] = l
    BY <1>0, LaneFields
  <2>2. [lane EXCEPT !.phase = lane.phase] = lane
    BY <1>0 DEF LaneRecord
  <2>3. [lane EXCEPT !.todo = lane.todo \ {k}].bundles = lane.bundles
    BY <1>0 DEF LaneRecord
  <2>. QED  BY <2>1, <2>2, <2>3 DEF ReadKey, targetVars
<1>2. l \in LaneRecord /\ LaneIsFresh(l)
  <2>1. CASE k \in online.keys
    <3>1. b \in Bundle /\ B = Append(lane.bundles, b)
      BY <2>1 DEF LaneInv, LaneTypeOK, Bundle, Generation
    <3>2. /\ B \in Seq(Bundle)
          /\ DOMAIN B = 1..(Len(lane.bundles) + 1)
          /\ DOMAIN lane.bundles = 1..Len(lane.bundles) /\ Len(lane.bundles) \in Nat
          /\ B[Len(lane.bundles) + 1] = b
          /\ \A i \in 1..Len(lane.bundles) : B[i] = lane.bundles[i]
      BY <1>0, <3>1, AppendProperties, LenProperties
    <3>3. k \in lane.todo
      BY DEF ReadKey
    <3>4. \A n \in DOMAIN history[k] : history[k][n].gen <= online.gen
      BY DEF LaneInv, HistoryIsPast
    <3>5. online.gen \in 0..MaxGeneration /\ MaxGeneration \in Nat
      BY EventAssumption DEF LaneInv, LaneTypeOK
    <3>6. ASSUME NEW i \in DOMAIN B
          PROVE  /\ B[i].gen <= online.gen
                 /\ B[i].key \notin lane.todo \ {k}
                 /\ \A j \in DOMAIN B : B[i].key = B[j].key => i = j
                 /\ \A n \in DOMAIN history[B[i].key] : history[B[i].key][n].gen <= B[i].gen
      <4>1. CASE i = Len(lane.bundles) + 1
        <5>1. B[i].gen = online.gen /\ B[i].key = k
          BY <3>2, <4>1
        <5>2. \A j \in DOMAIN B : B[j].key = k => j = i
          BY <1>0, <3>2, <3>3, <4>1 DEF LaneIsFresh
        <5>. QED  BY <3>4, <3>5, <5>1, <5>2
      <4>2. CASE i # Len(lane.bundles) + 1
        <5>1. i \in DOMAIN lane.bundles /\ B[i] = lane.bundles[i]
          BY <3>2, <4>2
        <5>2. \A j \in DOMAIN B : B[i].key = B[j].key => i = j
          BY <1>0, <3>2, <3>3, <5>1 DEF LaneIsFresh
        <5>. QED  BY <1>0, <5>1, <5>2 DEF LaneIsFresh
      <4>. QED  BY <4>1, <4>2
    <3>. HIDE DEF B
    <3>7. l.bundles = B /\ l.todo = lane.todo \ {k}
      OBVIOUS
    <3>8. l \in LaneRecord
      BY <1>0, <3>2 DEF LaneRecord
    <3>. HIDE DEF l
    <3>. QED  BY <3>6, <3>7, <3>8 DEF LaneIsFresh
  <2>2. CASE k \notin online.keys
    BY <1>0, <2>2 DEF LaneRecord, LaneIsFresh
  <2>. QED  BY <2>1, <2>2
<1>. HIDE DEF l
<1>. QED  BY <1>1, <1>2, LaneChange

\* A finite set, one element after the other.
LEMMA SetToSeqOrder ==
    ASSUME NEW S, IsFiniteSet(S)
    PROVE  /\ Cardinality(S) \in Nat
           /\ SetToSeq(S) \in [1..Cardinality(S) -> S]
           /\ \A i, j \in 1..Cardinality(S) : SetToSeq(S)[i] = SetToSeq(S)[j] => i = j
<1>1. Cardinality(S) \in Nat /\ ExistsBijection(1..Cardinality(S), S)
  BY FS_CardinalityType
<1>2. PICK f \in Bijection(1..Cardinality(S), S) : TRUE
  BY <1>1 DEF ExistsBijection
<1>3. f \in [1..Cardinality(S) -> S] /\ IsInjective(f)
  <2>1. f \in [1..Cardinality(S) -> S]
    BY <1>2, Fun_BijectionProperties
  <2>2. \A a, b \in 1..Cardinality(S) : f[a] = f[b] => a = b
    BY <1>2, Fun_BijectionProperties
  <2>. QED  BY <2>1, <2>2 DEF IsInjective
<1>4. SetToSeq(S) \in [1..Cardinality(S) -> S] /\ IsInjective(SetToSeq(S))
  BY <1>3 DEF SetToSeq
<1>. QED  BY <1>1, <1>4 DEF IsInjective

\* The batch lane takes each key once.
LEMMA OrchestrateInv ==
    ASSUME LaneInv, NEW day \in Nat, NEW shadow \in BOOLEAN, Orchestrate(day, shadow)
    PROVE  LaneInv'
<1>. DEFINE order == SetToSeq(online.keys)
            n == Cardinality(online.keys)
            B == [i \in DOMAIN order |-> [key |-> order[i], gen |-> online.gen]]
<1>1. /\ n \in Nat /\ order \in [1..n -> online.keys]
      /\ \A i, j \in 1..n : order[i] = order[j] => i = j
  <2>1. IsFiniteSet(online.keys)
    BY EventAssumption, FS_Subset DEF LaneInv, LaneTypeOK
  <2>. QED  BY <2>1, SetToSeqOrder
<1>2. lane' = Handling({}, {}, B, day, shadow) /\ UNCHANGED <<online, history, results>>
  BY DEF Orchestrate, targetVars
<1>3. /\ online.gen \in Generation /\ online.keys \in SUBSET Key
      /\ online.gen <= online.gen
  BY EventAssumption DEF Orchestrate, LaneInv, LaneTypeOK, Generation
<1>. HIDE DEF order, n
<1>4. /\ DOMAIN B = 1..n
      /\ \A i \in 1..n : B[i].key = order[i] /\ B[i].gen = online.gen /\ B[i] \in Bundle
  BY <1>1, <1>3 DEF Bundle
<1>5. B \in Seq(Bundle)
  BY <1>1, <1>4
<1>6. \A i \in 1..n : \A m \in DOMAIN history[order[i]] :
          history[order[i]][m].gen <= online.gen
  BY <1>1, <1>3 DEF LaneInv, HistoryIsPast
<1>. HIDE DEF B
<1>7. lane' \in LaneRecord /\ lane'.bundles = B /\ lane'.todo = {}
  BY <1>2, <1>5 DEF LaneRecord, Handling
<1>8. LaneIsFresh(lane')
  BY <1>1, <1>3, <1>4, <1>6, <1>7 DEF LaneIsFresh
<1>. QED  BY <1>2, <1>7, <1>8, LaneChange

\* The first bundle goes, and the others stay in order.
LEMMA NextRecFresh ==
    ASSUME LaneInv, lane.bundles # <<>>, NextRec
    PROVE  /\ lane' \in LaneRecord
           /\ \A i \in DOMAIN lane'.bundles :
                 /\ i + 1 \in DOMAIN lane.bundles
                 /\ lane'.bundles[i] = lane.bundles[i + 1]
                 /\ lane'.bundles[i].key # Head(lane.bundles).key
           /\ LaneIsFresh(lane')
           /\ Head(lane.bundles) \in Bundle
           /\ Head(lane.bundles).gen <= online.gen
           /\ \A n \in DOMAIN history[Head(lane.bundles).key] :
                 history[Head(lane.bundles).key][n].gen <= Head(lane.bundles).gen
<1>. DEFINE B == lane.bundles
            l == [phase |-> "writing", event |-> lane.event, todo |-> lane.todo,
                  bundles |-> Tail(B), day |-> lane.day, shadow |-> lane.shadow]
<1>0. lane \in LaneRecord /\ B \in Seq(Bundle) /\ B # <<>> /\ LaneIsFresh(lane)
  BY DEF LaneInv, LaneTypeOK, LaneRecord
<1>1. lane' = l
  <2>1. [[[lane EXCEPT !.phase = "writing"] EXCEPT !.todo = lane.todo]
            EXCEPT !.bundles = Tail(B)] = l
    BY <1>0, LaneFields
  <2>2. [[lane EXCEPT !.phase = "writing"] EXCEPT !.todo = lane.todo]
            = [lane EXCEPT !.phase = "writing"]
    BY <1>0 DEF LaneRecord
  <2>3. [lane EXCEPT !.phase = "writing"].bundles = B
    BY <1>0 DEF LaneRecord
  <2>. QED  BY <2>1, <2>2, <2>3 DEF NextRec
<1>2. /\ Head(B) \in Bundle /\ Head(B) = B[1]
      /\ Tail(B) \in Seq(Bundle) /\ Len(B) \in Nat \ {0}
      /\ DOMAIN B = 1..Len(B) /\ DOMAIN Tail(B) = 1..(Len(B) - 1)
      /\ \A i \in 1..(Len(B) - 1) : Tail(B)[i] = B[i + 1]
  BY <1>0, HeadTailProperties, LenProperties, EmptySeq
<1>3. lane' \in LaneRecord /\ lane'.bundles = Tail(B) /\ lane'.todo = lane.todo
  BY <1>0, <1>1, <1>2 DEF LaneRecord
<1>4. \A i \in DOMAIN B :
        /\ B[i].gen <= online.gen /\ B[i].key \notin lane.todo
        /\ \A j \in DOMAIN B : B[i].key = B[j].key => i = j
        /\ \A n \in DOMAIN history[B[i].key] : history[B[i].key][n].gen <= B[i].gen
  BY <1>0 DEF LaneIsFresh
<1>. HIDE DEF B, l
<1>5. \A i \in DOMAIN lane'.bundles :
        /\ i + 1 \in DOMAIN B
        /\ lane'.bundles[i] = B[i + 1]
        /\ lane'.bundles[i].key # Head(B).key
  <2>. SUFFICES ASSUME NEW i \in 1..(Len(B) - 1)
                PROVE  /\ i + 1 \in DOMAIN B /\ Tail(B)[i] = B[i + 1]
                       /\ B[i + 1].key # B[1].key
    BY <1>2, <1>3
  <2>1. i + 1 \in DOMAIN B /\ 1 \in DOMAIN B /\ i + 1 # 1 /\ Tail(B)[i] = B[i + 1]
    BY <1>2
  <2>. QED  BY <1>4, <2>1
<1>6. LaneIsFresh(lane')
  <2>1. \A i, j \in DOMAIN lane'.bundles : i + 1 = j + 1 => i = j
    BY <1>2, <1>3
  <2>. QED  BY <1>3, <1>4, <1>5, <2>1 DEF LaneIsFresh
<1>7. 1 \in DOMAIN B
  BY <1>2
<1>. QED  BY <1>2, <1>3, <1>4, <1>5, <1>6, <1>7 DEF B

\* A recommendation that is not written leaves the lane in order.
LEMMA PassRecInv ==
    ASSUME LaneInv, PassRec
    PROVE  LaneInv'
<1>1. lane.bundles # <<>> /\ NextRec /\ UNCHANGED <<online, history, results>>
  BY DEF PassRec, targetVars
<1>. QED  BY <1>1, NextRecFresh, LaneChange

\* What the guardrail approves is safe to write unattended.
LEMMA ApprovedIsSafe ==
    ASSUME NEW rec \in Rec, Enforce(rec) = "approved"
    PROVE  /\ rec.policy /\ ~rec.aog /\ ~rec.deferral
           /\ rec.criticality >= 4 /\ rec.delta <= 100
BY DEF Enforce, Authorize, Rec

\* Appending to one of many sequences: every element is an old one in its place or
\* the new one, which comes after all the old ones.
LEMMA OneMore ==
    ASSUME NEW S, NEW h \in [Key -> Seq(S)], NEW k \in Key, NEW e \in S,
           NEW g, g = [h EXCEPT ![k] = Append(@, e)]
    PROVE  /\ g \in [Key -> Seq(S)]
           /\ \A x \in Key : \A i \in DOMAIN g[x] :
                 \/ i \in DOMAIN h[x] /\ g[x][i] = h[x][i]
                 \/ x = k /\ i = Len(h[k]) + 1 /\ g[x][i] = e
           /\ \A x \in Key : \A i, j \in DOMAIN g[x] :
                 i < j => i \in DOMAIN h[x] /\ g[x][i] = h[x][i]
<1>1. PICK s : s = Append(h[k], e)
  OBVIOUS
<1>2. g = [h EXCEPT ![k] = s]
  BY <1>1
<1>3. h[k] \in Seq(S) /\ Len(h[k]) \in Nat /\ DOMAIN h[k] = 1..Len(h[k])
  BY LenProperties
<1>4. /\ s \in Seq(S) /\ DOMAIN s = 1..(Len(h[k]) + 1) /\ s[Len(h[k]) + 1] = e
      /\ \A i \in 1..Len(h[k]) : s[i] = h[k][i]
  <2>1. s \in Seq(S) /\ Len(s) = Len(h[k]) + 1
    BY <1>1, <1>3, AppendProperties
  <2>2. DOMAIN s = 1..Len(s)
    BY <2>1, LenProperties
  <2>. QED  BY <1>1, <1>3, <2>1, <2>2, AppendProperties
<1>5. g \in [Key -> Seq(S)] /\ g[k] = s /\ \A x \in Key \ {k} : g[x] = h[x]
  BY <1>2, <1>4
<1>6. ASSUME NEW x \in Key, NEW i \in DOMAIN g[x]
      PROVE  \/ i \in DOMAIN h[x] /\ g[x][i] = h[x][i]
             \/ x = k /\ i = Len(h[k]) + 1 /\ g[x][i] = e
  <2>1. CASE x # k
    BY <1>5, <2>1
  <2>2. CASE x = k
    <3>1. i \in 1..Len(h[k]) \/ i = Len(h[k]) + 1
      BY <1>3, <1>4, <1>5, <2>2
    <3>. QED  BY <1>3, <1>4, <1>5, <2>2, <3>1
  <2>. QED  BY <2>1, <2>2
<1>7. ASSUME NEW x \in Key, NEW i \in DOMAIN g[x], NEW j \in DOMAIN g[x], i < j
      PROVE  i \in DOMAIN h[x] /\ g[x][i] = h[x][i]
  <2>1. CASE x # k
    BY <1>5, <2>1
  <2>2. CASE x = k
    <3>1. i \in 1..Len(h[k])
      BY <1>3, <1>4, <1>5, <1>7, <2>2
    <3>. QED  BY <1>3, <1>4, <1>5, <2>2, <3>1
  <2>. QED  BY <2>1, <2>2
<1>. QED  BY <1>5, <1>6, <1>7

\* A write of a key extends its history by one entry.
LEMMA WriteInv ==
    ASSUME LaneInv, lane.bundles # <<>>, NextRec, UNCHANGED online,
           NEW b, b = Head(lane.bundles), Writes(b), ~Replayed(b),
           results' = results \cup {IdempotencyKey(b)},
           NEW status \in {"written", "shadowed"}, status = "written" => ~lane.shadow,
           history' = [history EXCEPT ![b.key] = Append(@, Entry(b, status))]
    PROVE  LaneInv'
<1>. DEFINE k == b.key
            e == Entry(b, status)
            n == Len(history[k])
<1>1. /\ b \in Bundle /\ k \in Key /\ b.gen <= online.gen
      /\ lane' \in LaneRecord /\ LaneIsFresh(lane')
      /\ \A i \in DOMAIN lane'.bundles : lane'.bundles[i].key # k
      /\ \A i \in DOMAIN history[k] : history[k][i].gen <= b.gen
  BY NextRecFresh DEF Bundle
<1>2. /\ e \in HistoryEntry /\ e.gen = b.gen /\ e.day = lane.day /\ e.status = status
      /\ b.gen \in Generation /\ lane.day \in Nat
  BY <1>1 DEF Entry, HistoryEntry, Bundle, LaneInv, LaneTypeOK, LaneRecord
<1>3. /\ history' \in [Key -> Seq(HistoryEntry)]
      /\ \A x \in Key : \A i, j \in DOMAIN history'[x] :
            i < j => i \in DOMAIN history[x] /\ history'[x][i] = history[x][i]
  <2>1. history \in [Key -> Seq(HistoryEntry)]
    BY DEF LaneInv, LaneTypeOK
  <2>. QED  BY <1>1, <1>2, <2>1, OneMore
<1>4. \A x \in Key : \A i \in DOMAIN history'[x] :
         \/ i \in DOMAIN history[x] /\ history'[x][i] = history[x][i]
         \/ x = k /\ i = n + 1 /\ history'[x][i] = e
  <2>1. history \in [Key -> Seq(HistoryEntry)]
    BY DEF LaneInv, LaneTypeOK
  <2>. QED  BY <1>1, <1>2, <2>1, OneMore
<1>5. IdempotencyKey(b) = <<k, e.gen, e.day>> /\ IdempotencyKey(b) \notin results
  BY <1>2 DEF IdempotencyKey, Replayed
<1>. HIDE DEF k, e, n
<1>6. LaneTypeOK'
  BY <1>1, <1>3 DEF LaneInv, LaneTypeOK
<1>7. WritesHaveResults'
  <2>1. results' = results \cup {<<k, e.gen, e.day>>}
    BY <1>5
  <2>2. \A x \in Key : \A i \in DOMAIN history[x] :
            <<x, history[x][i].gen, history[x][i].day>> \in results
    BY DEF WritesHaveResults, LaneInv
  <2>3. ASSUME NEW x \in Key, NEW i \in DOMAIN history'[x]
        PROVE  <<x, history'[x][i].gen, history'[x][i].day>> \in results'
    <3>1. CASE i \in DOMAIN history[x] /\ history'[x][i] = history[x][i]
      BY <2>1, <2>2, <3>1
    <3>2. CASE x = k /\ history'[x][i] = e
      BY <2>1, <3>2
    <3>. QED  BY <1>4, <3>1, <3>2
  <2>. QED  BY <2>3 DEF WritesHaveResults
<1>8. HistoryIsPast'
  BY <1>1, <1>2, <1>4 DEF HistoryIsPast, LaneInv
<1>9. LaneIsFresh(lane)'
  <2>1. ASSUME NEW i \in DOMAIN lane'.bundles PROVE lane'.bundles[i].key \in Key \ {k}
    <3>1. lane'.bundles \in Seq(Bundle)
      BY <1>1 DEF LaneRecord
    <3>2. i \in 1..Len(lane'.bundles)
      BY <3>1, LenProperties
    <3>3. lane'.bundles[i] \in Bundle
      BY <3>1, <3>2, ElementOfSeq
    <3>. QED  BY <1>1, <3>3 DEF Bundle
  <2>2. ASSUME NEW i \in DOMAIN lane'.bundles, NEW j \in DOMAIN history'[lane'.bundles[i].key]
        PROVE  /\ j \in DOMAIN history[lane'.bundles[i].key]
               /\ history'[lane'.bundles[i].key][j] = history[lane'.bundles[i].key][j]
    BY <1>4, <2>1
  <2>. QED  BY <1>1, <2>1, <2>2 DEF LaneIsFresh
<1>10. OneWritePerSnapshot'
  <2>1. \A m \in DOMAIN history[k] :
          history[k][m].gen # e.gen \/ history[k][m].day # e.day
    BY <1>1, <1>5 DEF LaneInv, WritesHaveResults
  <2>2. \A x \in Key : \A i, j \in DOMAIN history[x] :
          i # j => \/ history[x][i].gen # history[x][j].gen
                   \/ history[x][i].day # history[x][j].day
    BY DEF LaneInv, OneWritePerSnapshot
  <2>3. ASSUME NEW x \in Key, NEW i \in DOMAIN history'[x], NEW j \in DOMAIN history'[x], i # j
        PROVE  \/ history'[x][i].gen # history'[x][j].gen
               \/ history'[x][i].day # history'[x][j].day
    <3>1. CASE /\ i \in DOMAIN history[x] /\ history'[x][i] = history[x][i]
               /\ j \in DOMAIN history[x] /\ history'[x][j] = history[x][j]
      BY <2>2, <2>3, <3>1
    <3>2. CASE /\ i \in DOMAIN history[x] /\ history'[x][i] = history[x][i]
               /\ x = k /\ history'[x][j] = e
      BY <2>1, <3>2
    <3>3. CASE /\ j \in DOMAIN history[x] /\ history'[x][j] = history[x][j]
               /\ x = k /\ history'[x][i] = e
      BY <2>1, <3>3
    <3>4. /\ \/ i \in DOMAIN history[x] /\ history'[x][i] = history[x][i]
             \/ x = k /\ i = n + 1 /\ history'[x][i] = e
          /\ \/ j \in DOMAIN history[x] /\ history'[x][j] = history[x][j]
             \/ x = k /\ j = n + 1 /\ history'[x][j] = e
      BY <1>4
    <3>. QED  BY <2>3, <3>1, <3>2, <3>3, <3>4
  <2>. QED  BY <2>3 DEF OneWritePerSnapshot
<1>11. LevelsNeverGoBack'
  <2>1. ASSUME NEW x \in Key, NEW i \in DOMAIN history'[x], NEW j \in DOMAIN history'[x], i < j,
               history'[x][i].status = "written", history'[x][j].status = "written"
        PROVE  history'[x][i].gen <= history'[x][j].gen
    <3>1. i \in DOMAIN history[x] /\ history'[x][i] = history[x][i]
      BY <1>3, <2>1
    <3>2. CASE j \in DOMAIN history[x] /\ history'[x][j] = history[x][j]
      BY <2>1, <3>1, <3>2 DEF LaneInv, LevelsNeverGoBack
    <3>3. CASE x = k /\ history'[x][j] = e
      BY <1>1, <1>2, <3>1, <3>3
    <3>. QED  BY <1>4, <3>2, <3>3
  <2>. QED  BY <2>1 DEF LevelsNeverGoBack
<1>12. UnattendedWritesAreSafe'
  <2>1. status = "written" =>
           \E rec \in Advice[k][e.gen] :
              /\ rec.policy /\ ~rec.aog /\ ~rec.deferral
              /\ rec.criticality >= 4 /\ rec.delta <= 100
    <3>1. Advice[k][b.gen] \subseteq Rec
      BY <1>1, <1>2, EventAssumption
    <3>2. status = "written" => \E rec \in Advice[k][b.gen] : Enforce(rec) = "approved"
      BY DEF Writes, k
    <3>. QED  BY <1>2, <3>1, <3>2, ApprovedIsSafe
  <2>2. ASSUME NEW x \in Key, NEW i \in DOMAIN history'[x], history'[x][i].status = "written"
        PROVE  \E rec \in Advice[x][history'[x][i].gen] :
                  /\ rec.policy /\ ~rec.aog /\ ~rec.deferral
                  /\ rec.criticality >= 4 /\ rec.delta <= 100
    <3>1. CASE i \in DOMAIN history[x] /\ history'[x][i] = history[x][i]
      BY <2>2, <3>1 DEF LaneInv, UnattendedWritesAreSafe
    <3>2. CASE x = k /\ history'[x][i] = e
      BY <1>2, <2>1, <2>2, <3>2
    <3>. QED  BY <1>4, <3>1, <3>2
  <2>. QED  BY <2>2 DEF UnattendedWritesAreSafe
<1>. QED  BY <1>6, <1>7, <1>8, <1>9, <1>10, <1>11, <1>12 DEF LaneInv

\* The target writes, for the record or for good, or defers.
LEMMA WriteRecInv ==
    ASSUME LaneInv, WriteRec
    PROVE  LaneInv'
<1>. DEFINE b == Head(lane.bundles)
<1>1. /\ lane.bundles # <<>> /\ NextRec /\ UNCHANGED online
      /\ Writes(b) /\ ~Replayed(b) /\ results' = results \cup {IdempotencyKey(b)}
  BY DEF WriteRec
<1>2. CASE lane.shadow /\ history' = [history EXCEPT ![b.key] = Append(@, Entry(b, "shadowed"))]
  BY <1>1, <1>2, WriteInv
<1>3. CASE ~lane.shadow /\ history' = [history EXCEPT ![b.key] = Append(@, Entry(b, "written"))]
  BY <1>1, <1>3, WriteInv
<1>4. CASE UNCHANGED history
  <2>1. lane' \in LaneRecord /\ LaneIsFresh(lane')
    BY <1>1, NextRecFresh
  <2>2. LaneTypeOK' /\ LaneIsFresh(lane)'
    BY <1>1, <1>4, <2>1 DEF LaneInv, LaneTypeOK, LaneIsFresh
  <2>. QED  BY <1>1, <1>4, <2>2 DEF LaneInv, WritesHaveResults, HistoryIsPast,
            OneWritePerSnapshot, LevelsNeverGoBack, UnattendedWritesAreSafe
<1>. QED  BY <1>2, <1>3, <1>4 DEF WriteRec

\* A population makes the current generation a later one.
LEMMA PopulateInv ==
    ASSUME LaneInv, NEW keys \in Populated, Populate(keys)
    PROVE  LaneInv'
<1>1. /\ online' = [gen |-> online.gen + 1, keys |-> keys] /\ online.gen < MaxGeneration
      /\ online.gen \in Nat /\ MaxGeneration \in Nat /\ keys \in SUBSET Key
      /\ UNCHANGED <<lane, history, results>>
  BY EventAssumption DEF Populate, LaneInv, LaneTypeOK, ingestorVars, targetVars
<1>2. LaneTypeOK'
  BY <1>1 DEF LaneInv, LaneTypeOK
<1>3. HistoryIsPast'
  <2>1. ASSUME NEW k \in Key, NEW i \in DOMAIN history[k]
        PROVE  history[k][i].gen <= online.gen + 1
    <3>1. history[k][i].gen \in Nat /\ history[k][i].gen <= online.gen
      <4>1. history[k][i] \in HistoryEntry
        BY ElementOfSeq, LenProperties DEF LaneInv, LaneTypeOK
      <4>. QED  BY <4>1 DEF HistoryEntry, Generation, LaneInv, HistoryIsPast
    <3>. QED  BY <1>1, <3>1
  <2>. QED  BY <1>1, <2>1 DEF HistoryIsPast
<1>4. LaneIsFresh(lane)'
  <2>1. ASSUME NEW i \in DOMAIN lane.bundles PROVE lane.bundles[i].gen <= online.gen + 1
    <3>1. lane.bundles[i].gen \in Nat /\ lane.bundles[i].gen <= online.gen
      <4>1. lane.bundles[i] \in Bundle
        BY ElementOfSeq, LenProperties DEF LaneInv, LaneTypeOK, LaneRecord
      <4>. QED  BY <4>1 DEF Bundle, Generation, LaneInv, LaneIsFresh
    <3>. QED  BY <1>1, <3>1
  <2>. QED  BY <1>1, <2>1 DEF LaneInv, LaneIsFresh
<1>. QED  BY <1>1, <1>2, <1>3, <1>4 DEF LaneInv, WritesHaveResults,
          OneWritePerSnapshot, LevelsNeverGoBack, UnattendedWritesAreSafe

\* The invariant of the lane survives every step.
LEMMA LaneNext == LaneInv /\ [EventNext]_laneVars => LaneInv'
<1>. SUFFICES ASSUME LaneInv, [EventNext]_laneVars PROVE LaneInv'
  OBVIOUS
<1>1. ASSUME UNCHANGED <<lane, online, history, results>> PROVE LaneInv'
  BY <1>1, LaneChange DEF LaneInv, LaneTypeOK
<1>2. ASSUME lane' = Waiting, UNCHANGED <<online, history, results>> PROVE LaneInv'
  BY <1>2, WaitingIsFresh, LaneChange
<1>3. ASSUME NEW e \in Event, PublisherStep(e) PROVE LaneInv'
  BY <1>1, <1>3 DEF PublisherStep, Publish, Answered, RefusedForGood, NoAnswer,
                    ingestorVars, targetVars
<1>4. ASSUME HandlerReturns \/ HandlerRaises \/ Restart PROVE LaneInv'
  BY <1>2, <1>4 DEF HandlerReturns, HandlerRaises, Restart, targetVars
<1>5. ASSUME IngestMalformed \/ UNCHANGED laneVars PROVE LaneInv'
  BY <1>1, <1>5 DEF IngestMalformed, laneVars, ingestorVars, targetVars
<1>6. ASSUME NEW e \in Event, NEW s \in BOOLEAN, Orchestrate(DayOf[e], s) PROVE LaneInv'
  <2>1. DayOf[e] \in Nat
    BY EventAssumption
  <2>. QED  BY <1>6, <2>1, OrchestrateInv
<1>. QED  BY <1>3, <1>4, <1>5, <1>6, IngestInv, ReadKeyInv, WriteRecInv, PassRecInv,
          PopulateInv DEF EventNext

\* The inductive invariant of the lane holds in every reachable state.
THEOREM LaneInvariance == EventSpec => []LaneInv
BY InitLane, LaneNext, PTL DEF EventSpec

\* What is recommended from a snapshot on a day is written once, however often its
\* events are delivered and handled (ingestor.py, the idempotency key).
THEOREM WrittenOnce == EventSpec => []OneWritePerSnapshot
<1>1. LaneInv => OneWritePerSnapshot
  BY DEF LaneInv
<1>. QED  BY <1>1, LaneInvariance, PTL

\* The levels of a key never go back to an older snapshot.
THEOREM LevelsGoForward == EventSpec => []LevelsNeverGoBack
<1>1. LaneInv => LevelsNeverGoBack
  BY DEF LaneInv
<1>. QED  BY <1>1, LaneInvariance, PTL

\* What is written unattended is within the bands of the guardrail, and of a part
\* of low criticality without an aircraft on the ground.
THEOREM SafeUnattended == EventSpec => []UnattendedWritesAreSafe
<1>1. LaneInv => UnattendedWritesAreSafe
  BY DEF LaneInv
<1>. QED  BY <1>1, LaneInvariance, PTL
=============================================================================
