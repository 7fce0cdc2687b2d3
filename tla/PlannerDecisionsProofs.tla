----------------------- MODULE PlannerDecisionsProofs -----------------------
(***************************************************************************)
(* Proofs about PlannerDecisions, for any number of callers, keys, uploads *)
(* and seeds: nothing is written that nobody approved, nothing is approved *)
(* twice or while the kill switch is engaged, and a tenant that uploads    *)
(* once keeps its ledger.                                                  *)
(***************************************************************************)
EXTENDS PlannerDecisions, FiniteSetTheorems, TLAPS

Phases == {"idle", "bulk", "next", "allowed", "approved", "writing", "reverting", "reverted"}
Request == [phase : Phases, rec : RecId \cup {NoRec}, targets : SUBSET RecId]

\* What a transaction has read is not known beyond the names of its fields.
CallOf(V) == [phase : CallPhase, status : V, idem : V, old : V, new : V,
              version : V, parent : V]
CallTyped == \E V : call \in [Caller -> CallOf(V)]

DecisionTypeOK ==
    /\ status \in [RecId -> TaskStatus]
    /\ approvals \in [RecId -> {0, 1}]
    /\ seeds \in Nat
    /\ request \in [Caller -> Request]
    /\ upload.phase \in {"idle", "cleared"}
    /\ CallTyped

\* What is pending has not been approved, and what is not seeded yet is not there.
Decided ==
    \A r \in RecId :
        /\ status[r] = "pending" => approvals[r] = 0
        /\ r.seed \notin 1..seeds => status[r] = "absent" /\ approvals[r] = 0

\* What a request asks for, and that it writes what it was asked.
RequestFits(c) ==
    /\ request[c].phase \in {"allowed", "approved", "writing"} => request[c].rec \in RecId
    /\ request[c].phase = "writing" => call[c].idem = request[c].rec.key
    /\ request[c].phase = "reverting" => call[c].idem = None

\* Writes under way, writes made, approvals.
Doing(k)    == {c \in Caller : Deciding(c) /\ request[c].rec.key = k}
Made(k)     == {e \in ByCaller : e.idem = k}
Approved(k) == {r \in RecId : r.key = k /\ approvals[r] > 0}

\* Each write has its approval, and what is counted is finite.
Balanced(k) ==
    /\ IsFiniteSet(Doing(k)) /\ IsFiniteSet(Made(k)) /\ IsFiniteSet(Approved(k))
    /\ Cardinality(Doing(k)) + Cardinality(Made(k)) <= Cardinality(Approved(k))

\* The inductive invariant.
DecisionInv ==
    /\ DecisionTypeOK
    /\ Decided
    /\ \A c \in Caller : RequestFits(c)
    /\ \A k \in Key : Balanced(k)

\* Nothing is seeded, asked or written.
LEMMA InitDecisions == PlannerInit => DecisionInv
<1>. SUFFICES ASSUME PlannerInit PROVE DecisionInv
  OBVIOUS
<1>1. /\ status = [r \in RecId |-> "absent"] /\ approvals = [r \in RecId |-> 0]
      /\ seeds = 0 /\ request = [c \in Caller |-> NotAsked] /\ upload = NoUpload
      /\ ledger = {} /\ call = [c \in Caller |-> NoCall]
  BY DEF PlannerInit, LedgerInit
<1>2. NotAsked \in Request /\ NotAsked.phase = "idle" /\ NoUpload.phase = "idle"
  BY DEF NotAsked, NoUpload, Request, Phases
<1>3. CallTyped
  <2>. DEFINE V == {None, "written", 0}
  <2>1. NoCall \in CallOf(V)
    BY DEF NoCall, CallOf, CallPhase
  <2>. QED  BY <1>1, <2>1 DEF CallTyped
<1>4. DecisionTypeOK
  BY <1>1, <1>2, <1>3 DEF DecisionTypeOK, TaskStatus
<1>5. Decided
  BY <1>1 DEF Decided
<1>6. \A c \in Caller : RequestFits(c)
  BY <1>1, <1>2 DEF RequestFits
<1>7. ASSUME NEW k \in Key PROVE Balanced(k)
  <2>1. Doing(k) = {} /\ Made(k) = {} /\ Approved(k) = {}
    BY <1>1, <1>2 DEF Doing, Deciding, Made, ByCaller, Approved
  <2>. QED  BY <2>1, FS_EmptySet DEF Balanced
<1>. QED  BY <1>4, <1>5, <1>6, <1>7 DEF DecisionInv

-----------------------------------------------------------------------------
(* Transactions                                                              *)

\* A call that begins, goes on or is over.
LEMMA CallSet ==
    ASSUME CallTyped, NEW c \in Caller, NEW W, NEW x \in CallOf(W),
           call' = [call EXCEPT ![c] = x]
    PROVE  /\ CallTyped' /\ call'[c] = x
           /\ \A d \in Caller \ {c} : call'[d] = call[d]
<1>1. PICK V : call \in [Caller -> CallOf(V)]
  BY DEF CallTyped
<1>2. CallOf(V) \subseteq CallOf(V \cup W) /\ CallOf(W) \subseteq CallOf(V \cup W)
  BY DEF CallOf
<1>3. call' \in [Caller -> CallOf(V \cup W)] /\ call'[c] = x
      /\ \A d \in Caller \ {c} : call'[d] = call[d]
  BY <1>1, <1>2
<1>. QED  BY <1>3 DEF CallTyped

\* A call that begins to write has its key, one that begins to roll back has none.
LEMMA CallBegins ==
    ASSUME CallTyped, NEW c \in Caller, NEW k, StartWrite(c, k)
    PROVE  /\ CallTyped' /\ call'[c].idem = k /\ UNCHANGED ledger
           /\ \A d \in Caller \ {c} : call'[d] = call[d]
<1>. DEFINE x == [phase |-> "started",
                  status |-> IF k \in ShadowKey THEN "shadowed" ELSE "written",
                  idem |-> k, old |-> None, new |-> k, version |-> 0, parent |-> 0]
            W == {"shadowed", "written", k, None, 0}
<1>1. x \in CallOf(W) /\ x.idem = k
  BY DEF CallOf, CallPhase
<1>2. UNCHANGED ledger /\ call' = [call EXCEPT ![c] = x]
  BY DEF StartWrite
<1>. HIDE DEF x, W
<1>3. CallTyped' /\ call'[c] = x /\ \A d \in Caller \ {c} : call'[d] = call[d]
  BY <1>1, <1>2, CallSet
<1>. QED  BY <1>1, <1>2, <1>3

\* A rollback has a made up key.
LEMMA RollbackBegins ==
    ASSUME CallTyped, NEW c \in Caller, StartRollback(c)
    PROVE  /\ CallTyped' /\ call'[c].idem = None /\ UNCHANGED ledger
           /\ \A d \in Caller \ {c} : call'[d] = call[d]
<1>. DEFINE x == [phase |-> "read", status |-> "written", idem |-> None,
                  old |-> CurrentLevels, new |-> Latest(Written).old, version |-> 0,
                  parent |-> 0]
            W == {"written", None, CurrentLevels, Latest(Written).old, 0}
<1>1. x \in CallOf(W) /\ x.idem = None
  BY DEF CallOf, CallPhase
<1>2. UNCHANGED ledger /\ call' = [call EXCEPT ![c] = x]
  BY DEF StartRollback
<1>. HIDE DEF x, W
<1>3. CallTyped' /\ call'[c] = x /\ \A d \in Caller \ {c} : call'[d] = call[d]
  BY <1>1, <1>2, CallSet
<1>. QED  BY <1>1, <1>2, <1>3

\* A call that is over.
LEMMA CallEnds ==
    ASSUME CallTyped, NEW c \in Caller, EndCall(c)
    PROVE  CallTyped' /\ \A d \in Caller \ {c} : call'[d] = call[d]
<1>. DEFINE W == {"written", None, 0}
<1>1. NoCall \in CallOf(W)
  BY DEF NoCall, CallOf, CallPhase
<1>2. call' = [call EXCEPT ![c] = NoCall]
  BY DEF EndCall
<1>. HIDE DEF W
<1>. QED  BY <1>1, <1>2, CallSet

\* A call that reads keeps its key.
LEMMA CallReads ==
    ASSUME CallTyped, NEW c \in Caller, CallStep(c)
    PROVE  /\ CallTyped' /\ call'[c].idem = call[c].idem /\ UNCHANGED ledger
           /\ \A d \in Caller \ {c} : call'[d] = call[d]
<1>1. PICK V : call \in [Caller -> CallOf(V)]
  BY DEF CallTyped
<1>2. PICK r \in CallOf(V) : r = call[c]
  BY <1>1
<1>3. ASSUME NEW x, x \in CallOf(V \cup {CurrentLevels, LatestVersion, Cardinality(ledger) + 1}),
             x.idem = r.idem, call' = [call EXCEPT ![c] = x], UNCHANGED ledger
      PROVE  /\ CallTyped' /\ call'[c].idem = call[c].idem /\ UNCHANGED ledger
             /\ \A d \in Caller \ {c} : call'[d] = call[d]
  <2>. DEFINE W == V \cup {CurrentLevels, LatestVersion, Cardinality(ledger) + 1}
  <2>1. x \in CallOf(W)
    BY <1>3
  <2>. HIDE DEF W
  <2>. QED  BY <1>2, <1>3, <2>1, CallSet
<1>4. CASE NotRecorded(c)
  <2>1. PICK x : x = [r EXCEPT !.phase = "unseen"]
    OBVIOUS
  <2>2. x \in CallOf(V \cup {CurrentLevels, LatestVersion, Cardinality(ledger) + 1})
        /\ x.idem = r.idem
    BY <2>1 DEF CallOf, CallPhase
  <2>3. call' = [call EXCEPT ![c] = x] /\ UNCHANGED ledger
    BY <1>1, <1>2, <1>4, <2>1 DEF NotRecorded
  <2>. QED  BY <1>3, <2>2, <2>3
<1>5. CASE ReadLevels(c)
  <2>1. PICK x : x = [r EXCEPT !.phase = "read", !.old = CurrentLevels]
    OBVIOUS
  <2>2. x \in CallOf(V \cup {CurrentLevels, LatestVersion, Cardinality(ledger) + 1})
        /\ x.idem = r.idem
    BY <2>1 DEF CallOf, CallPhase
  <2>3. call' = [call EXCEPT ![c] = x] /\ UNCHANGED ledger
    BY <1>1, <1>2, <1>5, <2>1 DEF ReadLevels
  <2>. QED  BY <1>3, <2>2, <2>3
<1>6. CASE ReadVersion(c)
  <2>1. PICK x : x = [r EXCEPT !.phase = "versioned", !.parent = LatestVersion,
                               !.version = Cardinality(ledger) + 1]
    OBVIOUS
  <2>2. x \in CallOf(V \cup {CurrentLevels, LatestVersion, Cardinality(ledger) + 1})
        /\ x.idem = r.idem
    BY <2>1 DEF CallOf, CallPhase
  <2>3. call' = [call EXCEPT ![c] = x] /\ UNCHANGED ledger
    BY <1>1, <1>2, <1>6, <2>1 DEF ReadVersion
  <2>. QED  BY <1>3, <2>2, <2>3
<1>. QED  BY <1>4, <1>5, <1>6 DEF CallStep

-----------------------------------------------------------------------------
(* The balance of writes and approvals                                       *)

\* A set grows by one element at most.
LEMMA OneMore ==
    ASSUME NEW S, NEW x, IsFiniteSet(S)
    PROVE  IsFiniteSet(S \cup {x}) /\ Cardinality(S \cup {x}) <= Cardinality(S) + 1
<1>1. Cardinality(S) \in Nat
  BY FS_CardinalityType
<1>2. /\ IsFiniteSet(S \cup {x})
      /\ Cardinality(S \cup {x}) = IF x \in S THEN Cardinality(S) ELSE Cardinality(S) + 1
  BY FS_AddElement
<1>. QED  BY <1>1, <1>2

\* Fewer writes, and the same approvals.
LEMMA FewerWrites ==
    ASSUME DecisionInv, NEW k \in Key, approvals' = approvals,
           Doing(k)' \subseteq Doing(k), Made(k)' \subseteq Made(k)
    PROVE  Balanced(k)'
<1>. DEFINE D == Doing(k)
            E == Made(k)
            D1 == Doing(k)'
            E1 == Made(k)'
<1>1. /\ IsFiniteSet(D) /\ IsFiniteSet(E) /\ IsFiniteSet(Approved(k))
      /\ Cardinality(D) + Cardinality(E) <= Cardinality(Approved(k))
  BY DEF DecisionInv, Balanced
<1>2. Approved(k)' = Approved(k)
  BY DEF Approved
<1>. HIDE DEF D, E, D1, E1
<1>3. D1 \in SUBSET D /\ E1 \in SUBSET E
  BY DEF D, E, D1, E1
<1>4. /\ IsFiniteSet(D1) /\ Cardinality(D1) <= Cardinality(D)
      /\ IsFiniteSet(E1) /\ Cardinality(E1) <= Cardinality(E)
  BY <1>1, <1>3, FS_Subset
<1>5. /\ Cardinality(D) \in Nat /\ Cardinality(E) \in Nat /\ Cardinality(D1) \in Nat
      /\ Cardinality(E1) \in Nat /\ Cardinality(Approved(k)) \in Nat
  BY <1>1, <1>4, FS_CardinalityType
<1>6. Cardinality(D1) + Cardinality(E1) <= Cardinality(Approved(k))
  BY <1>1, <1>4, <1>5
<1>. QED  BY <1>1, <1>2, <1>4, <1>6 DEF Balanced, D1, E1

\* A write that was under way is made.
LEMMA WriteMade ==
    ASSUME DecisionInv, NEW k \in Key, approvals' = approvals, NEW c \in Doing(k), NEW e,
           Doing(k)' = Doing(k) \ {c}, Made(k)' \subseteq Made(k) \cup {e}
    PROVE  Balanced(k)'
<1>. DEFINE D == Doing(k)
            E == Made(k)
            F == E \cup {e}
            E1 == Made(k)'
<1>1. /\ IsFiniteSet(D) /\ IsFiniteSet(E) /\ IsFiniteSet(Approved(k))
      /\ Cardinality(D) + Cardinality(E) <= Cardinality(Approved(k))
  BY DEF DecisionInv, Balanced
<1>2. Approved(k)' = Approved(k) /\ Doing(k)' = D \ {c} /\ c \in D
  BY DEF Approved
<1>3. E1 \in SUBSET F
  OBVIOUS
<1>. HIDE DEF D, E, E1
<1>4. /\ IsFiniteSet(D \ {c}) /\ Cardinality(D \ {c}) = Cardinality(D) - 1
      /\ IsFiniteSet(F) /\ Cardinality(F) <= Cardinality(E) + 1
  <2>1. IsFiniteSet(D \ {c}) /\ Cardinality(D \ {c}) = Cardinality(D) - 1
    BY <1>1, <1>2, FS_RemoveElement
  <2>. QED  BY <1>1, <2>1, OneMore
<1>. HIDE DEF F
<1>5. IsFiniteSet(E1) /\ Cardinality(E1) <= Cardinality(F)
  BY <1>3, <1>4, FS_Subset
<1>6. /\ Cardinality(D) \in Nat /\ Cardinality(E) \in Nat /\ Cardinality(F) \in Nat
      /\ Cardinality(E1) \in Nat /\ Cardinality(Approved(k)) \in Nat
  BY <1>1, <1>4, <1>5, FS_CardinalityType
<1>7. Cardinality(D \ {c}) + Cardinality(E1) <= Cardinality(Approved(k))
  BY <1>1, <1>4, <1>5, <1>6
<1>. QED  BY <1>1, <1>2, <1>4, <1>5, <1>7 DEF Balanced, E1

\* A recommendation that was not approved is, and will be written.
LEMMA ApprovalMade ==
    ASSUME DecisionInv, NEW k \in Key, NEW c, NEW r, r \notin Approved(k),
           Approved(k)' = Approved(k) \cup {r}, Doing(k)' = Doing(k) \cup {c},
           Made(k)' = Made(k)
    PROVE  Balanced(k)'
<1>. DEFINE D == Doing(k)
            A == Approved(k)
<1>1. /\ IsFiniteSet(D) /\ IsFiniteSet(Made(k)) /\ IsFiniteSet(A)
      /\ Cardinality(D) + Cardinality(Made(k)) <= Cardinality(A)
  BY DEF DecisionInv, Balanced
<1>2. Doing(k)' = D \cup {c} /\ Approved(k)' = A \cup {r} /\ r \notin A
  OBVIOUS
<1>. HIDE DEF D, A
<1>3. /\ IsFiniteSet(D \cup {c}) /\ Cardinality(D \cup {c}) <= Cardinality(D) + 1
      /\ IsFiniteSet(A \cup {r}) /\ Cardinality(A \cup {r}) = Cardinality(A) + 1
  <2>1. IsFiniteSet(A \cup {r}) /\ Cardinality(A \cup {r}) = Cardinality(A) + 1
    BY <1>1, <1>2, FS_AddElement
  <2>. QED  BY <1>1, <2>1, OneMore
<1>4. /\ Cardinality(D) \in Nat /\ Cardinality(Made(k)) \in Nat /\ Cardinality(A) \in Nat
      /\ Cardinality(D \cup {c}) \in Nat
  BY <1>1, <1>3, FS_CardinalityType
<1>5. Cardinality(D \cup {c}) + Cardinality(Made(k)) <= Cardinality(A \cup {r})
  BY <1>1, <1>3, <1>4
<1>. QED  BY <1>1, <1>2, <1>3, <1>5 DEF Balanced

-----------------------------------------------------------------------------
(* Steps of a request                                                        *)

\* A step of one request that decides nothing leaves to show that this request
\* fits and that the writes are balanced.
LEMMA RequestStep ==
    ASSUME DecisionInv, NEW c \in Caller, UNCHANGED <<status, approvals, seeds, upload>>,
           CallTyped', \A d \in Caller \ {c} : call'[d] = call[d],
           NEW x \in Request, request' = [request EXCEPT ![c] = x],
           x.phase \in {"allowed", "approved", "writing"} => x.rec \in RecId,
           x.phase = "writing" => call'[c].idem = x.rec.key,
           x.phase = "reverting" => call'[c].idem = None,
           \A k \in Key : Balanced(k)'
    PROVE  DecisionInv'
<1>1. DecisionTypeOK /\ Decided
  BY DEF DecisionInv
<1>2. /\ request' \in [Caller -> Request] /\ request'[c] = x
      /\ \A d \in Caller \ {c} : request'[d] = request[d]
  BY <1>1 DEF DecisionTypeOK
<1>3. DecisionTypeOK'
  BY <1>1, <1>2 DEF DecisionTypeOK
<1>4. Decided'
  BY <1>1 DEF Decided
<1>5. \A d \in Caller : RequestFits(d)'
  BY <1>2 DEF DecisionInv, RequestFits
<1>. QED  BY <1>3, <1>4, <1>5 DEF DecisionInv

\* A step that neither writes nor begins to.
LEMMA RequestQuiet ==
    ASSUME DecisionInv, NEW c \in Caller, UNCHANGED <<ledger, status, approvals, seeds, upload>>,
           CallTyped', \A d \in Caller \ {c} : call'[d] = call[d],
           NEW x \in Request, request' = [request EXCEPT ![c] = x],
           x.phase \in {"approved", "writing"} =>
              request[c].phase \in {"approved", "writing"} /\ x.rec = request[c].rec,
           x.phase = "allowed" => x.rec \in RecId,
           x.phase = "writing" => call'[c].idem = x.rec.key,
           x.phase = "reverting" => call'[c].idem = None
    PROVE  DecisionInv'
<1>1. /\ request \in [Caller -> Request] /\ RequestFits(c)
  BY DEF DecisionInv, DecisionTypeOK
<1>2. /\ request'[c] = x /\ \A d \in Caller \ {c} : request'[d] = request[d]
  BY <1>1
<1>3. \A k : Doing(k)' \subseteq Doing(k) /\ Made(k)' = Made(k)
  BY <1>2 DEF Doing, Deciding, Made, ByCaller
<1>4. \A k \in Key : Balanced(k)'
  BY <1>3, FewerWrites
<1>5. x.phase \in {"allowed", "approved", "writing"} => x.rec \in RecId
  BY <1>1 DEF RequestFits
<1>. QED  BY <1>4, <1>5, RequestStep

\* What a request is when it goes to another phase.
LEMMA GotoFields ==
    ASSUME DecisionTypeOK, NEW c \in Caller, NEW phase \in Phases, Goto(c, phase)
    PROVE  \E x \in Request : /\ request' = [request EXCEPT ![c] = x]
                              /\ x.phase = phase /\ x.rec = request[c].rec
<1>1. PICK x : x = [request[c] EXCEPT !.phase = phase]
  OBVIOUS
<1>2. request[c] \in Request /\ request \in [Caller -> Request]
  BY DEF DecisionTypeOK
<1>3. x \in Request /\ x.phase = phase /\ x.rec = request[c].rec
  BY <1>1, <1>2 DEF Request
<1>4. request' = [request EXCEPT ![c] = x]
  BY <1>1, <1>2 DEF Goto
<1>. QED  BY <1>3, <1>4

\* A request that ends.
LEMMA EndFields == NotAsked \in Request /\ NotAsked.phase = "idle"
BY DEF NotAsked, Request, Phases

\* What is asked before an approval commits.
LEMMA AskInv ==
    ASSUME DecisionInv, NEW c \in Caller,
           \/ \E r \in RecId : StartApprove(c, r)
           \/ StartBulkApprove(c) \/ SelectTargets(c) \/ ApproveTarget(c) \/ RefuseApproval(c)
    PROVE  DecisionInv'
<1>1. /\ UNCHANGED <<ledger, status, approvals, seeds, upload>> /\ UNCHANGED call
      /\ DecisionTypeOK
  BY DEF StartApprove, StartBulkApprove, SelectTargets, ApproveTarget, RefuseApproval,
         ledgerVars, decisionVars, DecisionInv
<1>2. CallTyped' /\ request \in [Caller -> Request] /\ request[c] \in Request
  BY <1>1 DEF DecisionTypeOK, CallTyped
<1>3. ASSUME NEW x \in Request, request' = [request EXCEPT ![c] = x],
             x.phase \in {"idle", "bulk", "next", "allowed"},
             x.phase = "allowed" => x.rec \in RecId
      PROVE  DecisionInv'
  BY <1>1, <1>2, <1>3, RequestQuiet
<1>4. ASSUME NEW r \in RecId, StartApprove(c, r)
      PROVE  DecisionInv'
  <2>. DEFINE x == [phase |-> "allowed", rec |-> r, targets |-> {}]
  <2>1. x \in Request /\ x.phase = "allowed" /\ x.rec = r
    BY DEF Request, Phases
  <2>2. request' = [request EXCEPT ![c] = x]
    BY <1>4 DEF StartApprove
  <2>. HIDE DEF x
  <2>. QED  BY <1>3, <2>1, <2>2
<1>5. CASE StartBulkApprove(c)
  <2>1. "bulk" \in Phases /\ Goto(c, "bulk")
    BY <1>5 DEF StartBulkApprove, Phases
  <2>. QED  BY <1>1, <1>3, <2>1, GotoFields
<1>6. ASSUME EndRequest(c)
      PROVE  DecisionInv'
  BY <1>3, <1>6, EndFields DEF EndRequest
<1>7. CASE SelectTargets(c)
  <2>1. PICK targets \in SUBSET RecId :
          request' = [request EXCEPT ![c] =
              IF targets = {} THEN NotAsked
              ELSE [phase |-> "next", rec |-> NoRec, targets |-> targets]]
    BY <1>7 DEF SelectTargets
  <2>. DEFINE x == [phase |-> "next", rec |-> NoRec, targets |-> targets]
  <2>2. x \in Request /\ x.phase = "next"
    BY DEF Request, Phases
  <2>3. request' = [request EXCEPT ![c] = NotAsked] \/ request' = [request EXCEPT ![c] = x]
    BY <2>1
  <2>. HIDE DEF x
  <2>. QED  BY <1>3, <2>2, <2>3, EndFields
<1>8. CASE ApproveTarget(c)
  <2>1. CASE EndRequest(c)
    BY <1>6, <2>1
  <2>2. CASE ~EndRequest(c)
    <3>1. PICK r \in request[c].targets :
              request' = [request EXCEPT ![c] =
                  [phase |-> "allowed", rec |-> r, targets |-> request[c].targets \ {r}]]
      BY <1>2, <1>8, <2>2 DEF ApproveTarget
    <3>. DEFINE x == [phase |-> "allowed", rec |-> r, targets |-> request[c].targets \ {r}]
    <3>2. x \in Request /\ x.phase = "allowed" /\ x.rec \in RecId
      BY <1>2 DEF Request, Phases
    <3>3. request' = [request EXCEPT ![c] = x]
      BY <3>1
    <3>. HIDE DEF x
    <3>. QED  BY <1>3, <3>2, <3>3
  <2>. QED  BY <2>1, <2>2
<1>9. CASE RefuseApproval(c)
  BY <1>6, <1>9 DEF RefuseApproval
<1>. QED  BY <1>4, <1>5, <1>7, <1>8, <1>9

\* An approval commits.
LEMMA ApproveInv ==
    ASSUME DecisionInv, NEW c \in Caller, Approve(c)
    PROVE  DecisionInv'
<1>. DEFINE r == request[c].rec
<1>1. /\ DecisionTypeOK /\ Decided /\ RequestFits(c)
      /\ request[c].phase = "allowed" /\ status[r] = "pending"
      /\ status' = [status EXCEPT ![r] = "approved"]
      /\ approvals' = [approvals EXCEPT ![r] = approvals[r] + 1]
      /\ Goto(c, "approved") /\ UNCHANGED <<ledger, call, seeds, upload>>
  BY DEF Approve, Approvable, DecisionInv, ledgerVars
<1>2. r \in RecId /\ approvals[r] = 0
  BY <1>1 DEF RequestFits, Decided
<1>3. /\ approvals' \in [RecId -> {0, 1}] /\ approvals'[r] = 1
      /\ \A q \in RecId \ {r} : approvals'[q] = approvals[q]
      /\ status' \in [RecId -> TaskStatus] /\ status'[r] = "approved"
      /\ \A q \in RecId \ {r} : status'[q] = status[q]
  BY <1>1, <1>2 DEF DecisionTypeOK, TaskStatus
<1>4. PICK x \in Request : /\ request' = [request EXCEPT ![c] = x]
                           /\ x.phase = "approved" /\ x.rec = r
  BY <1>1, GotoFields DEF Phases
<1>5. /\ request' \in [Caller -> Request] /\ request'[c] = x
      /\ \A d \in Caller \ {c} : request'[d] = request[d]
  BY <1>1, <1>4 DEF DecisionTypeOK
<1>. HIDE DEF r
<1>6. DecisionTypeOK'
  BY <1>1, <1>3, <1>5 DEF DecisionTypeOK, CallTyped
<1>7. Decided'
  <2>1. status[r] = "pending"
    BY <1>1 DEF r
  <2>2. r.seed \in 1..seeds
    BY <1>1, <1>2, <2>1 DEF Decided
  <2>. QED  BY <1>1, <1>2, <1>3, <2>2 DEF Decided
<1>8. \A d \in Caller : RequestFits(d)'
  BY <1>1, <1>2, <1>4, <1>5 DEF DecisionInv, RequestFits
<1>9. ASSUME NEW k \in Key PROVE Balanced(k)'
  <2>1. Made(k)' = Made(k)
    BY <1>1 DEF Made, ByCaller
  <2>2. ~Deciding(c) /\ Deciding(c)'
    BY <1>1, <1>4, <1>5 DEF Deciding
  <2>3. CASE r.key = k
    <3>1. r \notin Approved(k) /\ Approved(k)' = Approved(k) \cup {r}
      BY <1>2, <1>3, <2>3 DEF Approved
    <3>2. Doing(k)' = Doing(k) \cup {c}
      BY <1>4, <1>5, <2>2, <2>3 DEF Doing, Deciding
    <3>. QED  BY <2>1, <3>1, <3>2, ApprovalMade
  <2>4. CASE r.key # k
    <3>1. Approved(k)' = Approved(k)
      BY <1>2, <1>3, <2>4 DEF Approved
    <3>2. Doing(k)' = Doing(k)
      BY <1>4, <1>5, <2>2, <2>4 DEF Doing, Deciding
    <3>. QED  BY <2>1, <3>1, <3>2 DEF DecisionInv, Balanced
  <2>. QED  BY <2>3, <2>4
<1>. QED  BY <1>6, <1>7, <1>8, <1>9 DEF DecisionInv

\* A write or a rollback goes on, without an entry in the ledger.
LEMMA GoOnInv ==
    ASSUME DecisionInv, NEW c \in Caller,
           \/ BeginWrite(c) \/ WriteGoesOn(c) \/ WriteRaises(c)
           \/ BeginRollback(c) \/ RecordRollback(c) \/ RequestDies(c)
    PROVE  DecisionInv'
<1>1. /\ UNCHANGED <<ledger, status, approvals, seeds, upload>>
      /\ DecisionTypeOK /\ CallTyped /\ RequestFits(c)
      /\ request \in [Caller -> Request]
  BY DEF BeginWrite, WriteGoesOn, WriteRaises, BeginRollback, RecordRollback, RequestDies,
         StartWrite, StartRollback, CallStep, NotRecorded, ReadLevels, ReadVersion,
         VersionTaken, decisionVars, ledgerVars, DecisionInv, DecisionTypeOK
<1>2. CASE BeginWrite(c)
  <2>1. CallTyped' /\ call'[c].idem = request[c].rec.key
        /\ \A d \in Caller \ {c} : call'[d] = call[d]
    BY <1>1, <1>2, CallBegins DEF BeginWrite
  <2>2. Goto(c, "writing") /\ "writing" \in Phases /\ request[c].phase = "approved"
    BY <1>2 DEF BeginWrite, Phases
  <2>3. PICK x \in Request : /\ request' = [request EXCEPT ![c] = x]
                             /\ x.phase = "writing" /\ x.rec = request[c].rec
    BY <1>1, <2>2, GotoFields
  <2>. QED  BY <1>1, <2>1, <2>2, <2>3, RequestQuiet
<1>3. CASE WriteGoesOn(c)
  <2>1. CallTyped' /\ call'[c].idem = call[c].idem
        /\ \A d \in Caller \ {c} : call'[d] = call[d]
    BY <1>1, <1>3, CallReads DEF WriteGoesOn
  <2>2. request' = request
    BY <1>3 DEF WriteGoesOn
  <2>3. request[c] \in Request /\ request' = [request EXCEPT ![c] = request[c]]
    BY <1>1, <2>2
  <2>. QED  BY <1>1, <2>1, <2>3, RequestQuiet DEF RequestFits
<1>4. CASE EndRequest(c) /\ EndCall(c)
  BY <1>1, <1>4, CallEnds, EndFields, RequestQuiet DEF EndRequest
<1>5. CASE BeginRollback(c)
  <2>1. CallTyped' /\ call'[c].idem = None
        /\ \A d \in Caller \ {c} : call'[d] = call[d]
    BY <1>1, <1>5, RollbackBegins DEF BeginRollback
  <2>2. Goto(c, "reverting") /\ "reverting" \in Phases
    BY <1>5 DEF BeginRollback, Phases
  <2>3. PICK x \in Request : /\ request' = [request EXCEPT ![c] = x] /\ x.phase = "reverting"
    BY <1>1, <2>2, GotoFields
  <2>. QED  BY <1>1, <2>1, <2>3, RequestQuiet
<1>6. CASE RecordRollback(c)
  <2>1. UNCHANGED call /\ EndRequest(c)
    BY <1>6 DEF RecordRollback, ledgerVars
  <2>2. CallTyped'
    BY <1>1, <2>1 DEF CallTyped
  <2>. QED  BY <1>1, <2>1, <2>2, EndFields, RequestQuiet DEF EndRequest
<1>. QED  BY <1>2, <1>3, <1>4, <1>5, <1>6 DEF WriteRaises, VersionTaken, RequestDies

\* A write returns, with an entry in the ledger or without.
LEMMA WriteReturnsInv ==
    ASSUME DecisionInv, NEW c \in Caller, WriteReturns(c)
    PROVE  DecisionInv'
<1>1. /\ UNCHANGED <<status, approvals, seeds, upload>> /\ EndCall(c)
      /\ DecisionTypeOK /\ CallTyped /\ RequestFits(c)
      /\ request \in [Caller -> Request] /\ request[c].phase = "writing"
      /\ UNCHANGED ledger \/ ledger' = ledger \cup {EntryOf(c)}
  BY DEF WriteReturns, CallReturns, Replay, DeferForOpenOrder, Commit, decisionVars,
         DecisionInv, DecisionTypeOK
<1>2. CallTyped' /\ \A d \in Caller \ {c} : call'[d] = call[d]
  BY <1>1, CallEnds
<1>3. PICK x \in Request : request' = [request EXCEPT ![c] = x] /\ x.phase \in {"idle", "next"}
  <2>. DEFINE y == [phase |-> "next", rec |-> NoRec, targets |-> request[c].targets]
  <2>1. request[c] \in Request
    BY <1>1
  <2>2. y \in Request /\ y.phase = "next"
    BY <2>1 DEF Request, Phases
  <2>3. request' = [request EXCEPT ![c] = NotAsked] \/ request' = [request EXCEPT ![c] = y]
    BY <1>1 DEF WriteReturns, NextTarget
  <2>. HIDE DEF y
  <2>. QED  BY <2>2, <2>3, EndFields
<1>4. /\ request'[c] = x /\ \A d \in Caller \ {c} : request'[d] = request[d]
  BY <1>1, <1>3
<1>5. ASSUME NEW k \in Key PROVE Balanced(k)'
  <2>1. Doing(k)' = Doing(k) \ {c}
    BY <1>3, <1>4 DEF Doing, Deciding
  <2>2. CASE c \in Doing(k)
    <3>1. Made(k)' \subseteq Made(k) \cup {EntryOf(c)}
      BY <1>1 DEF Made, ByCaller
    <3>. QED  BY <1>1, <2>1, <2>2, <3>1, WriteMade
  <2>3. CASE c \notin Doing(k)
    <3>1. EntryOf(c).idem # k
      <4>1. EntryOf(c).idem = call[c].idem
        BY DEF EntryOf
      <4>2. request[c].rec.key # k
        BY <1>1, <2>3 DEF Doing, Deciding
      <4>. QED  BY <1>1, <4>1, <4>2 DEF RequestFits
    <3>2. Made(k)' = Made(k)
      BY <1>1, <3>1 DEF Made, ByCaller
    <3>. QED  BY <1>1, <2>1, <3>2, FewerWrites
  <2>. QED  BY <2>2, <2>3
<1>. QED  BY <1>1, <1>2, <1>3, <1>5, RequestStep

\* A rollback returns: its entry is of no recommendation.
LEMMA RollbackReturnsInv ==
    ASSUME DecisionInv, NEW c \in Caller, RollbackReturns(c)
    PROVE  DecisionInv'
<1>1. /\ UNCHANGED <<status, approvals, seeds, upload>> /\ EndCall(c)
      /\ DecisionTypeOK /\ CallTyped /\ RequestFits(c)
      /\ request \in [Caller -> Request] /\ request[c].phase = "reverting"
      /\ UNCHANGED ledger \/ ledger' = ledger \cup {EntryOf(c)}
  BY DEF RollbackReturns, CallReturns, Replay, DeferForOpenOrder, Commit, decisionVars,
         DecisionInv, DecisionTypeOK
<1>2. CallTyped' /\ \A d \in Caller \ {c} : call'[d] = call[d]
  BY <1>1, CallEnds
<1>3. PICK x \in Request : request' = [request EXCEPT ![c] = x] /\ x.phase = "reverted"
  <2>1. Goto(c, "reverted") /\ "reverted" \in Phases
    BY DEF RollbackReturns, Phases
  <2>. QED  BY <1>1, <2>1, GotoFields
<1>4. /\ request'[c] = x /\ \A d \in Caller \ {c} : request'[d] = request[d]
  BY <1>1, <1>3
<1>5. ASSUME NEW k \in Key PROVE Balanced(k)'
  <2>1. Doing(k)' \subseteq Doing(k)
    BY <1>3, <1>4 DEF Doing, Deciding
  <2>2. EntryOf(c).idem # k
    BY <1>1, KeyAssumption DEF EntryOf, RequestFits
  <2>3. Made(k)' = Made(k)
    BY <1>1, <2>2 DEF Made, ByCaller
  <2>. QED  BY <1>1, <2>1, <2>3, FewerWrites
<1>. QED  BY <1>1, <1>2, <1>3, <1>5, RequestStep

-----------------------------------------------------------------------------
(* Steps of others                                                           *)

\* A step that leaves the requests and the approvals alone, and writes nothing
\* for a caller.
LEMMA OthersStep ==
    ASSUME DecisionInv, UNCHANGED <<approvals, request, call>>, DecisionTypeOK', Decided',
           ByCaller' \subseteq ByCaller
    PROVE  DecisionInv'
<1>1. \A c \in Caller : RequestFits(c)'
  BY DEF DecisionInv, RequestFits
<1>2. \A k : Doing(k)' = Doing(k) /\ Made(k)' \subseteq Made(k)
  BY DEF Doing, Deciding, Made
<1>3. \A k \in Key : Balanced(k)'
  BY <1>2, FewerWrites
<1>. QED  BY <1>1, <1>3 DEF DecisionInv

\* The planner rejects, defers, or turns the kill switch.
LEMMA OverruleInv ==
    ASSUME DecisionInv,
           \/ \E r \in RecId, decision \in {"rejected", "deferred"} : Overrule(r, decision)
           \/ \E value \in BOOLEAN : SetKillSwitch(value)
           \/ UNCHANGED plannerVars
    PROVE  DecisionInv'
<1>1. UNCHANGED <<ledger, call, approvals, request, seeds, upload>>
  BY DEF Overrule, SetKillSwitch, plannerVars, decisionVars, ledgerVars
<1>2. DecisionTypeOK /\ Decided /\ CallTyped' /\ ByCaller' = ByCaller
  BY <1>1 DEF DecisionInv, DecisionTypeOK, CallTyped, ByCaller
<1>3. ASSUME NEW r \in RecId, NEW decision \in {"rejected", "deferred"}, Overrule(r, decision)
      PROVE  DecisionInv'
  <2>1. /\ status[r] # "absent" /\ status' = [status EXCEPT ![r] = decision]
    BY <1>3 DEF Overrule
  <2>2. /\ status' \in [RecId -> TaskStatus] /\ status'[r] = decision
        /\ \A q \in RecId \ {r} : status'[q] = status[q]
    BY <1>2, <2>1 DEF DecisionTypeOK, TaskStatus
  <2>3. DecisionTypeOK'
    BY <1>1, <1>2, <2>2 DEF DecisionTypeOK
  <2>4. Decided'
    BY <1>1, <1>2, <2>1, <2>2 DEF Decided
  <2>. QED  BY <1>1, <1>2, <2>3, <2>4, OthersStep
<1>4. CASE UNCHANGED status
  <2>1. DecisionTypeOK' /\ Decided'
    BY <1>1, <1>2, <1>4 DEF DecisionTypeOK, Decided
  <2>. QED  BY <1>1, <1>2, <2>1, OthersStep
<1>. QED  BY <1>3, <1>4 DEF SetKillSwitch, plannerVars, decisionVars

\* What an upload seeds is of no caller.
LEMMA SeededIsOfNoCaller ==
    ASSUME NEW auto, NEW seeded \in SeededLedgers(auto), NEW e \in seeded
    PROVE  e.by = "seed"
<1>1. PICK order : seeded = {SeededEntry(order[n], n - 1, IF n = 1 THEN None ELSE order[n - 1]) :
                                n \in DOMAIN order}
  BY DEF SeededLedgers
<1>2. PICK n \in DOMAIN order :
         e = SeededEntry(order[n], n - 1, IF n = 1 THEN None ELSE order[n - 1])
  BY <1>1
<1>. QED  BY <1>2 DEF SeededEntry

\* Recommendations are seeded, or an upload begins or is given up.
LEMMA SeedInv ==
    ASSUME DecisionInv, SeedStep
    PROVE  DecisionInv'
<1>1. UNCHANGED <<call, approvals, request>>
  BY DEF SeedStep, Recompute, ClearForUpload, SeedUpload, AbandonUpload, ledgerVars
<1>2. DecisionTypeOK /\ Decided /\ CallTyped'
  BY <1>1 DEF DecisionInv, DecisionTypeOK, CallTyped
<1>3. ByCaller' \subseteq ByCaller
  <2>1. CASE SeedUpload
    <3>1. PICK verdict, seeded :
             /\ seeded \in SeededLedgers({k \in Key : verdict[k] = "approved"})
             /\ ledger' = (ledger \ upload.doomed) \cup seeded
      BY <2>1 DEF SeedUpload
    <3>2. \A e \in seeded : e.by = "seed"
      BY <3>1, SeededIsOfNoCaller
    <3>. QED  BY <3>1, <3>2 DEF ByCaller
  <2>2. CASE UNCHANGED ledger
    BY <2>2 DEF ByCaller
  <2>. QED  BY <2>1, <2>2 DEF SeedStep, Recompute, ClearForUpload, AbandonUpload, ledgerVars
<1>4. upload'.phase \in {"idle", "cleared"}
  BY <1>2 DEF SeedStep, Recompute, ClearForUpload, SeedUpload, AbandonUpload, NoUpload,
              DecisionTypeOK
<1>5. CASE Recompute \/ SeedUpload
  <2>1. PICK verdict \in [Key -> TaskStatus] : Reseed(verdict) /\ seeds' = seeds + 1
    BY <1>5 DEF Recompute, SeedUpload, Verdicts
  <2>2. \A r \in RecId : /\ status'[r] \in TaskStatus
                         /\ r.seed # seeds + 1 => status'[r] = "absent"
    BY <2>1 DEF Reseed, RecId, TaskStatus
  <2>3. status' \in [RecId -> TaskStatus]
    BY <2>1, <2>2 DEF Reseed
  <2>4. DecisionTypeOK'
    BY <1>1, <1>2, <1>4, <2>1, <2>3 DEF DecisionTypeOK
  <2>5. Decided'
    BY <1>1, <1>2, <2>1, <2>2 DEF Decided, DecisionTypeOK
  <2>. QED  BY <1>1, <1>3, <2>4, <2>5, OthersStep
<1>6. CASE ClearForUpload \/ AbandonUpload
  <2>1. UNCHANGED <<status, seeds>>
    BY <1>6 DEF ClearForUpload, AbandonUpload
  <2>2. DecisionTypeOK' /\ Decided'
    BY <1>1, <1>2, <1>4, <2>1 DEF DecisionTypeOK, Decided
  <2>. QED  BY <1>1, <1>3, <2>2, OthersStep
<1>. QED  BY <1>5, <1>6 DEF SeedStep

-----------------------------------------------------------------------------
(* The theorems                                                              *)

\* Every step keeps the invariant.
LEMMA PlannerStepInv ==
    ASSUME DecisionInv, [PlannerNext]_plannerVars
    PROVE  DecisionInv'
<1>1. ASSUME NEW c \in Caller,
             \/ \E r \in RecId : StartApprove(c, r)
             \/ StartBulkApprove(c) \/ BeginRollback(c) \/ ApprovalStep(c) \/ WriteStep(c)
             \/ RollbackStep(c) \/ RequestDies(c)
      PROVE  DecisionInv'
  BY <1>1, AskInv, ApproveInv, GoOnInv, WriteReturnsInv, RollbackReturnsInv
     DEF ApprovalStep, WriteStep, RollbackStep
<1>2. CASE SeedStep
  BY <1>2, SeedInv
<1>. QED  BY <1>1, <1>2, OverruleInv DEF PlannerNext

\* The invariant of the decisions holds in every reachable state.
THEOREM DecisionInvariance == PlannerSpec => []DecisionInv
<1>1. DecisionInv /\ [PlannerNext]_plannerVars => DecisionInv'
  BY PlannerStepInv
<1>. QED  BY <1>1, InitDecisions, PTL DEF PlannerSpec

\* Nothing is written that nobody approved, and an approval is written once.
THEOREM ApprovedWrites == PlannerSpec => []WritesAreApproved
<1>1. DecisionInv => WritesAreApproved
  BY DEF DecisionInv, Balanced, Doing, Deciding, Made, Approved, WritesAreApproved
<1>. QED  BY <1>1, DecisionInvariance, PTL

\* A recommendation is approved once.
THEOREM OneApproval == PlannerSpec => []ApprovedOnce
<1>1. DecisionInv => ApprovedOnce
  BY DEF DecisionInv, DecisionTypeOK, ApprovedOnce
<1>. QED  BY <1>1, DecisionInvariance, PTL

\* No approval commits while the kill switch is engaged.
THEOREM KillSwitchHolds == PlannerSpec => NoApprovalWhileEngaged
<1>1. [PlannerNext]_plannerVars => [approvals' # approvals => ~engaged]_plannerVars
  <2>. SUFFICES ASSUME PlannerNext, approvals' # approvals PROVE ~engaged
    OBVIOUS
  <2>1. \E c \in Caller : Approve(c)
    BY DEF PlannerNext, StartApprove, StartBulkApprove, BeginRollback, ApprovalStep, WriteStep,
           RollbackStep, RequestDies, SelectTargets, ApproveTarget, RefuseApproval, BeginWrite,
           WriteGoesOn, WriteReturns, WriteRaises, RollbackReturns, RecordRollback, Overrule,
           SetKillSwitch, SeedStep, Recompute, ClearForUpload, SeedUpload, AbandonUpload,
           decisionVars
  <2>. QED  BY <2>1 DEF Approve
<1>. QED  BY <1>1, PTL DEF PlannerSpec, NoApprovalWhileEngaged

-----------------------------------------------------------------------------
(* A tenant that uploads once                                                *)

\* Until its first seed, a tenant has nothing to decide about, and the only
\* upload that is cleared is the first one.
Unseeded ==
    /\ upload.phase = "cleared" => seeds = 0
    /\ seeds = 0 => /\ ledger = {}
                    /\ \A c \in Caller : ~Deciding(c) /\ request[c].phase # "reverting"
                                         /\ call[c].phase = "idle"

\* An upload is cleared before any seed.
LEMMA UnseededStep ==
    ASSUME MaxUploads = 1, DecisionInv, Unseeded, [PlannerNext]_plannerVars
    PROVE  Unseeded' /\ ledger \subseteq ledger'
<1>0. seeds \in Nat /\ DecisionTypeOK /\ Decided /\ CallTyped
      /\ request \in [Caller -> Request]
  BY DEF DecisionInv, DecisionTypeOK
<1>1. CASE SeedStep
  <2>1. CASE SeedUpload
    <3>1. seeds = 0 /\ ledger = {} /\ seeds' = 1 /\ upload' = NoUpload
      BY <1>0, <2>1 DEF SeedUpload, Unseeded
    <3>. QED  BY <3>1 DEF Unseeded, NoUpload
  <2>2. CASE Recompute
    BY <1>0, <2>2 DEF Recompute, Unseeded, RowsFree, ledgerVars
  <2>3. CASE ClearForUpload \/ AbandonUpload
    BY <1>0, <2>3 DEF ClearForUpload, AbandonUpload, NoUpload, Unseeded, ledgerVars, Deciding
  <2>. QED  BY <1>1, <2>1, <2>2, <2>3 DEF SeedStep
<1>2. ASSUME UNCHANGED <<seeds, upload>>, seeds = 0 => UNCHANGED <<ledger, call>>,
             ledger \subseteq ledger',
             seeds = 0 => \A c \in Caller : ~Deciding(c)' /\ request'[c].phase # "reverting"
      PROVE  Unseeded' /\ ledger \subseteq ledger'
  BY <1>2 DEF Unseeded
<1>3. CASE UNCHANGED <<ledger, call, request, seeds, upload>>
  BY <1>2, <1>3 DEF Unseeded, Deciding
<1>4. ASSUME NEW c \in Caller,
             \/ \E r \in RecId : StartApprove(c, r)
             \/ StartBulkApprove(c) \/ SelectTargets(c) \/ ApproveTarget(c)
             \/ RefuseApproval(c) \/ RecordRollback(c)
      PROVE  Unseeded' /\ ledger \subseteq ledger'
  <2>1. UNCHANGED <<ledger, call, seeds, upload>>
    BY <1>4 DEF StartApprove, StartBulkApprove, SelectTargets, ApproveTarget, RefuseApproval,
                RecordRollback, ledgerVars, decisionVars
  <2>2. /\ \A d \in Caller \ {c} : request'[d] = request[d]
        /\ request'[c].phase \in {"idle", "bulk", "next", "allowed"}
    <3>1. CASE StartBulkApprove(c)
      <4>1. Goto(c, "bulk") /\ "bulk" \in Phases
        BY <3>1 DEF StartBulkApprove, Phases
      <4>2. PICK x \in Request : request' = [request EXCEPT ![c] = x] /\ x.phase = "bulk"
        BY <1>0, <4>1, GotoFields
      <4>. QED  BY <1>0, <4>2
    <3>2. CASE EndRequest(c)
      BY <1>0, <3>2, EndFields DEF EndRequest
    <3>3. ASSUME NEW p \in {"next", "allowed"}, NEW r, NEW targets,
                 request' = [request EXCEPT ![c] = [phase |-> p, rec |-> r, targets |-> targets]]
          PROVE  /\ \A d \in Caller \ {c} : request'[d] = request[d]
                 /\ request'[c].phase = p
      BY <1>0, <3>3
    <3>. QED  BY <1>4, <3>1, <3>2, <3>3
              DEF StartApprove, SelectTargets, ApproveTarget, RefuseApproval, RecordRollback,
                  EndRequest
  <2>3. seeds = 0 => \A d \in Caller : ~Deciding(d)' /\ request'[d].phase # "reverting"
    BY <2>2 DEF Unseeded, Deciding
  <2>. QED  BY <1>2, <2>1, <2>3
<1>5. ASSUME NEW c \in Caller,
             \/ Approve(c) \/ BeginWrite(c) \/ WriteGoesOn(c) \/ WriteReturns(c)
             \/ WriteRaises(c) \/ BeginRollback(c) \/ RollbackReturns(c)
      PROVE  /\ seeds # 0 /\ UNCHANGED <<seeds, upload>> /\ ledger \subseteq ledger'
  <2>1. UNCHANGED <<seeds, upload>>
    BY <1>5 DEF Approve, BeginWrite, WriteGoesOn, WriteReturns, WriteRaises, BeginRollback,
                RollbackReturns, decisionVars
  <2>2. ledger \subseteq ledger'
    BY <1>5 DEF Approve, BeginWrite, WriteGoesOn, WriteReturns, WriteRaises, BeginRollback,
                RollbackReturns, StartWrite, StartRollback, CallStep, NotRecorded, ReadLevels,
                ReadVersion, VersionTaken, CallReturns, Replay, DeferForOpenOrder, Commit,
                ledgerVars
  <2>3. CASE Approve(c)
    <3>1. request[c].rec \in RecId /\ status[request[c].rec] = "pending"
      BY <2>3 DEF Approve, Approvable, DecisionInv, RequestFits
    <3>2. request[c].rec.seed \in 1..seeds
      BY <1>0, <3>1 DEF Decided
    <3>. QED  BY <1>0, <2>1, <2>2, <3>2
  <2>4. CASE BeginRollback(c)
    BY <2>1, <2>2, <2>4 DEF BeginRollback, StartRollback, Written, Unseeded
  <2>5. CASE ~Approve(c) /\ ~BeginRollback(c)
    <3>1. Deciding(c) \/ request[c].phase = "reverting" \/ call[c].phase # "idle"
      BY <1>5, <2>5 DEF BeginWrite, WriteGoesOn, WriteReturns, WriteRaises, RollbackReturns,
                        Deciding, CallStep, NotRecorded, ReadLevels, ReadVersion, VersionTaken
    <3>. QED  BY <2>1, <2>2, <3>1 DEF Unseeded
  <2>. QED  BY <2>3, <2>4, <2>5
<1>6. ASSUME NEW c \in Caller, RequestDies(c)
      PROVE  Unseeded' /\ ledger \subseteq ledger'
  <2>1. /\ UNCHANGED <<ledger, seeds, upload>>
        /\ request' = [request EXCEPT ![c] = NotAsked]
        /\ call' = [call EXCEPT ![c] = NoCall]
    BY <1>6 DEF RequestDies, EndRequest, EndCall, decisionVars
  <2>2. NoCall.phase = "idle"
    BY DEF NoCall
  <2>3. \A d \in Caller : /\ request'[d] = request[d] \/ request'[d] = NotAsked
                          /\ call'[d] = call[d] \/ call'[d] = NoCall
    BY <1>0, <2>1 DEF CallTyped
  <2>. QED  BY <2>1, <2>2, <2>3, EndFields DEF Unseeded, Deciding
<1>7. PlannerNext \/ UNCHANGED plannerVars
  OBVIOUS
<1>8. CASE \/ \E r \in RecId, decision \in {"rejected", "deferred"} : Overrule(r, decision)
           \/ \E value \in BOOLEAN : SetKillSwitch(value)
           \/ UNCHANGED plannerVars
  <2>1. UNCHANGED <<ledger, call, request, seeds, upload>>
    BY <1>8 DEF Overrule, SetKillSwitch, plannerVars, ledgerVars, decisionVars
  <2>. QED  BY <1>3, <2>1
<1>9. ASSUME NEW c \in Caller,
             \/ Approve(c) \/ BeginWrite(c) \/ WriteGoesOn(c) \/ WriteReturns(c)
             \/ WriteRaises(c) \/ BeginRollback(c) \/ RollbackReturns(c)
      PROVE  Unseeded' /\ ledger \subseteq ledger'
  BY <1>2, <1>5, <1>9
<1>. QED  BY <1>1, <1>4, <1>6, <1>7, <1>8, <1>9
          DEF PlannerNext, ApprovalStep, WriteStep, RollbackStep

\* A tenant that uploads once loses no entry of its ledger, whatever is decided,
\* rolled back or recomputed.
THEOREM LedgerKept == ASSUME MaxUploads = 1 PROVE PlannerSpec => LedgerIsAppendOnly
<1>1. PlannerInit => Unseeded
  BY DEF PlannerInit, LedgerInit, NoUpload, NotAsked, NoCall, Unseeded, Deciding
<1>2. DecisionInv /\ Unseeded /\ [PlannerNext]_plannerVars => Unseeded'
  BY UnseededStep
<1>3. DecisionInv /\ Unseeded /\ [PlannerNext]_plannerVars => [ledger \subseteq ledger']_plannerVars
  BY UnseededStep
<1>. QED  BY <1>1, <1>2, <1>3, DecisionInvariance, PTL DEF PlannerSpec, LedgerIsAppendOnly
=============================================================================
