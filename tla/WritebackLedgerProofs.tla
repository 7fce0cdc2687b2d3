------------------------ MODULE WritebackLedgerProofs ------------------------
(***************************************************************************)
(* Proofs about WritebackLedger, for any number of callers and keys: the   *)
(* versions of a ledger stay contiguous and its parents right, whatever    *)
(* overlaps; and where no two calls overlap the ledger implements the      *)
(* in-memory target.                                                       *)
(***************************************************************************)
EXTENDS WritebackLedger, FiniteSetTheorems, SequenceTheorems, TLAPS

\* The invariant holds of an empty ledger that nobody writes.
LEMMA InitLedgerInv == LedgerInit => LedgerInv
<1>. SUFFICES ASSUME LedgerInit PROVE LedgerInv
  OBVIOUS
<1>1. IsFiniteSet(ledger) /\ Cardinality(ledger) = 0
  BY FS_EmptySet DEF LedgerInit
<1>2. LedgerTypeOK
  BY MaxVersionAssumption DEF LedgerInit, LedgerTypeOK, NoCall, Call, CallPhase, WriteStatus
<1>3. VersionsContiguous
  BY <1>1 DEF LedgerInit, VersionsContiguous, Versions
<1>4. ParentIsLatestWritten
  BY DEF LedgerInit, ParentIsLatestWritten
<1>5. Bookkeeping
  BY <1>1 DEF LedgerInit, Bookkeeping, Written, NoCall
<1>. QED  BY <1>2, <1>3, <1>4, <1>5 DEF LedgerInv

\* The newest written entry is a written entry, and the newest.
LEMMA LatestIsNewest ==
    ASSUME Bookkeeping, Written # {}
    PROVE  /\ Latest(Written) \in Written
           /\ \A f \in Written : f.version <= Latest(Written).version
BY DEF Bookkeeping, Latest

\* The current levels are levels of the type, or none.
LEMMA CurrentLevelsType ==
    ASSUME LedgerTypeOK, Bookkeeping
    PROVE  CurrentLevels \in Level \cup {None}
BY LatestIsNewest DEF CurrentLevels, LedgerTypeOK, Written, Entry

\* The latest version is a version of the type, or zero.
LEMMA LatestVersionType ==
    ASSUME LedgerTypeOK, Bookkeeping
    PROVE  LatestVersion \in 0..MaxVersion
BY LatestIsNewest, MaxVersionAssumption DEF LatestVersion, LedgerTypeOK, Written, Entry

\* A step that changes one call and no entry only has to keep the call in order.
LEMMA CallChange ==
    ASSUME LedgerInv, UNCHANGED ledger, NEW c \in Caller, NEW x \in Call,
           call' = [call EXCEPT ![c] = x],
           x.phase # "idle" => x.new \in Level,
           x.phase = "versioned" =>
               /\ x.version \in 1..(Cardinality(ledger) + 1)
               /\ x.version = Cardinality(ledger) + 1 => x.parent = LatestVersion
    PROVE  LedgerInv'
<1>1. LedgerTypeOK'
  BY DEF LedgerInv, LedgerTypeOK
<1>2. VersionsContiguous' /\ ParentIsLatestWritten'
  BY DEF LedgerInv, VersionsContiguous, Versions, ParentIsLatestWritten, Written
<1>3. LatestVersion' = LatestVersion /\ Written' = Written
  BY DEF LatestVersion, Written
<1>4. \A d \in Caller : call'[d] = IF d = c THEN x ELSE call[d]
  BY DEF LedgerInv, LedgerTypeOK
<1>5. Bookkeeping'
  BY <1>3, <1>4 DEF LedgerInv, Bookkeeping
<1>. QED  BY <1>1, <1>2, <1>5 DEF LedgerInv

\* A call that ends without an entry is in order.
LEMMA EndCallInv ==
    ASSUME LedgerInv, UNCHANGED ledger, NEW c \in Caller, EndCall(c)
    PROVE  LedgerInv'
<1>1. NoCall \in Call /\ NoCall.phase = "idle"
  BY MaxVersionAssumption DEF NoCall, Call, CallPhase, WriteStatus
<1>. QED  BY <1>1, CallChange DEF EndCall

\* A call that begins has levels to write.
LEMMA StartInv ==
    ASSUME LedgerInv, NEW c \in Caller,
           (\E k \in Level : StartWrite(c, k)) \/ StartRollback(c)
    PROVE  LedgerInv'
<1>1. ASSUME NEW k \in Level, StartWrite(c, k) PROVE LedgerInv'
  <2>. DEFINE x == [phase |-> "started",
                    status |-> IF k \in ShadowKey THEN "shadowed" ELSE "written",
                    idem |-> k, old |-> None, new |-> k, version |-> 0, parent |-> 0]
  <2>1. x \in Call
    BY MaxVersionAssumption DEF Call, CallPhase, WriteStatus
  <2>2. x.phase = "started" /\ x.new \in Level
    OBVIOUS
  <2>3. call' = [call EXCEPT ![c] = x] /\ UNCHANGED ledger
    BY <1>1 DEF StartWrite
  <2>. HIDE DEF x
  <2>. QED  BY <2>1, <2>2, <2>3, CallChange
<1>2. ASSUME StartRollback(c) PROVE LedgerInv'
  <2>. DEFINE x == [phase |-> "read", status |-> "written", idem |-> None,
                    old |-> CurrentLevels, new |-> Latest(Written).old,
                    version |-> 0, parent |-> 0]
  <2>1. Latest(Written).old \in Level
    <3>1. Latest(Written) \in Written /\ Latest(Written).old # None
      BY <1>2, LatestIsNewest DEF StartRollback, LedgerInv
    <3>. QED  BY <3>1 DEF Written, LedgerInv, LedgerTypeOK, Entry
  <2>2. CurrentLevels \in Level \cup {None}
    BY CurrentLevelsType DEF LedgerInv
  <2>3. x \in Call
    BY <2>1, <2>2, MaxVersionAssumption DEF Call, CallPhase, WriteStatus
  <2>4. x.phase = "read" /\ x.new \in Level
    BY <2>1
  <2>5. call' = [call EXCEPT ![c] = x] /\ UNCHANGED ledger
    BY <1>2 DEF StartRollback
  <2>. HIDE DEF x
  <2>. QED  BY <2>3, <2>4, <2>5, CallChange
<1>. QED  BY <1>1, <1>2

\* What a call holds once it has read the levels it replaces, field by field.
LEMMA WithLevels ==
    ASSUME NEW r \in Call, NEW levels
    PROVE  [r EXCEPT !.phase = "read", !.old = levels] =
               [phase |-> "read", status |-> r.status, idem |-> r.idem, old |-> levels,
                new |-> r.new, version |-> r.version, parent |-> r.parent]
<1>1. PICK x : x = [r EXCEPT !.phase = "read"]
  OBVIOUS
<1>2. x = [phase |-> "read", status |-> r.status, idem |-> r.idem, old |-> r.old,
           new |-> r.new, version |-> r.version, parent |-> r.parent]
  BY <1>1 DEF Call
<1>3. [x EXCEPT !.old = levels] =
         [phase |-> "read", status |-> r.status, idem |-> r.idem, old |-> levels,
          new |-> r.new, version |-> r.version, parent |-> r.parent]
  BY <1>2
<1>. QED  BY <1>1, <1>3

\* What a call holds once it has read the next version and its parent.
LEMMA WithVersion ==
    ASSUME NEW r \in Call, NEW version, NEW parent
    PROVE  [r EXCEPT !.phase = "versioned", !.parent = parent, !.version = version] =
               [phase |-> "versioned", status |-> r.status, idem |-> r.idem, old |-> r.old,
                new |-> r.new, version |-> version, parent |-> parent]
<1>1. PICK x : x = [r EXCEPT !.phase = "versioned"]
  OBVIOUS
<1>2. x = [phase |-> "versioned", status |-> r.status, idem |-> r.idem, old |-> r.old,
           new |-> r.new, version |-> r.version, parent |-> r.parent]
  BY <1>1 DEF Call
<1>3. PICK y : y = [x EXCEPT !.parent = parent]
  OBVIOUS
<1>4. y = [phase |-> "versioned", status |-> r.status, idem |-> r.idem, old |-> r.old,
           new |-> r.new, version |-> r.version, parent |-> parent]
  BY <1>2, <1>3
<1>5. [y EXCEPT !.version = version] =
         [phase |-> "versioned", status |-> r.status, idem |-> r.idem, old |-> r.old,
          new |-> r.new, version |-> version, parent |-> parent]
  BY <1>4
<1>. QED  BY <1>1, <1>3, <1>5

\* A statement that reads keeps the call in order: the second reading yields the
\* next version and the latest written entry at once.
LEMMA CallStepInv ==
    ASSUME LedgerInv, NEW c \in Caller, CallStep(c)
    PROVE  LedgerInv'
<1>. DEFINE old == call[c]
<1>0. /\ old \in Call
      /\ call \in [Caller -> Call]
      /\ old.phase # "idle" => old.new \in Level
  BY DEF LedgerInv, LedgerTypeOK, Bookkeeping
<1>1. CASE NotRecorded(c)
  <2>. DEFINE x == [phase |-> "unseen", status |-> old.status, idem |-> old.idem,
                    old |-> old.old, new |-> old.new, version |-> old.version,
                    parent |-> old.parent]
  <2>1. x \in Call /\ x.phase = "unseen" /\ x.new \in Level
    BY <1>0, <1>1 DEF NotRecorded, Call, CallPhase
  <2>2. x = [old EXCEPT !.phase = "unseen"]
    BY <1>0 DEF Call
  <2>3. call' = [call EXCEPT ![c] = x] /\ UNCHANGED ledger
    BY <1>1, <2>2 DEF NotRecorded
  <2>. HIDE DEF x
  <2>. QED  BY <2>1, <2>3, CallChange
<1>2. CASE ReadLevels(c)
  <2>. DEFINE x == [phase |-> "read", status |-> old.status, idem |-> old.idem,
                    old |-> CurrentLevels, new |-> old.new, version |-> old.version,
                    parent |-> old.parent]
  <2>1. CurrentLevels \in Level \cup {None}
    BY CurrentLevelsType DEF LedgerInv
  <2>2. x \in Call /\ x.phase = "read" /\ x.new \in Level
    BY <1>0, <1>2, <2>1 DEF ReadLevels, Call, CallPhase
  <2>3. x = [old EXCEPT !.phase = "read", !.old = CurrentLevels]
    BY <1>0, WithLevels
  <2>4. call' = [call EXCEPT ![c] = x] /\ UNCHANGED ledger
    BY <1>2, <2>3 DEF ReadLevels
  <2>. HIDE DEF x
  <2>. QED  BY <2>2, <2>4, CallChange
<1>3. CASE ReadVersion(c)
  <2>. DEFINE x == [phase |-> "versioned", status |-> old.status, idem |-> old.idem,
                    old |-> old.old, new |-> old.new,
                    version |-> Cardinality(ledger) + 1, parent |-> LatestVersion]
  <2>1. LatestVersion \in 0..MaxVersion
    BY LatestVersionType DEF LedgerInv
  <2>2. Cardinality(ledger) \in Nat /\ Cardinality(ledger) < MaxVersion
    BY <1>3, FS_CardinalityType DEF ReadVersion, LedgerInv, Bookkeeping
  <2>3. x \in Call
    BY <1>0, <2>1, <2>2, MaxVersionAssumption DEF Call, CallPhase
  <2>4. /\ x.phase = "versioned" /\ x.new \in Level
        /\ x.version = Cardinality(ledger) + 1 /\ x.parent = LatestVersion
        /\ x.version \in 1..(Cardinality(ledger) + 1)
    BY <1>0, <1>3, <2>2 DEF ReadVersion
  <2>5. x = [old EXCEPT !.phase = "versioned", !.parent = LatestVersion,
                       !.version = Cardinality(ledger) + 1]
    BY <1>0, WithVersion
  <2>6. call' = [call EXCEPT ![c] = x] /\ UNCHANGED ledger
    BY <1>3, <2>5 DEF ReadVersion
  <2>. HIDE DEF x
  <2>. QED  BY <2>3, <2>4, <2>6, CallChange
<1>. QED  BY <1>1, <1>2, <1>3 DEF CallStep

\* An entry that is committed is the next one, and its parent is the latest
\* written entry before it; the calls that read the same version are too late.
LEMMA CommitInv ==
    ASSUME LedgerInv, NEW c \in Caller, Commit(c)
    PROVE  LedgerInv'
<1>. DEFINE n == Cardinality(ledger)
            e == EntryOf(c)
<1>1. /\ IsFiniteSet(ledger) /\ n \in Nat
      /\ call[c] \in Call /\ call[c].phase = "versioned" /\ call[c].new \in Level
      /\ call[c].version \in 1..(n + 1)
      /\ call[c].version = n + 1 => call[c].parent = LatestVersion
  BY FS_CardinalityType DEF LedgerInv, LedgerTypeOK, Bookkeeping, Commit
<1>2. call[c].version = n + 1
  <2>1. call[c].version \notin Versions
    BY DEF Commit, Versions
  <2>2. Versions = 1..n
    BY DEF LedgerInv, VersionsContiguous
  <2>. QED  BY <1>1, <2>1, <2>2
<1>3. /\ ledger' = ledger \cup {e}
      /\ \A d \in Caller : call'[d] = IF d = c THEN NoCall ELSE call[d]
      /\ NoCall \in Call /\ NoCall.phase = "idle" /\ call' \in [Caller -> Call]
  BY MaxVersionAssumption
     DEF Commit, EndCall, LedgerInv, LedgerTypeOK, NoCall, Call, CallPhase, WriteStatus
<1>4. /\ e.version = n + 1 /\ e.parent = LatestVersion /\ e.status = call[c].status
      /\ e \in Entry
  BY <1>1, <1>2, MaxVersionAssumption DEF EntryOf, Entry, Call
<1>5. \A f \in ledger : f.version \in 1..n
  BY DEF LedgerInv, VersionsContiguous, Versions
<1>6. e \notin ledger /\ IsFiniteSet(ledger') /\ Cardinality(ledger') = n + 1
  BY <1>1, <1>3, <1>4, <1>5, FS_AddElement
<1>. HIDE DEF n, e
<1>7. LedgerTypeOK'
  BY <1>3, <1>4 DEF LedgerInv, LedgerTypeOK
<1>8. VersionsContiguous'
  <2>1. Versions' = Versions \cup {n + 1}
    BY <1>3, <1>4 DEF Versions
  <2>2. Versions = 1..n /\ \A f, g \in ledger : f.version = g.version => f = g
    BY DEF LedgerInv, VersionsContiguous, n
  <2>. QED  BY <1>1, <1>3, <1>4, <1>5, <1>6, <2>1, <2>2 DEF VersionsContiguous
<1>9. ParentIsLatestWritten'
  <2>. DEFINE Earlier(f) == {g \in Written : g.version < f.version}
  <2>1. Written' = Written \/ Written' = Written \cup {e}
    BY <1>3 DEF Written
  <2>2. \A f \in ledger : {g \in Written' : g.version < f.version} = Earlier(f)
    BY <1>1, <1>4, <1>5, <2>1
  <2>3. {g \in Written' : g.version < e.version} = Written
    BY <1>1, <1>4, <1>5, <2>1 DEF Written
  <2>4. \A f \in ledger :
            f.parent = IF Earlier(f) = {} THEN 0 ELSE Latest(Earlier(f)).version
    BY DEF LedgerInv, ParentIsLatestWritten
  <2>5. e.parent = IF Written = {} THEN 0 ELSE Latest(Written).version
    BY <1>4 DEF LatestVersion
  <2>. QED  BY <1>3, <2>2, <2>3, <2>4, <2>5 DEF ParentIsLatestWritten
<1>10. Bookkeeping'
  <2>1. Written' # {} => \E g \in Written' : \A f \in Written' : f.version <= g.version
    <3>1. CASE e.status = "written"
      <4>1. e \in Written' /\ \A f \in Written' : f.version <= e.version
        BY <1>1, <1>3, <1>4, <1>5, <3>1 DEF Written
      <4>. QED  BY <4>1
    <3>2. CASE e.status # "written"
      <4>1. Written' = Written
        BY <1>3, <3>2 DEF Written
      <4>. QED  BY <4>1 DEF LedgerInv, Bookkeeping
    <3>. QED  BY <3>1, <3>2
  <2>2. ASSUME NEW d \in Caller
        PROVE  /\ call'[d].phase # "idle" => call'[d].new \in Level
               /\ call'[d].phase = "versioned" =>
                     /\ call'[d].version \in 1..(Cardinality(ledger') + 1)
                     /\ call'[d].version = Cardinality(ledger') + 1 =>
                           call'[d].parent = LatestVersion'
    <3>1. CASE d = c
      BY <1>3, <3>1
    <3>2. CASE d # c
      <4>1. call'[d] = call[d]
        BY <1>3, <3>2
      <4>2. call[d].phase = "versioned" => call[d].version \in 1..(n + 1)
        BY DEF LedgerInv, Bookkeeping, n
      <4>3. call[d].phase # "idle" => call[d].new \in Level
        BY DEF LedgerInv, Bookkeeping
      <4>. QED  BY <1>1, <1>6, <4>1, <4>2, <4>3
    <3>. QED  BY <3>1, <3>2
  <2>. QED  BY <1>6, <2>1, <2>2 DEF Bookkeeping
<1>. QED  BY <1>7, <1>8, <1>9, <1>10 DEF LedgerInv

\* The invariant survives every step, and every step that is none of the ledger's.
LEMMA NextLedgerInv == LedgerInv /\ [LedgerNext]_ledgerVars => LedgerInv'
<1>. SUFFICES ASSUME LedgerInv, [LedgerNext]_ledgerVars PROVE LedgerInv'
  OBVIOUS
<1>1. ASSUME NEW c \in Caller, (\E k \in Level : StartWrite(c, k)) \/ StartRollback(c)
      PROVE  LedgerInv'
  BY <1>1, StartInv
<1>2. ASSUME NEW c \in Caller, CallStep(c) PROVE LedgerInv'
  BY <1>2, CallStepInv
<1>3. ASSUME NEW c \in Caller, CallReturns(c) PROVE LedgerInv'
  BY <1>3, CommitInv, EndCallInv DEF CallReturns, Replay, DeferForOpenOrder
<1>4. ASSUME NEW c \in Caller, CallRaises(c) PROVE LedgerInv'
  BY <1>4, EndCallInv DEF CallRaises, VersionTaken, AbortCall
<1>5. ASSUME UNCHANGED ledgerVars PROVE LedgerInv'
  <2>1. LedgerTypeOK' /\ Written' = Written /\ LatestVersion' = LatestVersion
    BY <1>5 DEF LedgerInv, LedgerTypeOK, ledgerVars, Written, LatestVersion
  <2>2. VersionsContiguous' /\ ParentIsLatestWritten'
    BY <1>5 DEF LedgerInv, VersionsContiguous, Versions, ParentIsLatestWritten, Written,
                ledgerVars
  <2>3. Bookkeeping'
    BY <1>5, <2>1 DEF LedgerInv, Bookkeeping, ledgerVars
  <2>. QED  BY <2>1, <2>2, <2>3 DEF LedgerInv
<1>. QED  BY <1>1, <1>2, <1>3, <1>4, <1>5 DEF LedgerNext

\* The inductive invariant holds in every reachable state.
THEOREM LedgerInvariance == LedgerSpec => []LedgerInv
BY InitLedgerInv, NextLedgerInv, PTL DEF LedgerSpec

\* The rows of writeback_ledger and what open transactions hold stay well typed.
THEOREM LedgerTypeCorrect == LedgerSpec => []LedgerTypeOK
<1>1. LedgerInv => LedgerTypeOK
  BY DEF LedgerInv
<1>. QED  BY <1>1, LedgerInvariance, PTL

\* However many calls overlap, the versions of a key are contiguous: the primary
\* key is enough for that (contracts.py, HistoryEntry.version).
THEOREM ContiguousVersions == LedgerSpec => []VersionsContiguous
<1>1. LedgerInv => VersionsContiguous
  BY DEF LedgerInv
<1>. QED  BY <1>1, LedgerInvariance, PTL

\* However many calls overlap, each entry's parent is the latest written entry
\* before it (writeback.py, _record).
THEOREM ParentLinks == LedgerSpec => []ParentIsLatestWritten
<1>1. LedgerInv => ParentIsLatestWritten
  BY DEF LedgerInv
<1>. QED  BY <1>1, LedgerInvariance, PTL

-----------------------------------------------------------------------------
(* The refinement. *)


\* One caller at most: the writes of a key are serialized.
OneCaller == \A c, d \in Caller : c = d

Row(e) == [status |-> e.status, idem |-> e.idem, old |-> e.old, new |-> e.new,
           parent |-> e.parent]

HistoryRow == [status : WriteStatus, idem : Level \cup {None}, old : Level \cup {None},
               new : Level, parent : 0..MaxVersion]

\* The history has the entries of the ledger, in the order of their versions.
HistoryFits ==
    /\ Cardinality(ledger) \in Nat
    /\ History \in Seq(HistoryRow)
    /\ Len(History) = Cardinality(ledger)
    /\ DOMAIN History = 1..Cardinality(ledger)
    /\ \A e \in ledger : e.version \in DOMAIN History /\ History[e.version] = Row(e)
    /\ \A n \in DOMAIN History : \E e \in ledger : e.version = n /\ History[n] = Row(e)

\* A call that writes has found its key unused; one that reverts holds what the
\* latest written entry replaced; both hold the current levels once read.
SerialFits(c) ==
    /\ call[c].phase # "idle" /\ call[c].idem # None =>
          /\ call[c].new = call[c].idem
          /\ call[c].status = IF call[c].idem \in ShadowKey THEN "shadowed" ELSE "written"
          /\ call[c].phase # "started" => ~Recorded(call[c].idem)
    /\ call[c].phase # "idle" /\ call[c].idem = None =>
          /\ call[c].phase \in {"read", "versioned"}
          /\ call[c].status = "written"
          /\ Written # {} /\ Latest(Written).old # None
          /\ call[c].new = Latest(Written).old
    /\ call[c].phase \in {"read", "versioned"} => call[c].old = CurrentLevels

SerialInv == \A c \in Caller : SerialFits(c)

-----------------------------------------------------------------------------
(* The history                                                               *)

\* The rows of the history are those of the ledger.
LEMMA HistoryRows == LedgerInv => HistoryFits
<1>. SUFFICES ASSUME LedgerInv PROVE HistoryFits
  OBVIOUS
<1>. DEFINE n == Cardinality(ledger)
<1>1. /\ n \in Nat /\ Versions = 1..n
      /\ \A e, f \in ledger : e.version = f.version => e = f
      /\ \A e \in ledger : e \in Entry
  BY FS_CardinalityType
     DEF LedgerInv, Bookkeeping, VersionsContiguous, LedgerTypeOK
<1>2. \A e \in ledger : Row(e) \in HistoryRow
  BY <1>1 DEF Row, HistoryRow, Entry
<1>. HIDE DEF n
<1>3. DOMAIN History = 1..n
  BY DEF History, n
<1>4. ASSUME NEW e \in ledger
      PROVE  e.version \in 1..n /\ History[e.version] = Row(e)
  <2>1. e.version \in 1..n
    BY <1>1 DEF Versions
  <2>2. PICK f \in ledger : f = CHOOSE g \in ledger : g.version = e.version
    OBVIOUS
  <2>3. f.version = e.version
    BY <2>2
  <2>4. f = e
    BY <1>1, <2>3
  <2>5. History[e.version] = Row(f)
    BY <2>1, <2>2 DEF History, Row, n
  <2>. QED  BY <2>1, <2>4, <2>5
<1>5. ASSUME NEW m \in 1..n
      PROVE  \E e \in ledger : e.version = m /\ History[m] = Row(e)
  <2>1. PICK e \in ledger : e.version = m
    BY <1>1 DEF Versions
  <2>. QED  BY <1>4, <2>1
<1>6. History \in [1..n -> HistoryRow]
  <2>1. \A m \in 1..n : History[m] \in HistoryRow
    BY <1>2, <1>5
  <2>2. History = [m \in 1..n |-> History[m]]
    BY DEF History, n
  <2>. QED  BY <2>1, <2>2
<1>7. History \in Seq(HistoryRow)
  BY <1>1, <1>6, SeqDef
<1>8. Len(History) = n
  BY <1>1, <1>3, <1>7, LenProperties
<1>. QED  BY <1>1, <1>3, <1>4, <1>5, <1>7, <1>8 DEF HistoryFits, n

\* The same of the next state.
LEMMA HistoryRowsNext == LedgerInv' => HistoryFits'
BY HistoryRows, PTL

\* The last written entry of the history is the latest written entry.
LEMMA SameLast ==
    ASSUME LedgerInv, HistoryFits
    PROVE  /\ Target!LastWritten = LatestVersion
           /\ Written # {} => /\ LatestVersion \in DOMAIN History /\ LatestVersion # 0
                              /\ History[LatestVersion] = Row(Latest(Written))
<1>1. Target!WrittenAt = {e.version : e \in Written}
  <2>1. Target!WrittenAt = {n \in DOMAIN History : History[n].status = "written"}
    BY DEF Target!WrittenAt
  <2>2. ASSUME NEW e \in Written PROVE e.version \in Target!WrittenAt
    <3>1. e \in ledger /\ e.status = "written"
      BY DEF Written
    <3>2. e.version \in DOMAIN History /\ History[e.version] = Row(e)
      BY <3>1 DEF HistoryFits
    <3>3. Row(e).status = "written"
      BY <3>1 DEF Row
    <3>. QED  BY <2>1, <3>2, <3>3
  <2>3. ASSUME NEW n \in Target!WrittenAt PROVE \E e \in Written : e.version = n
    <3>1. n \in DOMAIN History /\ History[n].status = "written"
      BY <2>1
    <3>2. PICK e \in ledger : e.version = n /\ History[n] = Row(e)
      BY <3>1 DEF HistoryFits
    <3>3. e.status = "written"
      BY <3>1, <3>2 DEF Row
    <3>. QED  BY <3>2, <3>3 DEF Written
  <2>. QED  BY <2>2, <2>3
<1>2. CASE Written = {}
  BY <1>1, <1>2 DEF Target!LastWritten, LatestVersion
<1>3. CASE Written # {}
  <2>1. /\ Latest(Written) \in Written
        /\ \A f \in Written : f.version <= Latest(Written).version
    BY <1>3, LatestIsNewest DEF LedgerInv
  <2>2. PICK v : v = Latest(Written).version
    OBVIOUS
  <2>3. /\ LatestVersion = v /\ v \in DOMAIN History
        /\ History[v] = Row(Latest(Written))
    BY <1>3, <2>1, <2>2 DEF LatestVersion, HistoryFits, Written
  <2>4. v \in Nat /\ v # 0
    BY <2>3 DEF HistoryFits
  <2>5. v \in Target!WrittenAt /\ \A m \in Target!WrittenAt : m <= v
    BY <1>1, <2>1, <2>2
  <2>6. Target!WrittenAt \subseteq Nat
    BY <1>1 DEF HistoryFits, Written
  <2>7. \A m \in Target!WrittenAt : (\A l \in Target!WrittenAt : l <= m) => m = v
    BY <2>4, <2>5, <2>6
  <2>8. Target!LastWritten = CHOOSE m \in Target!WrittenAt :
                                \A l \in Target!WrittenAt : l <= m
    BY <2>5 DEF Target!LastWritten
  <2>9. Target!LastWritten = v
    BY <2>5, <2>7, <2>8
  <2>. QED  BY <2>3, <2>4, <2>9
<1>. QED  BY <1>2, <1>3

-----------------------------------------------------------------------------
(* One call at a time                                                        *)

\* No call has begun.
LEMMA InitSerial == LedgerInit => SerialInv
BY DEF LedgerInit, SerialInv, SerialFits, NoCall

\* A statement that leaves the ledger only has to leave its call in order.
LEMMA SerialChange ==
    ASSUME LedgerInv, SerialInv, OneCaller, NEW c \in Caller, UNCHANGED ledger,
           SerialFits(c)'
    PROVE  SerialInv'
<1>1. \A d \in Caller : d = c
  BY DEF OneCaller
<1>. QED  BY <1>1 DEF SerialInv

\* A call that has ended holds nothing.
LEMMA SerialEnd ==
    ASSUME LedgerInv, OneCaller, NEW c \in Caller, EndCall(c)
    PROVE  SerialInv'
<1>1. \A d \in Caller : d = c
  BY DEF OneCaller
<1>2. call'[c] = NoCall
  BY DEF EndCall, LedgerInv, LedgerTypeOK
<1>3. call'[c].phase = "idle"
  BY <1>2 DEF NoCall
<1>. QED  BY <1>1, <1>3 DEF SerialInv, SerialFits

\* Every step keeps the call in order.
LEMMA SerialStep ==
    ASSUME OneCaller, LedgerInv, SerialInv, [LedgerNext]_ledgerVars
    PROVE  SerialInv'
<1>0. call \in [Caller -> Call]
  BY DEF LedgerInv, LedgerTypeOK
<1>1. ASSUME NEW c \in Caller, NEW k \in Level, StartWrite(c, k) PROVE SerialInv'
  <2>1. call'[c] = [phase |-> "started",
                    status |-> IF k \in ShadowKey THEN "shadowed" ELSE "written",
                    idem |-> k, old |-> None, new |-> k, version |-> 0, parent |-> 0]
    BY <1>0, <1>1 DEF StartWrite
  <2>2. k # None
    BY KeyAssumption DEF Level
  <2>3. SerialFits(c)'
    BY <2>1, <2>2 DEF SerialFits
  <2>. QED  BY <1>1, <2>3, SerialChange DEF StartWrite
<1>2. ASSUME NEW c \in Caller, StartRollback(c) PROVE SerialInv'
  <2>1. /\ call'[c] = [phase |-> "read", status |-> "written", idem |-> None,
                       old |-> CurrentLevels, new |-> Latest(Written).old,
                       version |-> 0, parent |-> 0]
        /\ Written # {} /\ Latest(Written).old # None /\ ledger' = ledger
    BY <1>0, <1>2 DEF StartRollback
  <2>2. Written' = Written /\ CurrentLevels' = CurrentLevels
    BY <2>1 DEF Written, CurrentLevels
  <2>3. SerialFits(c)'
    BY <2>1, <2>2 DEF SerialFits
  <2>. QED  BY <2>1, <2>3, SerialChange
<1>3. ASSUME NEW c \in Caller, CallStep(c) PROVE SerialInv'
  <2>. DEFINE r == call[c]
  <2>1. r \in Call /\ SerialFits(c) /\ ledger' = ledger
    BY <1>0, <1>3 DEF CallStep, NotRecorded, ReadLevels, ReadVersion, SerialInv
  <2>2. /\ Written' = Written /\ CurrentLevels' = CurrentLevels
        /\ \A k : Recorded(k)' <=> Recorded(k)
    BY <2>1 DEF Written, CurrentLevels, Recorded
  <2>3. CASE NotRecorded(c)
    <3>1. call'[c] = [r EXCEPT !.phase = "unseen"]
      BY <1>0, <2>3 DEF NotRecorded
    <3>2. /\ call'[c].phase = "unseen" /\ call'[c].idem = r.idem /\ call'[c].new = r.new
          /\ call'[c].status = r.status
      BY <2>1, <3>1 DEF Call
    <3>3. r.phase = "started" /\ ~Recorded(r.idem)
      BY <2>3 DEF NotRecorded
    <3>4. SerialFits(c)'
      BY <2>1, <2>2, <3>2, <3>3 DEF SerialFits
    <3>. QED  BY <2>1, <3>4, SerialChange
  <2>4. CASE ReadLevels(c)
    <3>1. call'[c] = [phase |-> "read", status |-> r.status, idem |-> r.idem,
                      old |-> CurrentLevels, new |-> r.new, version |-> r.version,
                      parent |-> r.parent]
      BY <1>0, <2>1, <2>4, WithLevels DEF ReadLevels
    <3>2. r.phase = "unseen"
      BY <2>4 DEF ReadLevels
    <3>3. SerialFits(c)'
      BY <2>1, <2>2, <3>1, <3>2 DEF SerialFits
    <3>. QED  BY <2>1, <3>3, SerialChange
  <2>5. CASE ReadVersion(c)
    <3>1. call'[c] = [phase |-> "versioned", status |-> r.status, idem |-> r.idem,
                      old |-> r.old, new |-> r.new,
                      version |-> Cardinality(ledger) + 1, parent |-> LatestVersion]
      BY <1>0, <2>1, <2>5, WithVersion DEF ReadVersion
    <3>2. r.phase = "read"
      BY <2>5 DEF ReadVersion
    <3>3. SerialFits(c)'
      BY <2>1, <2>2, <3>1, <3>2 DEF SerialFits
    <3>. QED  BY <2>1, <3>3, SerialChange
  <2>. QED  BY <1>3, <2>3, <2>4, <2>5 DEF CallStep
<1>4. ASSUME NEW c \in Caller, CallReturns(c) \/ CallRaises(c) PROVE SerialInv'
  BY <1>4, SerialEnd
     DEF CallReturns, CallRaises, Replay, DeferForOpenOrder, Commit, VersionTaken, AbortCall
<1>5. ASSUME UNCHANGED ledgerVars PROVE SerialInv'
  <2>1. /\ Written' = Written /\ CurrentLevels' = CurrentLevels /\ call' = call
        /\ \A k : Recorded(k)' <=> Recorded(k)
    BY <1>5 DEF Written, CurrentLevels, Recorded, ledgerVars
  <2>. QED  BY <2>1 DEF SerialInv, SerialFits
<1>. QED  BY <1>1, <1>2, <1>3, <1>4, <1>5 DEF LedgerNext

-----------------------------------------------------------------------------
(* A commit is a call of the in-memory target                                *)

\* The entry of a commit is appended to the history.
LEMMA CommitAppends ==
    ASSUME LedgerInv, LedgerInv', NEW c \in Caller, Commit(c)
    PROVE  /\ History' = Append(History, Row(EntryOf(c)))
           /\ Len(History) < MaxVersion
           /\ CurrentLevels' = IF call[c].status = "written" THEN call[c].new
                               ELSE CurrentLevels
           /\ call[c].parent = LatestVersion
<1>. DEFINE n == Cardinality(ledger)
<1>1. HistoryFits /\ HistoryFits'
  BY HistoryRows, HistoryRowsNext
<1>2. PICK e : e = EntryOf(c)
  OBVIOUS
<1>3. /\ IsFiniteSet(ledger) /\ n \in Nat /\ Versions = 1..n
      /\ call[c] \in Call /\ call[c].version \in 1..(n + 1)
      /\ call[c].version = n + 1 => call[c].parent = LatestVersion
      /\ ledger' = ledger \cup {e}
  BY <1>2, FS_CardinalityType
     DEF LedgerInv, LedgerTypeOK, Bookkeeping, VersionsContiguous, Commit
<1>4. call[c].version = n + 1
  <2>1. call[c].version \notin Versions
    BY DEF Commit, Versions
  <2>. QED  BY <1>3, <2>1
<1>5. /\ e.version = n + 1 /\ e.status = call[c].status /\ e.new = call[c].new
      /\ n + 1 <= MaxVersion
  BY <1>2, <1>3, <1>4, MaxVersionAssumption DEF EntryOf, Call
<1>6. \A f \in ledger : f.version \in 1..n
  BY <1>3 DEF Versions
<1>7. e \notin ledger /\ Cardinality(ledger') = n + 1
  <2>1. e \notin ledger
    BY <1>3, <1>5, <1>6
  <2>2. Cardinality(ledger \cup {e}) = n + 1
    BY <1>3, <2>1, FS_AddElement
  <2>. QED  BY <1>3, <2>1, <2>2
<1>. HIDE DEF n
<1>8. /\ History \in Seq(HistoryRow) /\ Len(History) = n /\ DOMAIN History = 1..n
      /\ History' \in Seq(HistoryRow) /\ Len(History') = n + 1
      /\ DOMAIN History' = 1..(n + 1)
  BY <1>1, <1>7 DEF HistoryFits, n
<1>9. History'[n + 1] = Row(e)
  <2>1. e \in ledger'
    BY <1>3
  <2>. QED  BY <1>1, <1>5, <2>1 DEF HistoryFits, Row
<1>10. ASSUME NEW m \in 1..n PROVE History'[m] = History[m]
  <2>1. PICK f \in ledger : f.version = m /\ History[m] = Row(f)
    BY <1>1, <1>8 DEF HistoryFits
  <2>2. f \in ledger'
    BY <1>3
  <2>3. History'[m] = Row(f)
    BY <1>1, <2>1, <2>2 DEF HistoryFits, Row
  <2>. QED  BY <2>1, <2>3
<1>11. Row(e) \in HistoryRow
  <2>1. e \in Entry
    BY <1>3 DEF LedgerInv, LedgerTypeOK
  <2>. QED  BY <2>1 DEF Row, HistoryRow, Entry
<1>12. /\ Append(History, Row(e)) \in Seq(HistoryRow)
       /\ Len(Append(History, Row(e))) = n + 1
       /\ Append(History, Row(e))[n + 1] = Row(e)
       /\ \A m \in 1..n : Append(History, Row(e))[m] = History[m]
  BY <1>8, <1>11, AppendProperties
<1>13. \A m \in 1..(n + 1) : History'[m] = Append(History, Row(e))[m]
  BY <1>3, <1>9, <1>10, <1>12
<1>14. History' = Append(History, Row(e))
  BY <1>8, <1>12, <1>13, SeqEqual
<1>15. CurrentLevels' = IF call[c].status = "written" THEN call[c].new ELSE CurrentLevels
  <2>1. CASE call[c].status = "written"
    <3>1. Written' = Written \cup {e}
      BY <1>3, <1>5, <2>1 DEF Written
    <3>2. Written' # {} /\ Bookkeeping'
      BY <3>1 DEF LedgerInv
    <3>3. \A f \in Written : f.version \in 1..n
      BY <1>6 DEF Written
    <3>4. \A f \in Written' : (\A g \in Written' : g.version <= f.version) => f = e
      BY <1>3, <1>5, <3>1, <3>3
    <3>5. \A g \in Written' : g.version <= e.version
      BY <1>3, <1>5, <3>1, <3>3
    <3>6. e \in Written'
      BY <3>1
    <3>7. Latest(Written') = e
      BY <3>4, <3>5, <3>6 DEF Latest
    <3>8. CurrentLevels' = Latest(Written').new
      BY <3>2 DEF CurrentLevels, Latest
    <3>. QED  BY <1>5, <2>1, <3>7, <3>8
  <2>2. CASE call[c].status # "written"
    <3>1. Written' = Written
      BY <1>3, <1>5, <2>2 DEF Written
    <3>. QED  BY <2>2, <3>1 DEF CurrentLevels
  <2>. QED  BY <2>1, <2>2
<1>16. Len(History) < MaxVersion
  BY <1>3, <1>5, <1>8, MaxVersionAssumption
<1>. QED  BY <1>2, <1>3, <1>4, <1>14, <1>15, <1>16

\* A commit is a write, a shadow write or a rollback of the target.
LEMMA CommitImplements ==
    ASSUME LedgerInv, LedgerInv', SerialInv, NEW c \in Caller, Commit(c)
    PROVE  Target!TargetNext
<1>1. HistoryFits /\ SerialFits(c) /\ call[c] \in Call /\ call[c].phase = "versioned"
  BY HistoryRows DEF SerialInv, LedgerInv, LedgerTypeOK, Commit
<1>2. PICK r : r = call[c]
  OBVIOUS
<1>3. /\ History' = Append(History, Row(EntryOf(c))) /\ Len(History) < MaxVersion
      /\ CurrentLevels' = IF r.status = "written" THEN r.new ELSE CurrentLevels
      /\ r.parent = LatestVersion
  BY <1>2, CommitAppends
<1>4. r.old = CurrentLevels
  BY <1>1, <1>2 DEF SerialFits
<1>5. Row(EntryOf(c)) = [status |-> r.status, idem |-> r.idem, old |-> r.old,
                         new |-> r.new, parent |-> r.parent]
  BY <1>2 DEF Row, EntryOf
<1>6. /\ Target!LastWritten = LatestVersion
      /\ Written # {} => /\ LatestVersion # 0
                         /\ History[LatestVersion] = Row(Latest(Written))
  BY <1>1, SameLast
<1>7. Target!Record(r.status, r.idem, r.new)
  BY <1>3, <1>4, <1>5, <1>6 DEF Target!Record
<1>8. CASE r.idem # None
  <2>1. /\ r.idem \in Level /\ r.new = r.idem /\ ~Recorded(r.idem)
        /\ r.status = IF r.idem \in ShadowKey THEN "shadowed" ELSE "written"
    BY <1>1, <1>2, <1>8 DEF SerialFits, Call
  <2>2. Target!Fresh(r.idem)
    BY <1>1, <2>1 DEF Target!Fresh, HistoryFits, Row, Recorded
  <2>3. CASE r.idem \in ShadowKey
    <3>1. r.status = "shadowed" /\ CurrentLevels' = CurrentLevels
      BY <1>3, <2>1, <2>3
    <3>2. Target!WriteShadow(r.idem)
      BY <1>7, <2>1, <2>2, <3>1 DEF Target!WriteShadow
    <3>. QED  BY <2>3, <3>2 DEF Target!TargetNext
  <2>4. CASE r.idem \notin ShadowKey
    <3>1. /\ r.status = "written" /\ CurrentLevels' = r.idem
          /\ r.idem \in Key
      BY <1>3, <2>1, <2>4 DEF Level
    <3>2. Target!Write(r.idem)
      BY <1>7, <2>1, <2>2, <3>1 DEF Target!Write
    <3>. QED  BY <3>1, <3>2 DEF Target!TargetNext
  <2>. QED  BY <2>3, <2>4
<1>9. CASE r.idem = None
  <2>1. /\ r.status = "written" /\ Written # {} /\ Latest(Written).old # None
        /\ r.new = Latest(Written).old
    BY <1>1, <1>2, <1>9 DEF SerialFits
  <2>2. History[Target!LastWritten].old = r.new /\ Target!LastWritten # 0
    BY <1>6, <2>1 DEF Row
  <2>3. CurrentLevels' = r.new
    BY <1>3, <2>1
  <2>4. Target!Rollback
    BY <1>7, <1>9, <2>1, <2>2, <2>3 DEF Target!Rollback
  <2>. QED  BY <2>4 DEF Target!TargetNext
<1>. QED  BY <1>8, <1>9

\* Every step is one of the target, or unseen.
LEMMA StepImplements ==
    ASSUME LedgerInv, LedgerInv', SerialInv, [LedgerNext]_ledgerVars
    PROVE  [Target!TargetNext]_(Target!targetVars)
<1>1. ASSUME UNCHANGED ledger PROVE UNCHANGED Target!targetVars
  BY <1>1 DEF Target!targetVars, CurrentLevels, Written, Latest, History
<1>2. ASSUME NEW c \in Caller, Commit(c) PROVE Target!TargetNext
  BY <1>2, CommitImplements
<1>3. UNCHANGED ledger \/ \E c \in Caller : Commit(c)
  BY DEF LedgerNext, ledgerVars, StartWrite, StartRollback, CallStep, NotRecorded, ReadLevels,
         ReadVersion, CallReturns, Replay, DeferForOpenOrder, CallRaises, VersionTaken, AbortCall
<1>. QED  BY <1>1, <1>2, <1>3

\* An empty ledger is an empty history.
LEMMA InitImplements == LedgerInit => Target!TargetInit
<1>. SUFFICES ASSUME LedgerInit PROVE Target!TargetInit
  OBVIOUS
<1>1. HistoryFits
  BY InitLedgerInv, HistoryRows
<1>2. Cardinality(ledger) = 0 /\ Written = {}
  BY FS_EmptySet DEF LedgerInit, Written
<1>3. History = <<>>
  BY <1>1, <1>2, EmptySeq DEF HistoryFits
<1>4. CurrentLevels = None
  BY <1>2 DEF CurrentLevels
<1>. QED  BY <1>3, <1>4 DEF Target!TargetInit

\* As long as no two calls overlap, the ledger behaves as the in-memory target,
\* its executable specification (writeback.py:3), for any keys and any length.
THEOREM SerialRefinement == ASSUME OneCaller PROVE LedgerSpec => ImplementsAuditedTarget
<1>1. LedgerInv /\ SerialInv /\ [LedgerNext]_ledgerVars => SerialInv'
  BY SerialStep
<1>2. LedgerInv /\ LedgerInv' /\ SerialInv /\ [LedgerNext]_ledgerVars =>
         [Target!TargetNext]_(Target!targetVars)
  BY StepImplements
<1>. QED
  BY <1>1, <1>2, InitSerial, InitImplements, LedgerInvariance, PTL
     DEF LedgerSpec, ImplementsAuditedTarget, Target!TargetSpec
=============================================================================
