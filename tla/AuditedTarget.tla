---------------------------- MODULE AuditedTarget ----------------------------
(***************************************************************************)
(* InMemoryWritebackTarget (writeback/target.py), for one (tenant, part,   *)
(* location): the "executable spec" of every other writeback target.  A    *)
(* call is one step.  The stock levels of the key are kept next to the     *)
(* history of how they came about, and a rollback reverts the last change. *)
(*                                                                         *)
(* A write is named by its idempotency key, which also stands for the      *)
(* levels it writes; None stands for levels that were never set.           *)
(***************************************************************************)
EXTENDS Naturals, Sequences

CONSTANTS Key,        \* idempotency keys of live writes
          ShadowKey,  \* idempotency keys of shadow writes
          MaxVersion, \* bound on the length of the history
          None

VARIABLES levels,   \* the current levels of the key
          history   \* its entries, oldest first

targetVars == <<levels, history>>

WrittenAt == {n \in DOMAIN history : history[n].status = "written"}

\* The version of the last entry that changed the levels, 0 if there is none.
LastWritten ==
    IF WrittenAt = {} THEN 0
    ELSE CHOOSE n \in WrittenAt : \A m \in WrittenAt : m <= n

Record(status, idem, new) ==
    /\ Len(history) < MaxVersion
    /\ history' = Append(history, [status |-> status, idem |-> idem, old |-> levels,
                                   new |-> new, parent |-> LastWritten])

\* A key that was written before is not written again.
Fresh(k) == \A n \in DOMAIN history : history[n].idem # k

Write(k) ==
    /\ Fresh(k)
    /\ Record("written", k, k)
    /\ levels' = k

\* A shadow write leaves its mark in the history only.
WriteShadow(k) ==
    /\ Fresh(k)
    /\ Record("shadowed", k, k)
    /\ UNCHANGED levels

\* A rollback restores what the last change replaced, if it replaced anything.
Rollback ==
    /\ LastWritten # 0
    /\ LET reverted == history[LastWritten] IN
         /\ reverted.old # None
         /\ Record("written", None, reverted.old)
         /\ levels' = reverted.old

TargetInit ==
    /\ levels = None
    /\ history = <<>>

TargetNext ==
    \/ \E k \in Key : Write(k)
    \/ \E k \in ShadowKey : WriteShadow(k)
    \/ Rollback

TargetSpec == TargetInit /\ [][TargetNext]_targetVars
=============================================================================
