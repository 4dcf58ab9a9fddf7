--------------------------- MODULE PolicyRestore ---------------------------
(***************************************************************************)
(* The watcher with what it tells the operator: the result of a reload     *)
(* that the control plane's metrics recorded last (RecordPolicyReload in   *)
(* cmd/shieldwardd/reload.go).                                             *)
(***************************************************************************)
EXTENDS PolicyWatcher

VARIABLE lastReload   \* the result recorded last

restoreVars == <<vars, lastReload>>

RestoreTypeOK == TypeOK /\ lastReload \in {"none", "updated", "rejected"}

RestoreInit == Init /\ lastReload = "none"

Rejected ==
  /\ ObserveMissing \/ ReadRejected \/ SignFails
  /\ lastReload' = "rejected"

Updated == Publish /\ lastReload' = "updated"

Unrecorded ==
  /\ OperatorEdits \/ StartWatch \/ Observe \/ ReadPolicy
     \/ AlreadyPublished \/ StopWatch
  /\ UNCHANGED lastReload

RestoreSpec == RestoreInit /\ [][Rejected \/ Updated \/ Unrecorded]_restoreVars

-----------------------------------------------------------------------------
(* Properties                                                              *)

\* docs/failure-drills.md, "Rejected policy update": after the rejection,
\* "Restore the validated policy and confirm a successful reload."  When the
\* restored policy has been taken in, the last recorded reload should be no
\* rejection.
RestoreIsConfirmed ==
  /\ step = "waiting"
  /\ ~MustReload
  /\ content \in Valid
  /\ ~signFailed
  => lastReload # "rejected"

=============================================================================
