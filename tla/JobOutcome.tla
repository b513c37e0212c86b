------------------------------- MODULE JobOutcome -------------------------------
(***************************************************************************)
(* How a job's verdict is computed from its journal rows and from the way  *)
(* its child process ended: services/step_policy.py, classify_job_outcome  *)
(* and _finalize_child_result. The functions only ask which rows exist, so *)
(* a journal is a set of rows; a row is the kind of its step and a status. *)
(***************************************************************************)
EXTENDS Naturals

\* Step types as far as the classification tells them apart: set_username, the
\* story posts, set_pinned_channel (the one step type of an account update that
\* ACCOUNT_UPDATE_STEP_TYPES lacks), and all others.
Kinds == {"plain", "username", "story", "pinned"}

IsAccountUpdateStep(kind) == kind # "pinned"

StepStatus == {"STARTED", "SUCCEEDED", "FAILED", "UNCERTAIN"}

Rows == [kind : Kinds, status : StepStatus]

Workflows == {"profile", "account_update"}

TerminalStates == {"COMPLETED", "PARTIALLY_COMPLETED", "FAILED",
                   "MANUAL_INTERVENTION_NEEDED", "CANCELED", "DEDUP_BLOCKED"}

\* Some row has the status.
Has(rows, status) == \E r \in rows : r.status = status

\* classify_job_outcome
ClassifyJobOutcome(rows) ==
  IF Has(rows, "FAILED") THEN "FAILED"
  ELSE IF [kind |-> "username", status |-> "UNCERTAIN"] \in rows
       THEN "MANUAL_INTERVENTION_NEEDED"
  ELSE IF Has(rows, "UNCERTAIN") THEN "PARTIALLY_COMPLETED"
  ELSE "COMPLETED"

\* Variant for mutation: failures of known steps alone make a partial result.
ClassifyPartialOnFailure(rows) ==
  IF Has(rows, "FAILED")
  THEN IF \A r \in rows : r.status = "FAILED" => IsAccountUpdateStep(r.kind)
       THEN "PARTIALLY_COMPLETED" ELSE "FAILED"
  ELSE IF Has(rows, "UNCERTAIN")
  THEN IF Has(rows, "SUCCEEDED") THEN "PARTIALLY_COMPLETED" ELSE "FAILED"
  ELSE "COMPLETED"

\* classify_account_update_job_outcome, without a hard stop code
ClassifyAccountUpdate(rows) ==
  IF Has(rows, "FAILED")
  THEN IF /\ Has(rows, "SUCCEEDED")
          /\ \A r \in rows : r.status = "FAILED" => IsAccountUpdateStep(r.kind)
       THEN "PARTIALLY_COMPLETED" ELSE "FAILED"
  ELSE IF Has(rows, "UNCERTAIN")
  THEN IF Has(rows, "SUCCEEDED") THEN "PARTIALLY_COMPLETED" ELSE "FAILED"
  ELSE "COMPLETED"

\* _classify_terminal_job_outcome
Classify(workflow, rows) ==
  IF workflow = "account_update" THEN ClassifyAccountUpdate(rows) ELSE ClassifyJobOutcome(rows)

\* The exit of a child: what main() of tdlib_job returns, or the signal that
\* ended it. argparse's exit code 2 is kept because the parent tests for it.
ExitCodes == {"ok", "failed", "usage", "uncertain", "signal"}

\* Why a job was concluded, failure_reason by what it says of the run.
Reasons == {"none", "execution", "runtime_failed", "hard_stop", "interrupted",
            "malformed_child_event", "child_process_timeout", "worker_timeout"}

\* What the parent does with a journal at the end of a run.
Ending(state, reason, settle, flag) ==
  [state |-> state, reason |-> reason, settle |-> settle, flag |-> flag]

\* Variant for mutation: the hard stop is tested after the workflow.
FinalizeHardStopLast(workflow, rows, code, runtimeFailed, hardStop) ==
  IF code = "ok" /\ ~runtimeFailed
  THEN Ending(Classify(workflow, rows), "none", FALSE, FALSE)
  ELSE IF workflow = "account_update"
  THEN Ending(Classify(workflow, rows), "runtime_failed", FALSE, FALSE)
  ELSE IF hardStop
  THEN Ending("MANUAL_INTERVENTION_NEEDED", "hard_stop", FALSE, TRUE)
  ELSE Ending("FAILED", "runtime_failed", TRUE, FALSE)

\* Variant for mutation: a child that died is taken for one that succeeded
\* unless it reported a failure itself.
FinalizeIgnoresExit(workflow, rows, code, runtimeFailed, hardStop) ==
  IF ~runtimeFailed THEN Ending(Classify(workflow, rows), "none", FALSE, FALSE)
  ELSE IF hardStop THEN Ending("MANUAL_INTERVENTION_NEEDED", "hard_stop", FALSE, TRUE)
  ELSE Ending("FAILED", "runtime_failed", TRUE, FALSE)

\* _finalize_child_result: settle marks the STARTED rows uncertain before the
\* job is concluded, flag hard-stops the account before it.
Finalize(workflow, rows, code, runtimeFailed, hardStop) ==
  IF code = "ok" /\ ~runtimeFailed
  THEN Ending(Classify(workflow, rows), "execution", FALSE, FALSE)
  ELSE IF code = "uncertain"
  THEN Ending(Classify(workflow, rows), "execution", FALSE, FALSE)
  ELSE IF code = "usage"
  THEN Ending("MANUAL_INTERVENTION_NEEDED", "interrupted", TRUE, FALSE)
  ELSE IF hardStop
  THEN Ending("MANUAL_INTERVENTION_NEEDED", "hard_stop", FALSE, TRUE)
  ELSE IF workflow = "account_update"
  THEN Ending(ClassifyAccountUpdate(rows), "runtime_failed", FALSE, FALSE)
  ELSE Ending("FAILED", "runtime_failed", TRUE, FALSE)

================================================================================
