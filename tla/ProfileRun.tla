------------------------------- MODULE ProfileRun ------------------------------
(***************************************************************************)
(* One execution of a profile job: the worker that holds the account lock  *)
(* and has marked the job RUNNING (workers/profile_jobs.py), the child     *)
(* process it launches (tdlib_job.py), which applies the plan's steps to   *)
(* Telegram one after another, the pipe between them, and the journal the  *)
(* worker writes from the child's events.                                  *)
(*                                                                         *)
(* The child prints one line per event and the worker reads them later, so *)
(* the journal lags behind Telegram. Either process can die at any point,  *)
(* the deadline can pass, the lock can be lost to another worker, and the  *)
(* child can print a line that is not an event.                            *)
(*                                                                         *)
(* Lines without a handler (runtime_started, runtime_closed) only renew    *)
(* the lock and are left out.                                              *)
(***************************************************************************)
EXTENDS JobOutcome, Sequences

CONSTANTS
  Plan,          \* the kinds of the plan's steps, in order
  Workflow,      \* job.workflow_type
  ReaperEnabled  \* stale_job_reaper_enabled, off by default

ASSUME PlanAssumption == Plan \in Seq(Kinds) /\ Len(Plan) > 0
ASSUME WorkflowAssumption == Workflow \in Workflows
ASSUME ReaperAssumption == ReaperEnabled \in BOOLEAN

VARIABLES
  child,     \* where the child process is
  at,        \* the step it is working on
  applied,   \* steps whose change took effect at Telegram
  outbox,    \* events of the current step still to be printed
  emitted,   \* every event line printed so far
  exit,      \* how the child ended
  worker,    \* where the worker is
  consumed,  \* number of lines the worker has read
  seen,      \* the worker's _ChildEventState
  ending,    \* how the worker will conclude the job
  rows,      \* status of each step's JobStepResult row, if there is one
  job,       \* job_state and failure_reason
  lock,      \* whether the account lock is this run's
  flagged,   \* the account was hard-stopped
  overdue    \* profile_job_timeout_seconds have passed

childVars == <<child, at, applied, outbox, emitted, exit>>
workerVars == <<worker, consumed, seen, ending, rows, job, lock, flagged, overdue>>
vars == <<child, at, applied, outbox, emitted, exit,
          worker, consumed, seen, ending, rows, job, lock, flagged, overdue>>

Steps == 1 .. Len(Plan)

Codes == {"none", "soft", "hard"}
EventTypes == {"started", "succeeded", "uncertain", "failed", "runtime_failed",
               "garbage", "stray"}
Event == [type : EventTypes, step : Nat, code : Codes]
Line(type, step, code) == [type |-> type, step |-> step, code |-> code]

ChildAlive == {"starting", "announcing", "acting", "reporting", "closing", "eof"}
ChildStates == {"none", "exited"} \cup ChildAlive

Concluding == {"settling", "flagging", "concluding", "releasing"}
WorkerAlive == {"launching", "reading", "waiting"} \cup Concluding
WorkerStates == {"gone", "dead"} \cup WorkerAlive

NoEnding == Ending("RUNNING", "none", FALSE, FALSE)

TypeOK ==
  /\ child \in ChildStates
  /\ at \in 0 .. Len(Plan)
  /\ applied \subseteq Steps
  /\ outbox \in Seq(Event)
  /\ emitted \in Seq(Event)
  /\ exit \in {"none"} \cup ExitCodes
  /\ worker \in WorkerStates
  /\ consumed \in 0 .. Len(emitted)
  /\ seen \in [runtimeFailed : BOOLEAN, hardStop : BOOLEAN]
  /\ ending \in [state : {"RUNNING"} \cup TerminalStates, reason : Reasons,
                 settle : BOOLEAN, flag : BOOLEAN]
  /\ rows \in [Steps -> {"none"} \cup StepStatus]
  /\ job \in [state : {"RUNNING"} \cup TerminalStates, reason : Reasons]
  /\ lock \in {"mine", "lost", "free"}
  /\ flagged \in BOOLEAN
  /\ overdue \in BOOLEAN

\* mark_job_running has committed.
Init ==
  /\ child = "none" /\ at = 0 /\ applied = {}
  /\ outbox = <<>> /\ emitted = <<>> /\ exit = "none"
  /\ worker = "launching" /\ consumed = 0
  /\ seen = [runtimeFailed |-> FALSE, hardStop |-> FALSE]
  /\ ending = NoEnding
  /\ rows = [i \in Steps |-> "none"]
  /\ job = [state |-> "RUNNING", reason |-> "none"]
  /\ lock = "mine" /\ flagged = FALSE /\ overdue = FALSE

--------------------------------------------------------------------------------
\* The child process: main() of tdlib_job around the adapter's execute()

\* The worker reads the child's stdout until its finally clause closes the pipe.
PipeOpen == worker \in WorkerAlive

\* Variant for mutation: the loop does not stop after the plan's last step.
ProceedPastEnd == child' = "announcing" /\ at' = at + 1

\* The step after the current one, if the plan has one.
Proceed ==
  IF at < Len(Plan) THEN child' = "announcing" /\ at' = at + 1
                    ELSE child' = "closing" /\ UNCHANGED at

\* TDLib is ready: runtime_started is printed and the loop over the plan begins.
Ready ==
  /\ child = "starting"
  /\ PipeOpen
  /\ Proceed
  /\ UNCHANGED <<applied, outbox, emitted, exit, workerVars>>

\* TDLib is not available or does not become ready.
RuntimeFails ==
  /\ child = "starting"
  /\ child' = "reporting"
  /\ outbox' = <<Line("runtime_failed", 0, "soft")>>
  /\ UNCHANGED <<at, applied, emitted, exit, workerVars>>

\* step_started is printed before the step is executed.
Announce ==
  /\ child = "announcing"
  /\ PipeOpen
  /\ emitted' = Append(emitted, Line("started", at, "none"))
  /\ child' = "acting"
  /\ UNCHANGED <<at, applied, outbox, exit, workerVars>>

\* What _execute_step reports of a step: success, an uncertain result where the
\* kind of step has one, or a failure, which ends the runtime with its code.
ResultsOf(kind) ==
  {<<Line("succeeded", at, "none")>>}
    \cup {<<Line("failed", at, c), Line("runtime_failed", at, c)>> : c \in {"soft", "hard"}}
    \cup (IF kind \in {"username", "story"} THEN {<<Line("uncertain", at, "none")>>} ELSE {})

\* The query is sent and its outcome awaited. A step reported as successful
\* took effect; one that failed or is uncertain may have.
Act ==
  /\ child = "acting"
  /\ \E result \in ResultsOf(Plan[at]) :
       /\ outbox' = result
       /\ \/ applied' = applied \cup {at}
          \/ result[1].type # "succeeded" /\ UNCHANGED applied
  /\ child' = "reporting"
  /\ UNCHANGED <<at, emitted, exit, workerVars>>

\* The next event of the step is printed; after the last one the loop goes on,
\* or the generator returns because the result stops the runtime.
Report ==
  /\ child = "reporting"
  /\ PipeOpen
  /\ emitted' = Append(emitted, Head(outbox))
  /\ outbox' = Tail(outbox)
  /\ IF Len(outbox) > 1 THEN UNCHANGED <<child, at>>
     ELSE IF Head(outbox).type = "succeeded" THEN Proceed
     ELSE child' = "closing" /\ UNCHANGED at
  /\ UNCHANGED <<applied, exit, workerVars>>

\* A library prints to stdout between two events: text, or JSON that is no event.
Pollute ==
  /\ child \in {"starting", "acting"}
  /\ PipeOpen
  /\ \A k \in 1 .. Len(emitted) : emitted[k].type \notin {"garbage", "stray"}
  /\ \E type \in {"garbage", "stray"} : emitted' = Append(emitted, Line(type, 0, "none"))
  /\ UNCHANGED <<child, at, applied, outbox, exit, workerVars>>

\* Printing to a closed pipe raises out of main().
PrintFails ==
  /\ child \in {"starting", "announcing", "reporting"}
  /\ ~PipeOpen
  /\ child' = "eof"
  /\ exit' = "failed"
  /\ UNCHANGED <<at, applied, outbox, emitted, workerVars>>

Printed(type) == \E k \in 1 .. Len(emitted) : emitted[k].type = type

\* The TDLib client is closed and main() returns its exit code.
CloseClient ==
  /\ child = "closing"
  /\ child' = "eof"
  /\ exit' = IF Printed("runtime_failed") THEN "failed"
             ELSE IF Printed("uncertain") THEN "uncertain" ELSE "ok"
  /\ UNCHANGED <<at, applied, outbox, emitted, workerVars>>

\* The process ends after its stdout is closed.
ExitChild ==
  /\ child = "eof"
  /\ child' = "exited"
  /\ UNCHANGED <<at, applied, outbox, emitted, exit, workerVars>>

\* The process is killed; the step in flight may have taken effect.
Killed ==
  /\ child' = "exited"
  /\ exit' = "signal"
  /\ applied' \in {applied} \cup (IF child = "acting" THEN {applied \cup {at}} ELSE {})
  /\ UNCHANGED <<at, outbox, emitted>>

ChildDies == child \in ChildAlive /\ Killed /\ UNCHANGED workerVars

--------------------------------------------------------------------------------
\* The worker: _run_profile_child_process and its event loop

Launch ==
  /\ worker = "launching"
  /\ worker' = "reading"
  /\ child' = "starting"
  /\ UNCHANGED <<at, applied, outbox, emitted, exit,
                 consumed, seen, ending, rows, job, lock, flagged, overdue>>

\* The row an event's handler leaves; a result without a row creates one.
RowStatus == [started |-> "STARTED", succeeded |-> "SUCCEEDED",
              uncertain |-> "UNCERTAIN", failed |-> "FAILED"]

Recorded(event) ==
  IF event.type \in DOMAIN RowStatus
  THEN [rows EXCEPT ![event.step] = RowStatus[event.type]]
  ELSE rows

\* The _ChildEventState after an event.
Noted(event) ==
  IF event.type \in {"failed", "runtime_failed"}
  THEN [runtimeFailed |-> TRUE, hardStop |-> seen.hardStop \/ event.code = "hard"]
  ELSE seen

NextLine == emitted[consumed + 1]

\* An event is read, the lock renewed and the event recorded.
ReadEvent ==
  /\ worker = "reading" /\ ~overdue
  /\ consumed < Len(emitted)
  /\ NextLine.type \notin {"garbage", "stray"}
  /\ consumed' = consumed + 1
  /\ rows' = Recorded(NextLine)
  /\ seen' = Noted(NextLine)
  /\ UNCHANGED <<childVars, worker, ending, job, lock, flagged, overdue>>

\* A line that is not JSON ends the loop: the job fails, the child is left alone.
ReadGarbage ==
  /\ worker = "reading" /\ ~overdue
  /\ consumed < Len(emitted)
  /\ NextLine.type = "garbage"
  /\ consumed' = consumed + 1
  /\ ending' = Ending("FAILED", "malformed_child_event", FALSE, FALSE)
  /\ worker' = "concluding"
  /\ UNCHANGED <<childVars, seen, rows, job, lock, flagged, overdue>>

\* JSON that is no event raises out of the loop; only the finally clause runs.
ReadStray ==
  /\ worker = "reading" /\ ~overdue
  /\ consumed < Len(emitted)
  /\ NextLine.type = "stray"
  /\ consumed' = consumed + 1
  /\ worker' = "releasing"
  /\ UNCHANGED <<childVars, seen, ending, rows, job, lock, flagged, overdue>>

\* Variant for mutation: the loop ends when the process has, whatever is unread.
ReadEOFEarly ==
  /\ worker = "reading" /\ ~overdue
  /\ child \in {"eof", "exited"}
  /\ worker' = "waiting"
  /\ UNCHANGED <<childVars, consumed, seen, ending, rows, job, lock, flagged, overdue>>

\* The reader thread's end mark comes after every line.
ReadEOF ==
  /\ worker = "reading" /\ ~overdue
  /\ consumed = Len(emitted)
  /\ child \in {"eof", "exited"}
  /\ worker' = "waiting"
  /\ UNCHANGED <<childVars, consumed, seen, ending, rows, job, lock, flagged, overdue>>

\* The journal as the classification sees it.
Journal == {[kind |-> Plan[i], status |-> rows[i]] : i \in {j \in Steps : rows[j] # "none"}}

\* Where the worker goes once it knows how to conclude.
Conclusion(e) ==
  /\ ending' = e
  /\ worker' = IF e.settle THEN "settling" ELSE IF e.flag THEN "flagging" ELSE "concluding"

\* process.wait returns; the verdict is computed from the journal.
ReapChild ==
  /\ worker = "waiting"
  /\ child = "exited"
  /\ Conclusion(Finalize(Workflow, Journal, exit, seen.runtimeFailed, seen.hardStop))
  /\ UNCHANGED <<childVars, consumed, seen, rows, job, lock, flagged, overdue>>

\* Variants for mutation: the child survives the timeout; the deadline is only
\* tested once the pipe is at its end.
TimeOutWithoutKill ==
  /\ overdue
  /\ worker \in {"reading", "waiting"}
  /\ child = "exited" => worker = "reading"
  /\ Conclusion(Ending("FAILED", "child_process_timeout", TRUE, FALSE))
  /\ UNCHANGED <<childVars, consumed, seen, rows, job, lock, flagged, overdue>>
TimeOutWaiting ==
  /\ overdue
  /\ worker = "waiting" /\ child # "exited"
  /\ Killed
  /\ Conclusion(Ending("FAILED", "child_process_timeout", TRUE, FALSE))
  /\ UNCHANGED <<consumed, seen, rows, job, lock, flagged, overdue>>

\* _mark_child_process_timeout: the child is killed before anything is written.
TimeOut ==
  /\ overdue
  /\ worker \in {"reading", "waiting"}
  /\ IF child = "exited" THEN worker = "reading" /\ UNCHANGED childVars ELSE Killed
  /\ Conclusion(Ending("FAILED", "child_process_timeout", TRUE, FALSE))
  /\ UNCHANGED <<consumed, seen, rows, job, lock, flagged, overdue>>

\* mark_started_steps_uncertain
Settled == [i \in Steps |-> IF rows[i] = "STARTED" THEN "UNCERTAIN" ELSE rows[i]]

\* Variant for mutation: the STARTED rows are left as they are.
SettleNothing ==
  /\ worker = "settling"
  /\ worker' = "concluding"
  /\ UNCHANGED <<childVars, consumed, seen, ending, rows, job, lock, flagged, overdue>>

Settle ==
  /\ worker = "settling"
  /\ rows' = Settled
  /\ worker' = "concluding"
  /\ UNCHANGED <<childVars, consumed, seen, ending, job, lock, flagged, overdue>>

\* _mark_account_hard_stopped
Flag ==
  /\ worker = "flagging"
  /\ flagged' = TRUE
  /\ worker' = "concluding"
  /\ UNCHANGED <<childVars, consumed, seen, ending, rows, job, lock, overdue>>

\* mark_terminal writes only while the lock is this run's; its answer is ignored.
Conclude ==
  /\ worker = "concluding"
  /\ job' = IF lock = "mine" THEN [state |-> ending.state, reason |-> ending.reason] ELSE job
  /\ worker' = "releasing"
  /\ UNCHANGED <<childVars, consumed, seen, ending, rows, lock, flagged, overdue>>

\* The finally clause: the streams are closed and the lock is given back.
Release ==
  /\ worker = "releasing"
  /\ lock' = IF lock = "mine" THEN "free" ELSE lock
  /\ worker' = "gone"
  /\ UNCHANGED <<childVars, consumed, seen, ending, rows, job, flagged, overdue>>

--------------------------------------------------------------------------------
\* What may go wrong around them

\* The worker is killed, or it raises where no finally clause runs: before the
\* try, or in it with a database error that also stops the release.
WorkerDies ==
  /\ worker \in WorkerAlive
  /\ worker' = "dead"
  /\ UNCHANGED <<childVars, consumed, seen, ending, rows, job, lock, flagged, overdue>>

\* The deadline passes.
Expire ==
  /\ worker \in {"reading", "waiting"} /\ ~overdue
  /\ overdue' = TRUE
  /\ UNCHANGED <<childVars, worker, consumed, seen, ending, rows, job, lock, flagged>>

\* The child was silent for lock_stale_seconds and another worker took the lock,
\* or an account reset cleared it.
LoseLock ==
  /\ lock = "mine"
  /\ lock' = "lost"
  /\ UNCHANGED <<childVars, worker, consumed, seen, ending, rows, job, flagged, overdue>>

\* reap_stale_jobs. stale_job_timeout_seconds exceed what a live run may take,
\* so the worker it finds is not running any more.
Reap ==
  /\ ReaperEnabled
  /\ worker \in {"gone", "dead"}
  /\ job.state = "RUNNING"
  /\ rows' = Settled
  /\ job' = [state |-> "FAILED", reason |-> "worker_timeout"]
  /\ lock' = IF lock = "mine" THEN "free" ELSE lock
  /\ UNCHANGED <<childVars, worker, consumed, seen, ending, flagged, overdue>>

--------------------------------------------------------------------------------
ChildStep ==
  \/ Ready \/ RuntimeFails \/ Announce \/ Act \/ Report \/ Pollute
  \/ PrintFails \/ CloseClient \/ ExitChild \/ ChildDies

WorkerStep ==
  \/ Launch \/ ReadEvent \/ ReadGarbage \/ ReadStray \/ ReadEOF \/ ReapChild
  \/ TimeOut \/ Settle \/ Flag \/ Conclude \/ Release

Next == ChildStep \/ WorkerStep \/ WorkerDies \/ Expire \/ LoseLock \/ Reap

Spec == Init /\ [][Next]_vars

\* The worker's loop never blocks for more than 0.2 s, time passes, and the
\* reaper, where it is enabled, runs every interval. Nothing is assumed of the
\* child: TDLib may hang.
FairSpec == Spec /\ WF_vars(WorkerStep) /\ WF_vars(Expire) /\ WF_vars(Reap)

--------------------------------------------------------------------------------
\* Correctness

\* The worker came to its conclusion by _finalize_child_result.
Finalized == ending.reason \in {"execution", "runtime_failed", "hard_stop", "interrupted"}

\* Executing the plan refines PlanExecution: steps in order and at most once, one
\* verdict, COMPLETED only if every step took effect. This relates the verdict,
\* computed from the journal, to what happened at Telegram.
Execution == INSTANCE PlanExecution
  WITH Length <- Len(Plan), Verdicts <- TerminalStates,
       effects <- applied, verdict <- job.state
ExecutesPlan == Execution!Spec

\* The part of it about the verdict COMPLETED, which an operator reads as "every
\* step was executed" (classify_account_update_job_outcome, classify_job_outcome).
CompletedMeansApplied == job.state = "COMPLETED" => applied = Steps

\* The verdict of an account update says so only together with its failure_reason:
\* _mark_account_update_runtime_failure classifies the journal of a child that failed or
\* died as any other. With that read as a failure, a run of either workflow keeps the
\* promise: a COMPLETED that rests on an orderly exit is true.
Verdict ==
  IF job.state = "COMPLETED" /\ job.reason = "runtime_failed" THEN "FAILED" ELSE job.state
Reading == INSTANCE PlanExecution
  WITH Length <- Len(Plan), Verdicts <- TerminalStates,
       effects <- applied, verdict <- Verdict
ExecutesPlanAsRead == Reading!Spec

\* Every step that took effect has a journal row once the job was concluded from
\* its journal: no line is lost between the child's print and the end of the pipe.
EffectsJournaled ==
  job.state \in TerminalStates /\ Finalized => \A i \in applied : rows[i] # "none"

\* No step of a concluded profile job is still STARTED, however the run ended,
\* unless a malformed line ended it (_mark_malformed_child_event settles nothing).
RowsSettled ==
  job.state \in TerminalStates /\ job.reason # "malformed_child_event"
    => \A i \in Steps : rows[i] # "STARTED"

\* The child has ended before its job is concluded and the account lock given
\* back, so the next job of the account finds no TDLib client of this one; again
\* not after a line that is no event, which leaves the child running.
ChildEndsFirst ==
  worker \in {"settling", "flagging", "concluding", "releasing", "gone"}
    => child = "exited" \/ Printed("garbage") \/ Printed("stray")

\* A hard-stop code that a child reported reaches the account, whichever event
\* carried it and however the child ended, when the run is finalized.
HardStopFlags == worker = "gone" /\ Finalized /\ seen.hardStop => flagged

\* PARTIALLY_COMPLETED says that something was done and that something was not.
PartialMeansBoth ==
  job.state = "PARTIALLY_COMPLETED"
    => /\ \E i \in applied : rows[i] = "SUCCEEDED"
       /\ \E i \in Steps : rows[i] \notin {"none", "SUCCEEDED"}

\* Every run comes to a verdict: a hung child meets the deadline, and a job whose
\* worker died, or was refused the verdict for having lost the lock, is reaped.
JobSettles == <>(job.state # "RUNNING")

================================================================================
