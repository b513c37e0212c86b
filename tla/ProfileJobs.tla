------------------------------- MODULE ProfileJobs ------------------------------
(***************************************************************************)
(* The life of the profile jobs of one account, from the request that      *)
(* creates a job to its verdict: the API's sessions that create and cancel *)
(* jobs (services/jobs.py, api/jobs.py), the Redis queue                   *)
(* (job_queue/rq.py), the workers that take jobs from it, contend for the  *)
(* account lock and run one job at a time (workers/profile_jobs.py), and   *)
(* the reaper (services/stale_jobs.py).                                    *)
(*                                                                         *)
(* Sessions keep what they loaded (expire_on_commit=False), so a check of  *)
(* a job's state and the write that follows it are separate steps here     *)
(* whenever a commit or a query lies between them. What happens inside a   *)
(* run is ProfileRun's subject, the lock row's protocol is AccountLock's:  *)
(* here a run ends with any verdict, and the lock is free, held by a       *)
(* worker, or left behind by a dead one until it is stale.                 *)
(***************************************************************************)
EXTENDS Naturals, FiniteSets

CONSTANTS
  Jobs,            \* the jobs of one account, by the requests that create them
  NoJob,           \* an idle worker's job
  Workers,         \* worker processes of the queue profile_jobs
  IntentOf,        \* execution_intent_hash of each job
  ReaperEnabled,   \* stale_job_reaper_enabled
  SchedulerRuns,   \* an RQ scheduler moves due retries to the queue
  InlineFallback,  \* queue_inline_fallback_enabled
  Disturbances     \* what may go wrong, a subset of Faults

Faults == {"worker_dies", "api_dies", "lock_lost", "redis_restart", "enqueue_unacknowledged"}

ASSUME JobsAssumption == NoJob \notin Jobs /\ DOMAIN IntentOf = Jobs
ASSUME WorkersAssumption == {"free", "abandoned"} \cap Workers = {}
ASSUME SwitchAssumption == {ReaperEnabled, SchedulerRuns, InlineFallback} \subseteq BOOLEAN
ASSUME FaultAssumption == Disturbances \subseteq Faults

VARIABLES
  state,     \* job_state of each job, "none" before its row is inserted
  request,   \* where the request that creates the job is
  blocker,   \* whether that request found an active duplicate
  cancel,    \* where a request that cancels the job is
  queue,     \* jobs queued in RQ under their own id
  retry,     \* the RQ job retry-{id} of each job: none, scheduled or queued
  phase,     \* where each worker is
  on,        \* the job each worker is on
  lock,      \* who holds the account lock
  age,       \* queued_at: 0 recent, 1 older than max_lock_wait_seconds, 2 stale
  cooldown,  \* a job succeeded within profile_job_cooldown_seconds
  starts,    \* how often each job's child process was launched
  stale      \* jobs the reaper's query has found

apiVars == <<request, blocker, cancel>>
workerVars == <<phase, on>>
bookkeeping == <<age, cooldown, starts, stale>>
vars == <<state, request, blocker, cancel, queue, retry, phase, on, lock, age, cooldown, starts, stale>>

Active == {"QUEUED", "WAITING_LOCK", "RUNNING"}
Verdicts == {"COMPLETED", "PARTIALLY_COMPLETED", "FAILED", "MANUAL_INTERVENTION_NEEDED"}
Terminal == Verdicts \cup {"CANCELED", "DEDUP_BLOCKED"}

Phases == {"idle", "loaded", "contended", "locked", "starting", "running", "releasing"}

TypeOK ==
  /\ state \in [Jobs -> {"none", "deleted"} \cup Active \cup Terminal]
  /\ request \in [Jobs -> {"none", "checked", "inserted", "refused", "done"}]
  /\ blocker \in [Jobs -> BOOLEAN]
  /\ cancel \in [Jobs -> {"none", "checked", "written"}]
  /\ queue \subseteq Jobs /\ stale \subseteq Jobs
  /\ retry \in [Jobs -> {"none", "scheduled", "queued"}]
  /\ phase \in [Workers -> Phases] /\ on \in [Workers -> Jobs \cup {NoJob}]
  /\ \A w \in Workers : phase[w] = "idle" <=> on[w] = NoJob
  /\ lock \in {"free", "abandoned"} \cup Workers
  /\ age \in [Jobs -> 0 .. 2] /\ cooldown \in BOOLEAN /\ starts \in [Jobs -> Nat]

Init ==
  /\ state = [j \in Jobs |-> "none"] /\ request = [j \in Jobs |-> "none"]
  /\ blocker = [j \in Jobs |-> FALSE] /\ cancel = [j \in Jobs |-> "none"]
  /\ queue = {} /\ stale = {} /\ retry = [j \in Jobs |-> "none"]
  /\ phase = [w \in Workers |-> "idle"] /\ on = [w \in Workers |-> NoJob]
  /\ lock = "free" /\ age = [j \in Jobs |-> 0]
  /\ cooldown = FALSE /\ starts = [j \in Jobs |-> 0]

--------------------------------------------------------------------------------
\* Requests that create a job

ActiveDuplicate(j) == \E d \in Jobs \ {j} : IntentOf[d] = IntentOf[j] /\ state[d] \in Active

\* Variant for mutation: the table has no unique index.
RaisesWithoutIndex(j, s) == state[j] = "deleted"

\* Writing s as a job's state raises if the row is gone, or if the unique index
\* ix_job_active_intent_unique holds another active job with its intent.
Raises(j, s) == state[j] = "deleted" \/ (s \in Active /\ ActiveDuplicate(j))

\* What is left after such a write: all of it, or nothing.
Write(j, s) == state' = IF Raises(j, s) THEN state ELSE [state EXCEPT ![j] = s]

\* create_profile_job up to its query for an active duplicate.
Check(j) ==
  /\ request[j] = "none" /\ ~cooldown
  /\ request' = [request EXCEPT ![j] = "checked"]
  /\ blocker' = [blocker EXCEPT ![j] = ActiveDuplicate(j)]
  /\ UNCHANGED <<state, cancel, queue, retry, workerVars, lock, bookkeeping>>

\* finalize_job_creation: the row is inserted with the state decided before.
Insert(j) ==
  /\ request[j] = "checked"
  /\ Write(j, IF blocker[j] THEN "DEDUP_BLOCKED" ELSE "QUEUED")
  /\ request' = [request EXCEPT ![j] =
       IF blocker[j] \/ Raises(j, "QUEUED") THEN "done" ELSE "inserted"]
  /\ UNCHANGED <<blocker, cancel, queue, retry, workerVars, lock, bookkeeping>>

\* enqueue_profile_job
Enqueue(j) ==
  /\ request[j] = "inserted"
  /\ queue' = queue \cup {j}
  /\ request' = [request EXCEPT ![j] = "done"]
  /\ UNCHANGED <<state, blocker, cancel, retry, workerVars, lock, bookkeeping>>

\* A RedisError; the job may have been queued all the same.
EnqueueFails(j) ==
  /\ request[j] = "inserted"
  /\ queue' \in {queue} \cup
       (IF "enqueue_unacknowledged" \in Disturbances THEN {queue \cup {j}} ELSE {})
  /\ request' = [request EXCEPT ![j] = "refused"]
  /\ UNCHANGED <<state, blocker, cancel, retry, workerVars, lock, bookkeeping>>

\* The request answers 503 and fails the job, whatever became of it since.
Refuse(j) ==
  /\ request[j] = "refused" /\ ~InlineFallback
  /\ Write(j, "FAILED")
  /\ request' = [request EXCEPT ![j] = "done"]
  /\ UNCHANGED <<blocker, cancel, queue, retry, workerVars, lock, bookkeeping>>

\* execute_inline_fallback: the API process becomes the worker. Its session has
\* loaded the job when it was QUEUED and does not look again.
RunInline(j) ==
  /\ request[j] = "refused" /\ InlineFallback
  /\ \E w \in Workers :
       /\ phase[w] = "idle"
       /\ phase' = [phase EXCEPT ![w] = "loaded"]
       /\ on' = [on EXCEPT ![w] = j]
  /\ request' = [request EXCEPT ![j] = "done"]
  /\ UNCHANGED <<state, blocker, cancel, queue, retry, lock, bookkeeping>>

ApiDies(j) ==
  /\ "api_dies" \in Disturbances
  /\ request[j] \in {"checked", "inserted", "refused"}
  /\ request' = [request EXCEPT ![j] = "done"]
  /\ UNCHANGED <<state, blocker, cancel, queue, retry, workerVars, lock, bookkeeping>>

--------------------------------------------------------------------------------
\* Requests that cancel or delete a job

\* cancel_job reads a state that may be canceled.
CancelCheck(j) ==
  /\ cancel[j] = "none"
  /\ state[j] \in Active \ {"RUNNING"}
  /\ cancel' = [cancel EXCEPT ![j] = "checked"]
  /\ UNCHANGED <<state, request, blocker, queue, retry, workerVars, lock, bookkeeping>>

\* It writes CANCELED over whatever the state is by now.
CancelWrite(j) ==
  /\ cancel[j] = "checked"
  /\ Write(j, "CANCELED")
  /\ cancel' = [cancel EXCEPT ![j] = IF state[j] = "deleted" THEN "none" ELSE "written"]
  /\ UNCHANGED <<request, blocker, queue, retry, workerVars, lock, bookkeeping>>

\* remove_job_from_queue knows the job's id, not its retry's.
CancelRemove(j) ==
  /\ cancel[j] = "written"
  /\ queue' = queue \ {j}
  /\ cancel' = [cancel EXCEPT ![j] = "none"]
  /\ UNCHANGED <<state, request, blocker, retry, workerVars, lock, bookkeeping>>

\* delete_job, and the removal from the queue, whoever still uses the row.
Delete(j) ==
  /\ state[j] \in Terminal
  /\ state' = [state EXCEPT ![j] = "deleted"]
  /\ queue' = queue \ {j}
  /\ UNCHANGED <<apiVars, retry, workerVars, lock, bookkeeping>>

--------------------------------------------------------------------------------
\* Workers

\* Variant for mutation: the job is loaded for what its id says.
LoadAny(w, j) ==
  /\ phase[w] = "idle"
  /\ phase' = [phase EXCEPT ![w] = "loaded"] /\ on' = [on EXCEPT ![w] = j]

Load(w, j) ==
  /\ phase[w] = "idle"
  /\ IF state[j] \in Active
     THEN phase' = [phase EXCEPT ![w] = "loaded"] /\ on' = [on EXCEPT ![w] = j]
     ELSE UNCHANGED workerVars

Running(w) == phase[w] \in {"starting", "running"}

\* Variant for mutation: the entry stays in the queue while the job is at work.
TakeKeeping(w, j) ==
  /\ j \in queue \/ retry[j] = "queued"
  /\ Load(w, j)
  /\ UNCHANGED <<state, apiVars, queue, retry, lock, bookkeeping>>

\* A job is taken from the queue, loaded, and skipped if it is terminal or gone.
Take(w, j) ==
  /\ \/ /\ j \in queue
        /\ queue' = queue \ {j} /\ UNCHANGED retry
     \/ /\ retry[j] = "queued"
        /\ retry' = [retry EXCEPT ![j] = "none"] /\ UNCHANGED queue
  /\ Load(w, j)
  /\ UNCHANGED <<state, apiVars, lock, bookkeeping>>

\* Variant for mutation: the lock of a worker that is running is granted again.
AcquireShared(w) ==
  /\ phase[w] = "loaded"
  /\ lock' = w /\ phase' = [phase EXCEPT ![w] = "locked"]
  /\ UNCHANGED <<state, apiVars, queue, retry, on, bookkeeping>>

\* acquire_account_lock grants the lock, or refuses it.
Acquire(w) ==
  /\ phase[w] = "loaded"
  /\ IF lock = "free" THEN lock' = w /\ phase' = [phase EXCEPT ![w] = "locked"]
                      ELSE UNCHANGED lock /\ phase' = [phase EXCEPT ![w] = "contended"]
  /\ UNCHANGED <<state, apiVars, queue, retry, on, bookkeeping>>

\* Variant for mutation: the job of the last run is not forgotten.
IdleRemembering(w) == phase' = [phase EXCEPT ![w] = "idle"] /\ UNCHANGED on

Idle(w) == phase' = [phase EXCEPT ![w] = "idle"] /\ on' = [on EXCEPT ![w] = NoJob]

\* _handle_lock_contention: fail a job that waited too long, or have it retried.
Contend(w) ==
  LET j == on[w] IN
  /\ phase[w] = "contended"
  /\ \/ /\ age[j] > 0
        /\ Write(j, "FAILED") /\ UNCHANGED retry
     \/ /\ age[j] = 0 /\ ~Raises(j, "WAITING_LOCK")
        /\ Write(j, "WAITING_LOCK") /\ retry' = [retry EXCEPT ![j] = "scheduled"]
     \/ /\ age[j] = 0 /\ (Raises(j, "WAITING_LOCK") \/ "redis_restart" \in Disturbances)
        /\ Write(j, "WAITING_LOCK") /\ UNCHANGED retry
  /\ Idle(w)
  /\ UNCHANGED <<apiVars, queue, lock, bookkeeping>>

\* mark_job_running: not written once the lock is lost, which nobody asks about. A
\* write that raises ends the worker's job before anything would give the lock back.
MarkRunning(w) ==
  /\ phase[w] = "locked"
  /\ IF lock = w THEN Write(on[w], "RUNNING") ELSE UNCHANGED state
  /\ IF lock = w /\ Raises(on[w], "RUNNING")
     THEN Idle(w) /\ lock' = "abandoned"
     ELSE phase' = [phase EXCEPT ![w] = "starting"] /\ UNCHANGED <<on, lock>>
  /\ UNCHANGED <<apiVars, queue, retry, bookkeeping>>

\* _launch_profile_child_process
Launch(w) ==
  /\ phase[w] = "starting"
  /\ phase' = [phase EXCEPT ![w] = "running"]
  /\ starts' = [starts EXCEPT ![on[w]] = @ + 1]
  /\ UNCHANGED <<state, apiVars, queue, retry, on, lock, age, cooldown, stale>>

\* The run ends and mark_terminal writes its verdict, while the lock is its own
\* and the row, which it reads again, is there.
Finish(w) ==
  /\ phase[w] = "running"
  /\ \E v \in Verdicts :
       IF lock = w /\ state[on[w]] # "deleted"
       THEN /\ state' = [state EXCEPT ![on[w]] = v]
            /\ cooldown' = (cooldown \/ v \in {"COMPLETED", "PARTIALLY_COMPLETED"})
       ELSE UNCHANGED <<state, cooldown>>
  /\ phase' = [phase EXCEPT ![w] = "releasing"]
  /\ UNCHANGED <<apiVars, queue, retry, on, lock, age, starts, stale>>

Release(w) ==
  /\ phase[w] = "releasing"
  /\ lock' = IF lock = w THEN "free" ELSE lock
  /\ Idle(w)
  /\ UNCHANGED <<state, apiVars, queue, retry, bookkeeping>>

\* The worker's process dies; what it holds stays in its name until it is stale.
WorkerDies(w) ==
  /\ "worker_dies" \in Disturbances
  /\ phase[w] # "idle"
  /\ lock' = IF lock = w THEN "abandoned" ELSE lock
  /\ Idle(w)
  /\ UNCHANGED <<state, apiVars, queue, retry, bookkeeping>>

--------------------------------------------------------------------------------
\* Time, Redis and the reaper

\* lock_stale_seconds without a heartbeat.
LockExpires ==
  /\ lock = "abandoned" \/ ("lock_lost" \in Disturbances /\ lock \in Workers)
  /\ lock' = "free"
  /\ UNCHANGED <<state, apiVars, queue, retry, workerVars, bookkeeping>>

Age(j) ==
  /\ state[j] \in Active /\ age[j] < 2
  /\ age' = [age EXCEPT ![j] = @ + 1]
  /\ UNCHANGED <<state, apiVars, queue, retry, workerVars, lock, cooldown, starts, stale>>

CooldownEnds ==
  /\ cooldown /\ cooldown' = FALSE
  /\ UNCHANGED <<state, apiVars, queue, retry, workerVars, lock, age, starts, stale>>

\* RQ's scheduler, where one runs, moves a retry that is due to the queue.
RetryDue(j) ==
  /\ SchedulerRuns /\ retry[j] = "scheduled"
  /\ retry' = [retry EXCEPT ![j] = "queued"]
  /\ UNCHANGED <<state, apiVars, queue, workerVars, lock, bookkeeping>>

RedisRestarts ==
  /\ "redis_restart" \in Disturbances
  /\ queue' = {} /\ retry' = [j \in Jobs |-> "none"]
  /\ UNCHANGED <<state, apiVars, workerVars, lock, bookkeeping>>

\* Variant for mutation: jobs that wait for the lock are not looked at.
StaleNotWaiting(j) ==
  \/ state[j] = "QUEUED" /\ age[j] = 2
  \/ state[j] = "RUNNING" /\ ~\E w \in Workers : on[w] = j /\ Running(w)

\* A RUNNING job counts from started_at, and a run that is alive ends long before
\* stale_job_timeout_seconds.
Stale(j) ==
  \/ state[j] \in {"QUEUED", "WAITING_LOCK"} /\ age[j] = 2
  \/ state[j] = "RUNNING" /\ ~\E w \in Workers : on[w] = j /\ Running(w)

\* reap_stale_jobs finds a stale job
ReapFind(j) ==
  /\ ReaperEnabled /\ j \notin stale /\ Stale(j)
  /\ stale' = stale \cup {j}
  /\ UNCHANGED <<state, apiVars, queue, retry, workerVars, lock, age, cooldown, starts>>

\* and fails it, whatever its state is by now. It clears a lock nobody renewed for
\* longer than the job is stale.
ReapFail(j) ==
  /\ j \in stale
  /\ stale' = stale \ {j}
  /\ Write(j, "FAILED")
  /\ lock' \in {lock} \cup (IF lock = "abandoned" THEN {"free"} ELSE {})
  /\ UNCHANGED <<apiVars, queue, retry, workerVars, age, cooldown, starts>>

--------------------------------------------------------------------------------
WorkerStep(w) ==
  \/ \E j \in Jobs : Take(w, j)
  \/ Acquire(w) \/ Contend(w) \/ MarkRunning(w) \/ Launch(w) \/ Finish(w) \/ Release(w)

ApiStep(j) == Check(j) \/ Insert(j) \/ Enqueue(j) \/ EnqueueFails(j) \/ Refuse(j) \/ RunInline(j)

Next ==
  \/ \E w \in Workers : WorkerStep(w) \/ WorkerDies(w)
  \/ \E j \in Jobs : \/ ApiStep(j) \/ ApiDies(j) \/ Age(j) \/ RetryDue(j) \/ ReapFind(j) \/ ReapFail(j)
                     \/ CancelCheck(j) \/ CancelWrite(j) \/ CancelRemove(j) \/ Delete(j)
  \/ LockExpires \/ CooldownEnds \/ RedisRestarts

Spec == Init /\ [][Next]_vars

\* Workers and requests at work go on, time passes, and the reaper and the RQ
\* scheduler, where they run, run again and again. No request has to be made.
FairSpec ==
  /\ Spec
  /\ \A w \in Workers : WF_vars(WorkerStep(w))
  /\ \A j \in Jobs : /\ WF_vars(CancelWrite(j) \/ CancelRemove(j))
                     /\ WF_vars(Insert(j) \/ Enqueue(j) \/ EnqueueFails(j) \/ Refuse(j) \/ RunInline(j))
                     /\ WF_vars(Age(j)) /\ WF_vars(RetryDue(j)) /\ WF_vars(ReapFind(j) \/ ReapFail(j))
  /\ WF_vars(LockExpires)

--------------------------------------------------------------------------------
\* Correctness

\* No two runs of the account's jobs overlap, through crashes, stale locks and the
\* reaper, as long as a worker that is alive keeps its lock.
OneRunAtATime == \A v, w \in Workers : Running(v) /\ Running(w) => v = w

\* A job's child process is launched at most once: no retry, lost acknowledgement
\* or reaped lock executes the plan a second time.
ExecutedOnce == \A j \in Jobs : starts[j] <= 1

\* Two jobs with the same intent are never active together, however requests,
\* cancellations, the reaper and runs that come back to a failed job interleave.
OneActivePerIntent ==
  \A i, j \in Jobs : i # j /\ IntentOf[i] = IntentOf[j] => ~(state[i] \in Active /\ state[j] \in Active)

\* A job that is active does not stay so: with the reaper, whatever dies.
JobsSettle == \A j \in Jobs : state[j] \in Active ~> state[j] \notin Active

\* Execution starts only of a job that is not terminal.
TerminalNotExecuted ==
  [][\A j \in Jobs : starts'[j] > starts[j] => state[j] \notin Terminal]_vars

\* A job has ended, no worker is on it, and its request will neither queue it nor
\* execute it.
Over(j) ==
  /\ state[j] \in Terminal \cup {"deleted"} /\ request[j] = "done"
  /\ \A w \in Workers : on[w] # j

\* The end of a job nobody is at work on is final: whatever entries of it are left in
\* the queue or among the retries, it is not active again and its plan is not executed.
OverIsFinal == [][\A j \in Jobs : Over(j) => Over(j)' /\ starts'[j] = starts[j]]_vars

\* To its user the account's jobs are a board: no two active jobs with one intent, one
\* plan at a time and each once at most, and nothing of a job that is over.
Board == INSTANCE JobBoard
  WITH active <- {j \in Jobs : state[j] \in Active},
       running <- {on[w] : w \in {v \in Workers : phase[v] = "running"}},
       launched <- {j \in Jobs : starts[j] > 0},
       over <- {j \in Jobs : Over(j)}
KeepsBoard == Board!Spec

\* A job waits for the account lock for a bounded time.
LockWaitEnds == \A j \in Jobs : state[j] = "WAITING_LOCK" ~> state[j] # "WAITING_LOCK"

\* A queued job is executed or failed even if Redis loses the queue.
QueuedEnds == \A j \in Jobs : state[j] = "QUEUED" ~> state[j] # "QUEUED"

================================================================================
