# A TLA+ model of StylistTG

StylistTG is a back office for Telegram accounts. A FastAPI backend
(`src/backend/app`) keeps accounts and jobs in PostgreSQL, hands work to RQ
workers through Redis, and the workers drive Telegram through TDLib. This
directory holds the specification of the parts where several of those
processes meet, the configurations TLC checks it with, and proofs for TLAPS.

Every definition is translated from the source; `PROJECT.json` maps each to the
lines it stands for, and lists the runs, the mutants that show each property can
fail, the hazards and the theorems.

Contents: [1 Inventory](#1-inventory) ·
[2 Modules](#2-modules-and-the-code-they-model) · [3 Runs](#3-runs) ·
[4 Disagreements](#4-disagreements-with-the-repositorys-own-statements) ·
[5 Proofs](#5-proofs) · [6 Not modelled](#6-what-is-not-modelled) ·
[7 Plan](#7-plan)

## 1 Inventory

Paths are relative to `src/backend/app`. "TLC" and "proved" name what exists
today.

### 1.1 Account execution lock

- **State.** `lock_owner`, `lock_epoch`, `updated_at` of one row of
  `account_runtime_states`.
- **Operations.** `acquire_account_lock` (one conditional UPDATE), `heartbeat_lock`,
  `fenced_write_allowed`, `release_account_lock` in `services/locks.py`; the warmup
  tick claims the same columns by its own rules (`modules/warmup/worker.py`).
- **Interactions.** `mark_terminal`, the hard-stop marker, the inspection of
  `execution_policy.py`, the reaper, `materialize_auth_result` and
  `_reset_stale_batch_account` write the row too, most of them unfenced.
- **Hard.** Each check is a SELECT in one transaction and the write a later one.
  A lock is taken from an owner that is alive but slow. Other writers renew
  `updated_at` of a lock they know nothing of. An account reset zeroes the epoch.
- **Correct if** the row behaves as a fenced lease, the epoch follows the grants,
  and an abandoned lock becomes free. *TLC; the first two proved.*

### 1.2 Run of a profile job

- **State.** The worker's loop, the child process, the pipe between them, one
  `JobStepResult` row per step, the job's state and the account's hard-stop flag.
- **Operations.** Launch, the event handlers, end of file, exit, deadline, settling
  rows, verdict (`workers/profile_*.py`, `services/journal.py`,
  `services/step_policy.py`); the child's loop over the plan (`tdlib_job.py`,
  `adapters/tdlib_profile_*.py`).
- **Interactions.** The child prints a line per event. The verdict is computed from
  rows and exit code, and has to mean something about Telegram.
- **Hard.** Either process may die between any two steps; the journal lags behind
  Telegram; the deadline races a late answer; a malformed line, a lost lock and a
  hung TDLib each end the run on a path of their own.
- **Correct if** COMPLETED means that every step took effect, in order and at most
  once, effects are journaled, no row stays STARTED, the child ends before the lock
  is given back, hard stops reach the account, and a verdict always comes. *TLC; all
  but the last proved.*

### 1.3 Profile job lifecycle and queue

- **State.** `jobs.job_state`, RQ's queue and its delayed retries, the account lock,
  the cooldown.
- **Operations.** `create_profile_job`, enqueue, `cancel_job`, delete
  (`services/jobs.py`, `api/jobs.py`, `modules/account_editing`), the worker's
  prologue (`workers/profile_jobs.py`), `reap_stale_jobs` (`services/stale_jobs.py`).
- **Interactions.** Requests, workers and reaper read and write the same rows in
  sessions that keep what they loaded (`expire_on_commit=False`).
- **Hard.** Check-then-insert against a partial unique index; a cancellation or the
  reaper writing over a newer state; lost acknowledgements and a Redis that forgets;
  retries of a job that was meanwhile cancelled; who ends a job when its worker died.
- **Correct if** no two active jobs have one intent, runs of an account do not
  overlap, a plan is launched at most once, what is over stays over, and an active job
  comes to an end. *TLC; all but the last proved.*

### 1.4 Neuro-comment send pipeline

- **State.** `NeuroCommentAttempt.status`, the comment's approval, the row's lock,
  the RQ job `neuro-send-{id}`, and what Telegram has posted.
- **Operations.** `POST /generated-comments/{id}/send` (`router_comments.py`), the
  job (`job_send.py`), `send_attempt` and its reservation, posting and result
  (`sender_*.py`), approval, and the reconciler.
- **Interactions.** As shipped a request sends inline, enqueues the job and commits
  last, so the request and the job's worker both go through the pipeline.
- **Hard.** Decisions on a row loaded earlier; SENDING flushed, not committed; an
  enqueue that raises after a send; deaths and late answers in between.
- **Correct if** a comment is posted at most once, the record of it is kept, SENT is
  never recorded of a comment that was not posted, one session at a time is at
  Telegram, and no path leaves the row locked. *TLC; all but the last proved.*

### 1.5 Neuro-comment rate limiter

- **State.** Redis keys: a counter per window, the parallel counter, `last_comment`,
  one key per reservation.
- **Operations.** A Lua script that checks and reserves, `commit`, `rollback`, and
  expiry (`rate_limiter*.py`).
- **Hard.** Windows and keys that end under a reservation; a rollback that deletes
  what another set; senders that die without either.
- **Correct if** the window's limit and the minimum delay are kept, and the slots of
  the dead come back. *TLC; the first two proved, and the parallel limit where a delay keeps it.*

### 1.6 Auth batches

- **State.** `auth_batches` (status, three counters, three limits), its items (status,
  `attempt_count`, error counts, claim), `AuthAttempt` rows, the queue `auth_jobs`.
- **Operations.** Start, pause, resume, cancel, retry, new code, code, password
  (`api/auth_batches.py`, `services/auth_batches.py`, `auth_batch_tdlib.py`), the
  dispatcher (`auth_batch_dispatcher.py`), the transition tables and counters
  (`auth_batch_state.py`), recovery (`auth_batch_recovery.py`), the job.
- **Interactions.** Every request, auth worker and round of the reaper loop ends in
  `dispatch_once`; all of them move the same items, each in a session of its own.
- **Hard.** Limits are counted in one transaction and claimed in another; counters are
  read, added to in Python and written; a start that is only slow expires and is claimed
  again; the queue refuses a job it has taken; one failure has to fail others.
- **Correct if** the limits are kept, an attempt takes one wrong code, counters tell how
  the items ended, ends stay, the batch ends with the last of its items, and a running
  batch finishes. *TLC; all but the last proved.*

### 1.7 Warmup of live sessions

- **State.** `warmup_session` (status, day, `daily_counters_json`,
  `consecutive_failures`, `next_micro_session_at`), the isolation claim of its account,
  the RQ job of a staggered session, and what Telegram has seen.
- **Operations.** Create, pause, resume, delete (`commands.py`), the tick, the stagger and
  its jobs (`dispatcher.py`, `jobs.py`), the work on one session (`dispatch_processor.py`,
  `dispatch_schedule.py`, `dispatch_results.py`, `cold_soak.py`, `cyclic.py`), the breaker
  (`worker.py`), the claim (`isolation.py`).
- **Interactions.** A scheduler loop enqueues the tick; a tick works on all due sessions in
  one transaction; requests and the account status monitor write the same rows meanwhile.
- **Hard.** What was done is counted by one commit at the end; each transaction writes the
  columns it changed over whatever was committed since it loaded the row; one session that
  raises takes the others of the tick back with it.
- **Correct if** a day's limits are kept but for lost windows, COMPLETED was earned, an
  ended session has no claim, day and counters never go back, and a session ends or is
  paused. *TLC; all but the last proved, the limits and the progress for one worker.*

### 1.8 The rest

| Component | State and operations | Hard part | Correct if |
|---|---|---|---|
| Dry-run warmup, idle and pre-production sweeps (`modules/warmup`) | the same rows, without Telegram | the account lock it takes by its own rules | the lock's users agree |
| Auth sessions, single-account auth (`services/auth.py`, `telegram_auth_sessions.py`) | one dialogue with TDLib | late answers | a ready account has a session |
| Account safety (`modules/account_safety`) | quarantine rows, gate slots (a Redis ZSET), cooldowns, load buckets | expiry against release; slots older than their time to live; Redis outage | a quarantined account does nothing; at most `max_concurrent` slots |
| Account lifecycle (`modules/account_lifecycle`) | lifecycle state, deletion requests | external deletion inside one transaction | one active request; only allowed transitions |
| Onboarding, imports (`modules/account_onboarding`, `account_imports`, `bought_onboarding`) | items and retries on top of auth batches | partial conversion | an item ends ready or failed |
| Counter persistence (`services/rate_limit_persistence.py`) | a copy of limiter counters in Postgres | a flush or hydrate racing the limiter | hydrating never raises a limit |
| Scheduler, reaper process, notifications | periodic loops | which process runs which loop | every promised tick is run by somebody |
| Core, proxies, stories, GGR, behaviour, assets, workspaces, dashboard, API client | CRUD, scores, waits, presentation | - | - |

The hazards that matter most, each at its line with the properties that would
catch it, are in `PROJECT.json`.

## 2 Modules and the code they model

| Module | Role |
|---|---|
| `FencedLease` | abstract: what the lock promises its users |
| `AccountLock` | the lock row and everyone who writes it; implements `FencedLease` |
| `JobOutcome` | pure: a verdict from rows, exit code and workflow |
| `PlanExecution` | abstract: what executing a plan promises the account's owner |
| `ProfileRun` | worker, child, pipe, journal; extends `JobOutcome`, implements `PlanExecution` |
| `JobBoard` | abstract: what the jobs of an account promise the account and its user |
| `ProfileJobs` | the jobs of one account, from request to verdict; implements `JobBoard` |
| `NeuroSend` | sending one comment: requests, job, workers, reconciler |
| `NeuroLimiter` | the limiter's keys for one scope |
| `BatchLedger` | abstract: what a batch promises the user who watches it |
| `AuthBatches` | one batch: items, counters, dispatcher, requests, workers, recovery; implements `BatchLedger` |
| `WarmupDispatch` | live warmup sessions: ticks, stagger, windows of actions, days, claims |
| `MC*` | constants and symmetry for TLC |
| `*Proofs` | theorems, one module per component, and `ProfileRunJournalProofs` for the journal of a run |

The components are linked by what one assumes of the other. `AccountLock` has
the full protocol of the row. `ProfileJobs` takes from it that a lock is free, held,
or left behind until it is stale, and opens a run only as far as *begin, launch,
end*. `ProfileRun` starts where `ProfileJobs` has marked the job RUNNING. `NeuroSend`
sees of the limiter whether a reservation is denied, `NeuroLimiter` of the pipeline
that a sender reserves, posts, and commits or rolls back. The account reset of
`AuthBatches` and the warmup tick's claim of the lock are in `AccountLock`, as writers of
its row.

### AccountLock

Time is the one question the code asks, whether `updated_at` is older than
`lock_stale_seconds`; `Age` is the answer turning to yes. `Acquire` is the UPDATE,
`ReadBack` the SELECT of the epoch after it. `CheckPasses` is the SELECT of a
heartbeat, journal write or release and `HeartbeatLands`, `JournalLands`,
`ReleaseLands` the write in its later transaction. `view` is what a session keeps
cached. Foreign transactions load (`ReaperLoads`, `InspectionLoads`,
`BatchResetLoads`) and land (`ForeignLands`); SQLAlchemy writes only columns whose
value changed, so `pending` says which.

### ProfileRun

`child` walks *starting, announcing, acting, reporting, closing, eof, exited*, and
`Act` applies the step and decides what is reported of it. `emitted` is every line
printed, `consumed` how many the worker has read: the pipe is the difference.
`ReadEvent` is the whole handler (`Recorded` the rows, `Noted` the flags).
`ReapChild` computes the `ending`, and `Settle`, `Flag`, `Conclude` and `Release` are
the commits that carry it out, in the code's order; the lock may be lost between any
two. `Ready` and the other events without a handler only renew the lock.

A run is a `PlanExecution` in two readings: by the job's state (`ExecutesPlan`, a profile
job), or by the state with its reason (`ExecutesPlanAsRead`, either workflow).

### ProfileJobs

Every check and the write that follows it are two actions whenever a commit or query
lies between: `Check`/`Insert`, `CancelCheck`/`CancelWrite`/`CancelRemove`,
`ReapFind`/`ReapFail`. `Raises` is the unique index `ix_job_active_intent_unique`
(migration 20260424_0008) and a row that was deleted. `Take`, `Acquire` or
`Contend`, `MarkRunning`, `Launch`, `Finish`, `Release` are the worker. `age` has the
two thresholds of `queued_at` the code asks for.

To its user the account's jobs are a `JobBoard`. `Launch` is the board's *Launch*; every other
step leaves the plans that were launched alone: a job comes on the board (`Insert`, or a
worker writing over CANCELED or FAILED), leaves it, stops, or is *over* - ended, its request
answered, and no worker on it. A job canceled while a worker has it may come back, so
ended is not over; over is.

### NeuroSend

A session loads once (`Load`, `Take`), decides on what it `seen`, and commits what it
has in `out`. Its first UPDATE takes the row's lock (`Mark`), which it keeps to its
`Commit` or `Abort`; PostgreSQL makes the others wait, up to `db_query_timeout_ms`
(`WaitTimesOut`). `RequireLimiter` is
`neuro_comment_require_redis_limiter_for_send`, TRUE as shipped, under which a request
sends inline. The delay is assumed longer than any session's work (180 s by default,
against a 30 s TDLib timeout and a 30 s statement timeout), which is `DelayEnds`'s
guard. FAILED and FLOOD_WAIT are one status.

### NeuroLimiter

`Tick` is a unit of time. `win`, `parallel`, `ttl`, `delay` are the keys' values and
times to live; `here` says whether a reservation counts in the current window, as its
counter's key names the window. `posts` and `quiet` are history, for the properties.
`commit` is two actions because it is two commands to Redis.

### AuthBatches

A handler is two or three actions, at the points where it meets others: it loads
(`Read`, in `TakeJob`, `Submit`, `CancelItem`, `Requeue`, ...), inserts its `AuthAttempt`
(`Record`, which waits for another's insert of the same key), calls Telegram and works out
what it will write (`Answer`, `Move`, `MoveAll`), and commits that (`Commit`). `tx` holds
the columns it changed; an item in it is a locked row (`Updated`) and others wait. The
batch is read when the item's row has been updated, so `Moves` takes the batch as it is by
then and the commit overwrites what came in between. The dispatcher is `Ask`, `Count`,
`Claim` (`SKIP LOCKED`), `Enqueue` or `EnqueueFails`, each a transaction. `crew` is the set
of sessions there are: a single one, which shows what the handlers do one after another,
or several that overlap. A start whose claim expired while it is being worked on needs the
disturbance `slow`.

To its user the batch of one session is a `BatchLedger`: a `Commit` is its *Switch* (start,
pause, resume) or its *Go* (items move, are counted, and end the batch), a `Claim` that finds
an item is its *Start*, and every other step - loading, calling Telegram, enqueueing, being
refused, dying - is a stutter. So there is no moment at which a watcher sees an item ended
and not counted, or a running batch whose items have all ended.

### WarmupDispatch

`row` is what is committed, `mine` a worker's copy and `cols` the columns it will write:
SQLAlchemy writes columns that changed, so `Changed` compares and `Merged` overlays.
`Look` is the work up to the first Telegram call - `Postpone` (quiet hours, inactive cycle
hour, no adapter), `GateBlocks`, `CyclesEnd`, or `OpenWindow` with some of the pending
actions - `Act` one action, and `TripBreaker`, `CloseWindow`, `EndDay`, `Complete` the ways
a window ends. All of a tick's sessions are one transaction, up to `Commit`, `Raise`
or `Die`. Each `Flush` needs the row's lock, as an UPDATE does. `EnqueueAt` is the stagger,
`TakeJob` its job. A request or the status monitor is a SELECT with its check (`Ask`) and
an UPDATE (`Land`). Time is what the code asks of it: `next` says whether
`next_micro_session_at` is NULL, past, the cursor of the staggered job, or later. `told`
is history: what was done at Telegram.

## 3 Runs

Twelve runs; bounds are named in each `.cfg`. Deadlock checking is off everywhere
because every component may come to rest: all jobs ended, all requests answered.

| Run | Asks | Instance | States |
|---|---|---|---|
| `account_lock` | `TypeOK`, `TokenCurrent`, `LeaseSpec`, `AbandonedLockRecovers` | 2 owners, 3 grants, 2 foreign writes | 138k |
| `profile_run` | `TypeOK`, `EffectsJournaled`, `RowsSettled`, `ChildEndsFirst`, `ExecutesPlan`, `JobSettles` | plan *plain, username, plain*; reaper | 84k |
| `account_update_run` | `HardStopFlags`, `PartialMeansBoth`, `ExecutesPlanAsRead` | plan *plain, story, pinned* | 83k |
| `profile_jobs` | `TypeOK`, `OneRunAtATime`, `ExecutedOnce`, `OneActivePerIntent`, `KeepsBoard` | 2 jobs of one intent, 2 workers, reaper, RQ scheduler, four faults | 897k |
| `profile_jobs_settle` | `JobsSettle` | 2 jobs, 1 worker, inline fallback, no RQ scheduler, four faults | 508k |
| `queued_send` | `TypeOK`, `DeliveredOnce`, `DeliveryKept` | 3 requests, 2 workers, requests only enqueue, no faults | 10k |
| `neuro_send` | `SentMeansDelivered`, `OneAtTelegram`, `RowLockReturned` | 2 requests, 1 worker, as shipped, deaths and late answers | 44k |
| `neuro_limiter` | `TypeOK`, `WindowKept`, `SlotsReturn` | 3 senders, 3 per window of 4, 2 parallel, deaths | 191k |
| `auth_batches` | `TypeOK`, `RunningLimit`, `WrongPerAttempt` | 2 sessions that overlap, 2 items, each limit at its least, slow starts | 3.96M |
| `auth_settles` | `AttemptsBounded`, `KeepsLedger`, `BatchSettles` | 1 session, 2 items, limits 2, 2 attempts, one death, one retry, a queue that is down | 160k |
| `warmup` | `TypeOK`, `DayLimit`, `CompletedMeansWarmed`, `ClaimReturned`, `ProgressKept`, `SessionSettles` | 1 session of 2 days with 2 actions, 1 worker, 1 request at a time, one fault, two requests, with and without stagger, cyclic or not | 586k |
| `inline_send` | one property that the code does not keep: see section 4 | as shipped | |

**Why the bounds are enough.** Two owners are one holder and one that takes over or
was deposed; a third plays the part of either, and three grants let a deposed worker
meet an epoch that was zeroed and granted again. A plan of three steps has a first, a
middle and a last one, and the kinds whose classification differs (an uncertain
username, a pinned channel that no list of account-update steps has). Two jobs and
two workers contend for the lock and for an intent, while one of them waits in the
retry. Two sessions of one attempt show every pair of a stale check and a write; a
third request in `queued_send` meets a job that is queued, started or ended. The
limiter's window is longer than a send and shorter than two reservations, so that
windows and keys end under a reservation. Two overlapping sessions are every pair of a
dispatcher, a request, a worker and the reaper loop, and two items are one to claim and
one that fills a limit or is concluded by the other's end. A warmup of two days has a day
that advances and a day that completes; two actions leave one pending when the other is
done, and two requests are a pause (or the monitor) and a resume. `MCWarmupBatch.cfg` has two sessions in
one tick. The proofs of section 5 lift the bounds
for the properties they cover.

**Fairness.** `account_lock`: time passes and a begun transaction commits; nothing is
assumed of workers. `profile_run`: the worker's loop, which never blocks for more than
0.2 s, goes on unless the worker dies, time passes, and the reaper runs every
interval; nothing is assumed of the child, as TDLib may hang. `profile_jobs_settle`:
workers and requests at work go on, jobs age, a stale lock expires, the reaper repeats.
No request has to be made. `neuro_send`: a session goes on unless it dies, workers take
jobs and the reconciler is periodic. `neuro_limiter`: time passes and a sender goes on
or dies. `auth_settles`: a session goes on, workers take jobs, and the reaper loop
(`main.py`) comes round again and again, which finds what has expired; users do nothing.
`warmup`: the scheduler loop repeats the tick, workers go on unless they die, time passes;
and of the windows that can be opened with at least one action, some are (strong
fairness): quiet hours end, the gate does not block for ever, and the selection skips
every action with probability 0.15 each only. A gate that blocks pauses the session.

**What the stronger assumptions mean.**

- `OneRunAtATime`, `ExecutedOnce` and `KeepsBoard` are checked without the fault `lock_lost` (a live
  worker that does not renew its lock for `lock_stale_seconds`). The lock cannot
  prevent the overlap then: that is what the fenced writes are for, which
  `AccountLock` and `ProfileRun` (`LoseLock`) have.
- `ExecutedOnce` and `KeepsBoard` are checked without the inline fallback. With it, an enqueue whose
  acknowledgement is lost is executed inline and by a worker.
- `DeliveredOnce` and `DeliveryKept` hold for a pipeline that only enqueues, and fail
  as shipped (`inline_send`) or if a process dies after it posted.
- `AttemptsBounded`, `KeepsLedger` and `BatchSettles`, and `CountersExact` and
  `FinishedRests`, which follow from the ledger (its count is the tally of the ends, and
  nothing of a batch that is over is at work), are asked of a batch on which no two sessions overlap (`Alone`). Overlapping sessions lose
  counts (`MCAuthCounters.cfg`), and with them the end of a batch. The crew of a batch is
  chosen at the start; `auth_settles` has one session to choose, and the theorems ask
  these properties of the behaviours where one was chosen.
- `ExecutesPlanAsRead` reads an account update that is COMPLETED with the reason
  `runtime_failed` as failed; `ExecutesPlan`, without that reading, is asked of a profile
  job, and fails for an update (`MCCrashedUpdate.cfg`).
- `DayLimit` needs a single worker of the dispatch queue: two ticks that overlap load the
  same row and do its day twice (`MCWarmupOverlap.cfg`). So does `ProgressKept`: the second of
  them commits a day and counters that the row has left behind (`MCWarmupLostDay.cfg`). `faults` counts lost windows and
  late answers, and the limit is exceeded by no more than that.
- `SessionSettles` is asked without stagger, because a staggered session needs an RQ
  scheduler and no process of the repository runs one, and without answers `skipped`, see
  section 4.
- `WindowKept` and `DelayKept` assume that a send that is reported failed was not
  posted. A late answer refutes both: its slot is given back.
- `JobSettles` and `JobsSettle` need the reaper, which production must disable.

## 4 Disagreements with the repository's own statements

One run ends in a counterexample, to what a test of the repository promises.

- **`inline_send`**: `DeliveredOnce` as shipped. A session that loaded the attempt
  before it was SENT is denied the reservation and writes SKIPPED over SENT; the next
  session finds no SENT and posts again. Nothing has to fail for it.

More configurations are kept beside the runs. Each of the following ends in a
counterexample to the property it names; run them as `tlc -config <cfg> <module>`.

| Configuration | Property | What it shows |
|---|---|---|
| `MCCrashedUpdate.cfg` (`MCProfileRun`) | `CompletedMeansApplied` | an account update whose child was killed leaves STARTED rows, which `classify_account_update_job_outcome` (`services/step_policy.py:60`) takes for neither failed nor uncertain: the job is COMPLETED, with a failure reason. One whose runtime fails before any step has no rows, and is COMPLETED too. For a profile job `tests/workers/test_worker_hardening.py:126` asserts FAILED |
| `MCParallelLimit.cfg` (`MCNeuroLimiter`) | `ParallelKept` | the parallel counter's time to live is never renewed: it expires under later reservations, whose ends take it below zero, and one sender too many is let in |
| `MCCanceledStarted.cfg` (`MCProfileJobs`) | `TerminalNotExecuted` | a job canceled after the worker loaded it is executed, though `docs/runbooks/risk-register.md:23` says "Jobs check state at start" |
| `MCLockWait.cfg` (`MCProfileJobs`) | `LockWaitEnds` | the delayed retry needs an RQ scheduler and none runs, so a job that met a held lock waits on, though `docs/quality/performance-refactor.md:33` promises a bounded wait |
| `MCQueueLost.cfg` (`MCProfileJobs`) | `QueuedEnds` | only tests call `reconcile_orphaned_queued_jobs`: a queue Redis lost is not rebuilt (same document, line 34) |
| `MCUnreapedRun.cfg` (`MCProfileRun`) | `JobSettles` | without the API's reaper, which `config.py:260` forbids in production, a job whose worker died stays RUNNING; the separate reaper process does not call `reap_stale_jobs` |
| `MCLostDelivery.cfg` (`MCNeuroSend`) | `DeliveryRecorded` | a worker that dies after it posted leaves no trace, and the reconciler looks for SENDING rows that are never committed |
| `MCAuthCancel.cfg` (`MCAuthBatches`) | `CancelHeeded` | `cancel_batch` cancels the items first, which concludes the batch as FAILED, and then refuses to cancel what has ended (`auth_batches.py:312`, `auth_batch_state.py:158`): always 409, against `docs/api/frontend.md:556` |
| `MCAuthRevived.cfg` (`MCAuthBatches`) | `FinishedStaysOver` | a new code requeues an item of a batch that is over (`auth_batch_tdlib.py:67`), where no dispatcher takes it; retry refuses that (`auth_batches.py:334`, `tests/auth/test_auth_batches.py:453`) |
| `MCAuthCounters.cfg` (`MCAuthBatches`) | `CountersShared` | two sessions that end items together write the same counter, and one end is lost |
| `MCWarmupFallback.cfg` (`MCWarmupDispatch`) | `FallbackNeverMatches` | a pause that loaded ACTIVE lands over COMPLETED; the resumed session is on a day beyond its plan and repeats the last one, for which `dispatch_schedule.py:45` says the fallback never matches |
| `MCWarmupIsolation.cfg` (`MCWarmupDispatch`) | `IsolationHeld` | the same resumed session is dispatched without the claim that `isolation.py:3` speaks of |
| `MCWarmupOverlap.cfg` (`MCWarmupDispatch`) | `DayLimit` | two workers, see section 3 |
| `MCWarmupLostDay.cfg` (`MCWarmupDispatch`) | `ProgressKept` | two workers: a commit takes back the counts of the other's |
| `MCWarmupSkipped.cfg` (`MCWarmupDispatch`) | `SessionSettles` | an action that is always skipped is never counted, so its day never ends; the presets plan `sync_contacts` and `emoji_status`, which `dispatch_context.py` always skips |

Two more pass: `MCNeuroDelay.cfg` (`DelayKept`: 2 senders, delay 4, sends of 2,
reservations of 5, deaths) and `MCWarmupBatch.cfg` (two sessions in one tick).

The limits of three wrong codes and five wrong passwords (`auth_batch_errors.py:18`) are
out of reach within an attempt: `AuthAttempt` is unique in item, attempt and kind, so the
second code of an attempt raises. `WrongPerAttempt` states that, and so does its theorem.

## 5 Proofs

All proofs are checked by TLAPS 1.4.5 with SMT, Zenon and PTL.

| Theorem | Statement | Assumes | Invariant |
|---|---|---|---|
| `AccountLockProofs!TypeCorrect`, `EpochFollowsGrants` | `TypeOK`, `TokenCurrent` | - | `IInv`: types, `TokenCurrent`, `FreshView` (a session without a grant caches nothing) |
| `AccountLockProofs!LockIsFencedLease` | `Spec => LeaseSpec` | - | the same: without `TokenCurrent` a zeroed epoch could turn a deposed worker back into a holder |
| `ProfileRunProofs!TypeCorrect` | `TypeOK` | - | `IInv`: types, `ChildInv`, `RunInv` |
| `ProfileRunProofs!ProfileCompletedMeansApplied`, `ProfileRunExecutesPlan` | `CompletedMeansApplied`; `Spec => ExecutesPlan` | `Workflow = "profile"` | `ChildInv` and `RunInv`: from what the child did, to what it printed and its exit code, to the rows, to the verdict |
| `ProfileRunProofs!RunExecutesPlanAsRead` | `Spec => ExecutesPlanAsRead` | - | the same, in which COMPLETED is `Earned`: by the whole plan, or by an update's failed child |
| `ProfileRunJournalProofs!EffectsAreJournaled`, `ChildEndsBeforeRelease`, `HardStopsFlag` | `EffectsJournaled`, `ChildEndsFirst`, `HardStopFlags` | - | `JInv` below |
| `ProfileRunJournalProofs!ProfileRowsSettled` | `RowsSettled` | `Workflow = "profile"` | the same |
| `ProfileRunJournalProofs!UpdatePartialMeansBoth` | `PartialMeansBoth` | `Workflow = "account_update"` | the same |
| `ProfileJobsProofs!TypeCorrect`, `NoDuplicateActive` | `TypeOK`, `OneActivePerIntent` | - | inductive as they stand, because every write goes through the index |
| `ProfileJobsProofs!RunsDoNotOverlap` | `OneRunAtATime` | no `lock_lost` | `LockKept`: who passed the lock is its holder |
| `ProfileJobsProofs!LaunchedAtMostOnce` | `ExecutedOnce` | no inline fallback | `OneTicket`: a job is in one place only - request, queue, retry or one worker - and in none once launched |
| `ProfileJobsProofs!EndsAreFinal` | `OverIsFinal` | - | types: only an active job is loaded, and only who has loaded a job makes it active |
| `ProfileJobsProofs!BoardIsKept` | `Spec => KeepsBoard` | no `lock_lost`, no inline fallback | `LockKept`, `OneTicket`, `OneActivePerIntent` |
| `NeuroSendProofs!TypeCorrect`, `SentIsTruthful` | `TypeOK`, `SentMeansDelivered` | - | `Truthful`: who is about to commit SENT has posted |
| `NeuroSendProofs!RowLockSerialises` | `OneAtTelegram` | - | inductive: a session is at Telegram only with the row's lock, and whatever ends it gives the lock back |
| `NeuroSendProofs!PostedOnce` | `DeliveredOnce` | requests only enqueue, no faults | `SoleWorker`, `Quiet`: one worker has the job, and until it has an answer nothing was posted |
| `NeuroSendProofs!RecordKept` | `DeliveryKept` | as `PostedOnce` | the same |
| `NeuroSendProofs!SentIsFinal` | `SentStands` | requests only enqueue | `SoleWorker`, `StillUnsent`: the worker that has the attempt loaded it unsent, and nobody has recorded SENT since |
| `NeuroLimiterProofs!TypeCorrect` | `TypeOK` | - | inductive |
| `NeuroLimiterProofs!WindowIsKept` | `WindowKept` | finitely many senders, no late answers | `Accounted`: the counter covers comments posted and reservations still open |
| `NeuroLimiterProofs!DelayIsKept` | `DelayKept` | a send is shorter than the delay, the delay not longer than a reservation lives, no late answers | `Spaced`: while somebody sends the delay runs on |
| `NeuroLimiterProofs!DelaySerialises` | `ParallelKept` | a send is shorter than the delay, the delay not longer than a reservation lives, some parallel sender is allowed | `Serial`: while somebody sends the delay runs on, so nobody else is let in |
| `AuthBatchesProofs!TypeCorrect` | `TypeOK` | finite items and sessions | inductive with the shape of a session's record at each phase |
| `AuthBatchesProofs!WrongCodesPerAttempt` | `WrongPerAttempt` | the same | codes counted are covered by committed rows, rows are numbered by attempts, and a row that a session holds is nobody else's |
| `AuthBatchesProofs!RunningLimitKept` | `RunningLimit` | the same | inductive: a session enters *claiming* only below the limit, and leaves it when it claims |
| `AuthBatchesProofs!CountersKept`, `AttemptsKept`, `FinishedBatchRests`, `EndsAreKept` | `CountersExact`, `AttemptsBounded`, `FinishedRests`, `EndsKept` | one session (`Alone`, in the properties), which may be any | `AloneInv` below |
| `AuthBatchesProofs!LedgerIsKept` | `Spec /\ Alone => KeepsLedger` | the same | the same |
| `WarmupDispatchProofs!TypeCorrect` | `TypeOK` | - | inductive |
| `WarmupDispatchProofs!CompletedAreWarmed` | `CompletedMeansWarmed` | - | `AllCovered`: of every row and every worker's copy, each column by itself - counters, day, COMPLETED - is covered by what Telegram has seen, so any mixture of columns is |
| `WarmupDispatchProofs!ClaimsReturned` | `ClaimReturned` | - | `MineAlive`: a worker's copy ends a session by COMPLETED only |
| `WarmupDispatchProofs!DayLimitKept` | `DayLimit` | one worker | `Limited`: Telegram is ahead of the row by the faults and by the open window, whose actions were pending |
| `WarmupDispatchProofs!ProgressIsKept` | `ProgressKept` | one worker | `Onward`: what is not looked at yet, and the open window, have the day and counters of the row; what was closed has no less |

**The journal of a run.** `IInv` of `ProfileRunProofs` follows one kind of line, the
uncertain one, from the child to the verdict, because that is all COMPLETED depends on. What
the journal says of every step needs all of them. `JInv` adds four parts: `Dialogue` (a step
is announced before it is acted on and answered before the next one is, and what was called
succeeded took effect), `Stops` (after an answer that is no success, or an orderly exit, no
step is open), `RowsFollow` (a row is STARTED only where the lines read so far have an
announcement and no answer) and `Kept` (a run that came to its own conclusion has read every
line). The properties of rows and flags are not inductive without them: the rows lag
behind the pipe, and the pipe behind the child, so that what the rows say at the verdict
follows only from what the child can have printed by then. `ChildEndsFirst` is
inductive as it stands: a verdict waits for the child's exit or comes after its kill.

**A batch with one session.** What a handler has read stays so until it commits, as nobody
else is at work - but the same facts have to be carried from its load to its commit, through
whatever the handler calls in between, and through a death anywhere. `AloneInv` says of each phase what
the session knows and what it is about to do: its moves are legal for the items as they are,
the counters with its changes are the numbers of the items with its changes (`Balanced`), no
item that is queued has used its attempts (`Left`), a batch that is over has nothing at work
(`Rests`), and is over once all its items have ended (`Settled`). The counters are read,
changed in Python by one for each move and written; that the sums come out needs the
cardinalities of the sets of items that end in each way. `EndsKept` follows from the moves
being legal, and is a part of the ledger. That no batch is ever *cancelled*, which
`MCAuthCancel.cfg` shows of one batch, follows from the refinement: a `BatchLedger` has no
such status.

**Jobs as a board.** Nothing in the code says that a terminal job stays terminal: a worker
writes RUNNING over CANCELED, and a request that cancels writes over whatever it loaded. What
does hold is `OverIsFinal`, with no assumption about faults: once a job has ended, its request
has been answered and no worker has loaded it, no entry left in the queue or among the retries
brings it back, because `Load` looks at the state. On that the refinement rests (`OverStep`).
For the rest of it, a step makes one job active at most (`OneActivated`); only `Launch`
executes (`OnlyLaunchRuns`), one plan at a time by `LockKept` and for the first time by
`OneTicket`; and two active jobs with one intent are excluded by the index.

**Delays that serialise.** The parallel limit of the code is not kept by its counter
(`MCParallelLimit.cfg`). It is kept by the minimum delay, where one is set that no send
outlives: then `Serial` holds, one sender at a time is between its reservation and its end,
and `ParallelKept` follows for any limit but zero.

**What one worker keeps.** `ProgressKept` and `DayLimit` rest on the same fact about stale
copies: with one worker nobody else writes the day or the counters of a row
(`OnlyCommits`), so what the worker loaded is what is there, while status, failures and next
time may be written by others at any moment, and are. `Onward` and `Limited` state it for the
rows that the tick has not looked at, for the open window, and for those it has closed
and not committed.

They hold for every plan, and any number of owners, jobs, workers, requests,
senders, items and sessions; the bounds of `AccountLock` are arbitrary in them. Constants are constrained
by the named ASSUMEs of the modules only.

**Model-checked only.** Liveness (`AbandonedLockRecovers`, `JobSettles`, `JobsSettle`,
`RowLockReturned`, `SlotsReturn`, `BatchSettles`, `SessionSettles`) is out of the prover's
reach, with the fairness it rests on. Every invariant and action property that a run checks, and every
refinement, has its theorem, under the assumptions of the table.

## 6 What is not modelled

- `acquire_redis_account_lock` and its release: only tests call them.
- The Telegram calls inside one step: `Act` has their outcomes. A step that was applied
  and reported failed is among them.
- The content of plans, comments and proxies, and everything that is computed from one
  row and stored in it.
- `enqueue = false` sends, which only local and test configurations allow; the
  idempotency reservation and the gate's slot of the pipeline, whose `redis_client`
  nobody passes; the limiter's `cooldown()`, which nothing calls.
- An unexpected exception inside a send, which is a rollback like a death.
- Of auth batches: phone validation and normalisation, `Idempotency-Key`, the account row
  made of an authorised item, error texts, and SKIPPED, which nothing sets. The listed
  answers leave out flood waits, whose item is queued again at once and fails at
  `MAX_ATTEMPTS`; `Answer` has them.
- Of warmup: the dry-run worker, adaptive multipliers, proxy adaptation and disabled
  actions, strategy edits of running sessions, the sweeps, which channel or peer an action
  is for, errors of the lifecycle advance, the break of a stagger that spans more than an
  hour, `next_attempt_at` on resume, RQ's `unique=True` ids. Sessions are of different
  accounts. An account for which pre-production refuses to start (`Rejected`) is in the
  proofs only, as the listed run has none.
- Clock skew between API servers and Redis.
- The components marked `not_modelled` in `PROJECT.json`, with the reason for each.

## 7 Plan

Written so far, in this order: `FencedLease`, `AccountLock`; `JobOutcome`,
`PlanExecution`, `ProfileRun`; `ProfileJobs` with `JobBoard`; `NeuroSend`; `NeuroLimiter`; `AuthBatches`
with `BatchLedger`; `WarmupDispatch`; and the proofs of each.

Next:

1. `Quarantine` with the lifecycle state and the hard-stop marker, and `GateSlots`, the
   slot reservation, as a bounded semaphore with expiry. Property: a quarantined account
   starts nothing. To prove: the slots' bound for senders that end in time.
2. `CounterPersistence`: flush and hydrate against `NeuroLimiter`'s window.
3. The dry-run, idle and pre-production paths of warmup on `WarmupDispatch`'s rows, and
   onboarding on top of `AuthBatches`.
