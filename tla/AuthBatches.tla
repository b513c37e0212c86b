------------------------------- MODULE AuthBatches ------------------------------
(***************************************************************************)
(* One batch of phone authorisations: its items, the handlers that move    *)
(* them (api/auth_batches.py, workers/auth_batch_jobs.py), the dispatcher  *)
(* that claims queued items and enqueues their start                       *)
(* (auth_batch_dispatcher.py), the state machine with the batch's counters *)
(* (auth_batch_state.py) and the recovery of the reaper loop               *)
(* (auth_batch_recovery.py).                                               *)
(*                                                                         *)
(* A handler runs in a session of its own. It loads an item, may call      *)
(* Telegram, updates the item's row, which waits for another session's     *)
(* update of it, reads the batch only then, and commits the columns it     *)
(* changed over whatever was committed since it read them. A handler that  *)
(* raises or dies writes nothing.                                          *)
(*                                                                         *)
(* Error texts and codes are left out. SKIPPED is, too: nothing sets it.   *)
(***************************************************************************)
EXTENDS Naturals, FiniteSets

CONSTANTS
  Items,         \* the batch's items, by position
  Sessions,      \* request threads, auth workers and the reaper loop
  MaxRunning,    \* batch.max_running_commands
  MaxWaiting,    \* batch.max_waiting_input
  MaxActive,     \* batch.max_total_active
  MaxAttempts,   \* MAX_ATTEMPTS
  Tries,         \* wrong codes and passwords after which an item fails
  Answers,       \* bound: the answers Telegram gives
  MaxAsked,      \* bound: retries and new codes that users ask for
  MaxDeaths,     \* bound: sessions that end in the middle
  Disturbances   \* a subset of {"slow", "queue_down"}

Secrets == {"code", "password"}

ASSUME ItemsAssumption == Items \subseteq Nat \ {0} /\ IsFiniteSet(Items) /\ Items # {}
ASSUME SessionsAssumption == IsFiniteSet(Sessions)
ASSUME LimitsAssumption ==
  /\ MaxRunning \in Nat \ {0} /\ MaxWaiting \in Nat \ {0} /\ MaxActive \in Nat \ {0}
  /\ MaxAttempts \in Nat \ {0} /\ Tries \in [Secrets -> Nat \ {0}]
  /\ MaxAsked \in Nat /\ MaxDeaths \in Nat

VARIABLES
  crew,      \* the sessions there are: one alone, or several that overlap
  batch,     \* the batch's status
  count,     \* its counters
  status,    \* the items' statuses
  attempts,  \* attempt_count
  wrong,     \* code_error_count and password_error_count
  rows,      \* AuthAttempt rows: item, attempt_number, kind
  jobs,      \* start jobs in the queue auth_jobs: item and attempt
  asked,     \* how often users asked for an item to be queued again
  deaths,    \* sessions that ended in the middle
  refused,   \* a request to cancel an unfinished batch was refused
  sess       \* where each session is, what it has read and will write

vars == <<crew, batch, count, status, attempts, wrong, rows, jobs, asked, deaths, refused, sess>>
stored == <<crew, batch, count, status, attempts, wrong, rows, jobs, asked>>

Total == Cardinality(Items)
Counters == {"success", "failed", "cancelled"}
Waiting == {"waiting_code", "waiting_2fa"}
ItemTerminal == {"authorized", "failed", "timed_out", "cancelled"}
ItemStatuses == {"queued", "starting"} \cup Waiting \cup ItemTerminal
BatchTerminal == {"completed", "failed", "cancelled"}
BatchStatuses == {"pending", "running", "paused"} \cup BatchTerminal

\* The kinds of AuthAttempt: start_auth, submit_code and submit_2fa.
Calls == {"start"} \cup Secrets

\* ITEM_TRANSITIONS and BATCH_TRANSITIONS.
ItemNext ==
  [queued       |-> {"starting", "failed", "cancelled"},
   starting     |-> Waiting \cup {"queued"} \cup ItemTerminal,
   waiting_code |-> {"waiting_2fa", "starting"} \cup ItemTerminal,
   waiting_2fa  |-> ItemTerminal,
   failed       |-> {"queued"},
   timed_out    |-> {"queued", "starting"},
   authorized   |-> {},
   cancelled    |-> {}]
BatchNext ==
  [pending   |-> {"running", "cancelled"},
   running   |-> {"paused", "completed", "failed", "cancelled"},
   paused    |-> {"running", "cancelled"},
   completed |-> {}, failed |-> {}, cancelled |-> {}]

\* The counter an ended item is in.
CounterOf ==
  [authorized |-> "success", failed |-> "failed", timed_out |-> "failed",
   cancelled |-> "cancelled"]

--------------------------------------------------------------------------------
\* Sessions

Empty == [x \in {} |-> 0]
NoWrites == [status |-> Empty, wrong |-> Empty, count |-> Empty, batch |-> "kept", row |-> {}]
NoBatch == [batch |-> "pending", count |-> [k \in Counters |-> 0]]
Idle == [pc |-> "idle", role |-> "none", item |-> 0, known |-> Empty, base |-> NoBatch,
         did |-> 0, tx |-> NoWrites, then |-> "idle"]

\* create_auth_batch has committed the batch and its items.
Init ==
  /\ crew \in (SUBSET Sessions) \ {{}}
  /\ batch = "pending" /\ count = [k \in Counters |-> 0]
  /\ status = [i \in Items |-> "queued"]
  /\ attempts = [i \in Items |-> 0]
  /\ wrong = [x \in Items \X Secrets |-> 0]
  /\ rows = {} /\ jobs = {} /\ asked = 0 /\ deaths = 0 /\ refused = FALSE
  /\ sess = [s \in Sessions |-> Idle]

Loaded(S) == [i \in S |-> [status |-> status[i], attempts |-> attempts[i],
                           wrong |-> [k \in Secrets |-> wrong[<<i, k>>]]]]
Batch == [batch |-> batch, count |-> count]

Free(s) == s \in crew /\ sess[s].pc = "idle"
Be(s, r) == sess' = [sess EXCEPT ![s] = r]
Goto(s, pc) == Be(s, [sess[s] EXCEPT !.pc = pc])
Finish(s) == Be(s, Idle)

\* The session has read what its request is about.
Read(s, role, S) ==
  Be(s, [Idle EXCEPT !.pc = "loaded", !.role = role, !.known = Loaded(S),
                     !.base = IF role = "cancel_batch" THEN Batch ELSE NoBatch])

\* It has written, and goes on at `then' after the commit.
Writing(s, writes, then) ==
  Be(s, [Idle EXCEPT !.pc = "committing", !.role = IF sess[s].role = "run" THEN "run" ELSE "none",
                     !.did = sess[s].did, !.tx = writes, !.then = then])

\* Rows other sessions have updated and not committed.
Updated(s) ==
  {i \in Items : \E t \in Sessions \ {s} :
     sess[t].pc = "committing" /\ (i \in DOMAIN sess[t].tx.status
                                  \/ \E k \in Secrets : <<i, k>> \in DOMAIN sess[t].tx.wrong)}

--------------------------------------------------------------------------------
\* auth_batch_state.py: moving items from the statuses a session has loaded

Legal(from, to) == \A i \in DOMAIN to : to[i] = from[i] \/ to[i] \in ItemNext[from[i]]

Entering(from, to, k) ==
  {i \in DOMAIN to : from[i] \notin ItemTerminal /\ to[i] \in ItemTerminal /\ CounterOf[to[i]] = k}
Leaving(from, to, k) ==
  {i \in DOMAIN to : from[i] \in ItemTerminal /\ to[i] \notin ItemTerminal /\ CounterOf[from[i]] = k}

\* Variant: an item that is queued again stays counted.
RecountedUp(c, from, to) == [k \in Counters |-> c[k] + Cardinality(Entering(from, to, k))]

\* The counters never go below zero.
Recounted(c, from, to) ==
  [k \in Counters |->
     LET up == c[k] + Cardinality(Entering(from, to, k))
         down == Cardinality(Leaving(from, to, k))
     IN  IF up > down THEN up - down ELSE 0]

\* _finish_batch_if_complete
Ended(c) == c.success + c.failed + c.cancelled >= Total

\* Variant: one item that failed fails the batch.
ConcludedByFailure(b, c) ==
  IF b \in BatchTerminal \/ ~Ended(c) THEN b
  ELSE IF c.failed > 0 THEN "failed" ELSE "completed"

Concluded(b, c) ==
  IF b \in BatchTerminal \/ ~Ended(c) THEN b
  ELSE IF c.success > 0 THEN "completed" ELSE "failed"

\* transition_item on each: the columns that change.
Moves(b, from, to) ==
  LET moved == {i \in DOMAIN to : to[i] # from[i]}
      c == Recounted(b.count, from, to)
      end == IF moved = {} THEN b.batch ELSE Concluded(b.batch, c)
  IN  [status |-> [i \in moved |-> to[i]], wrong |-> Empty,
       count |-> [k \in {k \in Counters : c[k] # b.count[k]} |-> c[k]],
       batch |-> IF end = b.batch THEN "kept" ELSE end, row |-> {}]

\* Where the moves leave the batch that the session has loaded.
BatchAfter(b, writes) == IF writes.batch = "kept" THEN b.batch ELSE writes.batch

\* transition_batch after them raises if the table does not allow it.
Allowed(b, writes, goal) ==
  BatchAfter(b, writes) = goal \/ goal \in BatchNext[BatchAfter(b, writes)]

Overlay(f, g) == [x \in DOMAIN f |-> IF x \in DOMAIN g THEN g[x] ELSE f[x]]

Commit(s) ==
  /\ sess[s].pc = "committing"
  /\ LET x == sess[s].tx IN
       /\ status' = Overlay(status, x.status)
       /\ wrong' = Overlay(wrong, x.wrong)
       /\ count' = Overlay(count, x.count)
       /\ batch' = IF x.batch = "kept" THEN batch ELSE x.batch
       /\ rows' = rows \cup x.row
  /\ IF sess[s].then = "idle" THEN Finish(s)
     ELSE Be(s, [Idle EXCEPT !.pc = sess[s].then, !.role = sess[s].role, !.did = sess[s].did])
  /\ UNCHANGED <<crew, attempts, jobs, asked, deaths, refused>>

--------------------------------------------------------------------------------
\* auth_batch_tdlib.py: one call to Telegram

ItemOf(x) == CHOOSE i \in Items : i \in DOMAIN x.known
RowOf(x) ==
  LET n == x.known[ItemOf(x)].attempts
  IN  <<ItemOf(x), IF n = 0 THEN 1 ELSE n, x.role>>
Inserted == {s \in Sessions : sess[s].pc = "calling"}

\* run_batch_start_auth, whichever claim the job was enqueued for.
TakeJob(s) ==
  /\ Free(s)
  /\ \E j \in jobs :
       /\ jobs' = jobs \ {j}
       /\ IF status[j[1]] = "starting" THEN Read(s, "start", {j[1]})
          ELSE Be(s, [Idle EXCEPT !.pc = "asking"])
  /\ UNCHANGED <<crew, batch, count, status, attempts, wrong, rows, asked, deaths, refused>>

\* submit_batch_code, submit_batch_password.
Submit(s) ==
  /\ Free(s)
  /\ \E i \in Items :
       \/ status[i] = "waiting_code" /\ Read(s, "code", {i})
       \/ status[i] = "waiting_2fa" /\ Read(s, "password", {i})
  /\ UNCHANGED <<stored, deaths, refused>>

\* Variant: without the unique constraint.
RecordAgain(s) ==
  /\ sess[s].pc = "loaded" /\ sess[s].role \in Calls
  /\ Goto(s, "calling")
  /\ UNCHANGED <<stored, deaths, refused>>

\* _record_attempt: the INSERT waits for one of the same key that is not committed,
\* and raises IntegrityError if there is one that is.
Record(s) ==
  /\ sess[s].pc = "loaded" /\ sess[s].role \in Calls
  /\ \A t \in Inserted : RowOf(sess[t]) # RowOf(sess[s])
  /\ \A t \in Sessions : sess[t].pc = "committing" => RowOf(sess[s]) \notin sess[t].tx.row
  /\ IF RowOf(sess[s]) \in rows THEN Finish(s) ELSE Goto(s, "calling")
  /\ UNCHANGED <<stored, deaths, refused>>

Results ==
  [start    |-> {"code", "password", "ready", "flood", "fatal"},
   code     |-> {"password", "ready", "invalid", "expired", "flood", "fatal"},
   password |-> {"ready", "invalid", "flood", "fatal"}]

\* _apply_result_to_item and apply_auth_error: the status the result calls for.
Outcome(result, role, known) ==
  CASE result = "code" -> "waiting_code"
    [] result = "password" -> "waiting_2fa"
    [] result = "ready" -> "authorized"
    [] result = "expired" -> "timed_out"
    [] result = "fatal" -> "failed"
    [] result = "invalid" -> IF known.wrong[role] + 1 >= Tries[role] THEN "failed" ELSE known.status
    [] result = "flood" -> IF known.attempts >= MaxAttempts THEN "failed" ELSE "queued"

Answer(s) ==
  /\ sess[s].pc = "calling"
  /\ LET i == ItemOf(sess[s])
         x == sess[s].known[i]
         role == sess[s].role
     IN  /\ i \notin Updated(s)
         /\ \E result \in Results[role] \cap Answers :
              LET from == [j \in {i} |-> x.status]
                  to == [j \in {i} |-> Outcome(result, role, x)]
                  m == Moves(Batch, from, to)
                  errors == IF result = "invalid"
                            THEN [y \in {<<i, role>>} |-> x.wrong[role] + 1] ELSE Empty
                  writes == [status |-> m.status, wrong |-> errors, count |-> m.count,
                             batch |-> m.batch, row |-> {RowOf(sess[s])}]
              IN  IF Legal(from, to) THEN Writing(s, writes, "asking") ELSE Finish(s)
  /\ UNCHANGED <<stored, deaths, refused>>

--------------------------------------------------------------------------------
\* auth_batches.py: what a user asks for

\* start_batch and resume_batch.
StartBatch(s) ==
  /\ Free(s) /\ (batch = "running" \/ "running" \in BatchNext[batch])
  /\ Be(s, [Idle EXCEPT !.pc = "committing", !.role = "run", !.then = "asking",
              !.tx = [NoWrites EXCEPT !.batch = IF batch = "running" THEN "kept" ELSE "running"]])
  /\ UNCHANGED <<stored, deaths, refused>>

PauseBatch(s) ==
  /\ Free(s) /\ "paused" \in BatchNext[batch]
  /\ Writing(s, [NoWrites EXCEPT !.batch = "paused"], "idle")
  /\ UNCHANGED <<stored, deaths, refused>>

CancelBatch(s) ==
  /\ Free(s) /\ batch \notin BatchTerminal
  /\ Read(s, "cancel_batch", Items)
  /\ UNCHANGED <<stored, deaths, refused>>

CancelItem(s) ==
  /\ Free(s)
  /\ \E i \in Items : "cancelled" \in ItemNext[status[i]] /\ Read(s, "cancel_item", {i})
  /\ UNCHANGED <<stored, deaths, refused>>

\* retry_item; request_new_code, which does not look at the batch.
Requeue(s) ==
  /\ Free(s) /\ asked < MaxAsked
  /\ \E i \in Items :
       /\ \/ batch \notin BatchTerminal /\ (status[i] = "queued" \/ "queued" \in ItemNext[status[i]])
          \/ status[i] \in {"failed", "timed_out"} /\ attempts[i] < MaxAttempts
       /\ Read(s, "requeue", {i})
  /\ asked' = asked + 1
  /\ UNCHANGED <<crew, batch, count, status, attempts, wrong, rows, jobs, deaths, refused>>

--------------------------------------------------------------------------------
\* auth_batch_recovery.py

\* Somebody may still work on the item's start.
InHand(i) ==
  \/ \E j \in jobs : j[1] = i
  \/ \E s \in Sessions : /\ sess[s].pc \in {"loaded", "calling", "enqueueing", "refused"}
                         /\ i \in DOMAIN sess[s].known
  \/ \E s \in Sessions : sess[s].pc = "committing" /\ i \in DOMAIN sess[s].tx.status

\* Variant: an item without attempts left is not looked at.
ExpiredRetryable == {i \in Items : status[i] = "starting" /\ ~InHand(i) /\ attempts[i] < MaxAttempts}

\* lock_expires_at has passed: the start was lost, or takes longer than five minutes.
Expired == {i \in Items : status[i] = "starting" /\ ("slow" \in Disturbances \/ ~InHand(i))}
WaitingInput == {i \in Items : status[i] \in Waiting}

\* release_expired_locks
Release(s, S) == Free(s) /\ Read(s, "release", S) /\ UNCHANGED <<stored, deaths, refused>>

\* expire_waiting_inputs
Expire(s, S) ==
  sess[s].pc = "expiring" /\ Read(s, "expire", S) /\ UNCHANGED <<stored, deaths, refused>>

\* Variants: an off-by-one in the attempts, an error code for a status.
GoalOnceMore(role, known) ==
  CASE role = "cancel_item" -> "cancelled"
    [] role = "requeue" -> "queued"
    [] role = "release" -> IF known.attempts <= MaxAttempts THEN "queued" ELSE "timed_out"
    [] role = "expire" -> "timed_out"
GoalByCode(role, known) ==
  CASE role = "cancel_item" -> "cancelled"
    [] role = "requeue" -> "queued"
    [] role = "release" -> IF known.attempts < MaxAttempts THEN "queued" ELSE "timed_out"
    [] role = "expire" -> "input_timeout"

\* The status a handler wants for an item that it has loaded.
Goal(role, known) ==
  CASE role = "cancel_item" -> "cancelled"
    [] role = "requeue" -> "queued"
    [] role = "release" -> IF known.attempts < MaxAttempts THEN "queued" ELSE "timed_out"
    [] role = "expire" -> "timed_out"

\* Cancelling and requeueing an item, and the recovery of several.
Move(s) ==
  /\ sess[s].pc = "loaded" /\ sess[s].role \in {"cancel_item", "requeue", "release", "expire"}
  /\ LET known == sess[s].known
         role == sess[s].role
         from == [i \in DOMAIN known |-> known[i].status]
         to == [i \in DOMAIN known |-> Goal(role, known[i])]
     IN  /\ DOMAIN known \cap Updated(s) = {}
         /\ Writing(s, Moves(Batch, from, to),
                    CASE role = "cancel_item" -> "idle"
                      [] role = "release" -> "expiring"
                      [] OTHER -> "asking")
  /\ UNCHANGED <<stored, deaths, refused>>

\* cancel_batch: its items first, which may conclude it, then the batch.
MoveAll(s) ==
  /\ sess[s].pc = "loaded" /\ sess[s].role = "cancel_batch"
  /\ LET x == sess[s]
         open == {i \in Items : x.known[i].status \notin ItemTerminal}
         writes == Moves(x.base, [i \in open |-> x.known[i].status], [i \in open |-> "cancelled"])
     IN  /\ open \cap Updated(s) = {}
         /\ IF Allowed(x.base, writes, "cancelled")
            THEN /\ Writing(s, [writes EXCEPT !.batch = "cancelled"], "idle")
                 /\ refused' = refused
            ELSE Finish(s) /\ refused' = TRUE
  /\ UNCHANGED <<stored, deaths>>

--------------------------------------------------------------------------------
\* auth_batch_dispatcher.py

\* The request that starts a batch looks at what came of it.
Dispatched(s) ==
  IF sess[s].role = "run"
  THEN Be(s, [Idle EXCEPT !.pc = "surfacing", !.role = "run", !.did = sess[s].did])
  ELSE Finish(s)

Running == {i \in Items : status[i] = "starting"}
\* Variant: an off-by-one in the limit.
MayClaimOneMore(s) ==
  /\ sess[s].did < MaxRunning
  /\ Cardinality(Running) <= MaxRunning
  /\ Cardinality(WaitingInput) < MaxWaiting
  /\ Cardinality(Running) + Cardinality(WaitingInput) < MaxActive

MayClaim(s) ==
  /\ sess[s].did < MaxRunning
  /\ Cardinality(Running) < MaxRunning
  /\ Cardinality(WaitingInput) < MaxWaiting
  /\ Cardinality(Running) + Cardinality(WaitingInput) < MaxActive

\* dispatch_once loads the batch, and claim_next_item counts before it claims.
Ask(s) ==
  /\ sess[s].pc = "asking"
  /\ IF batch = "running" /\ MayClaim(s)
     THEN Be(s, [sess[s] EXCEPT !.pc = "claiming", !.base = Batch])
     ELSE Dispatched(s)
  /\ UNCHANGED <<stored, deaths, refused>>

\* Between two claims only the items are counted again.
Count(s) ==
  /\ sess[s].pc = "counting"
  /\ IF MayClaim(s) THEN Goto(s, "claiming") ELSE Dispatched(s)
  /\ UNCHANGED <<stored, deaths, refused>>

\* SKIP LOCKED: rows that are updated, or that an AuthAttempt just inserted refers to.
Claimable(s) ==
  {i \in Items : status[i] = "queued"} \ (Updated(s) \cup {ItemOf(sess[t]) : t \in Inserted}
     \cup UNION {{r[1] : r \in sess[t].tx.row} : t \in Sessions})

Claim(s) ==
  /\ sess[s].pc = "claiming"
  /\ \/ Claimable(s) = {} /\ Dispatched(s) /\ UNCHANGED <<status, attempts>>
     \/ \E i \in Claimable(s) :
          /\ \A j \in Claimable(s) : i <= j
          /\ status' = [status EXCEPT ![i] = "starting"]
          /\ attempts' = [attempts EXCEPT ![i] = @ + 1]
          /\ LET one == [status |-> "starting", attempts |-> attempts[i] + 1,
                         wrong |-> [k \in Secrets |-> wrong[<<i, k>>]]]
             IN  Be(s, [sess[s] EXCEPT !.pc = "enqueueing", !.item = i,
                                       !.known = [j \in {i} |-> one]])
  /\ UNCHANGED <<crew, batch, count, wrong, rows, jobs, asked, deaths, refused>>

Claimed(s) == <<sess[s].item, sess[s].known[sess[s].item].attempts>>

Enqueue(s) ==
  /\ sess[s].pc = "enqueueing"
  /\ jobs' = jobs \cup {Claimed(s)}
  /\ Be(s, [sess[s] EXCEPT !.pc = "counting", !.did = @ + 1, !.item = 0, !.known = Empty])
  /\ UNCHANGED <<crew, batch, count, status, attempts, wrong, rows, asked, deaths, refused>>

\* Redis raises, whether it took the job or not. The session loads the batch's items; the
\* batch itself it has loaded before the first claim.
EnqueueFails(s) ==
  /\ "queue_down" \in Disturbances /\ sess[s].pc = "enqueueing"
  /\ jobs' \in {jobs, jobs \cup {Claimed(s)}}
  /\ Be(s, [sess[s] EXCEPT !.pc = "refused",
              !.known = [Loaded(Items) EXCEPT ![sess[s].item] = sess[s].known[sess[s].item]]])
  /\ UNCHANGED <<crew, batch, count, status, attempts, wrong, rows, asked, deaths, refused>>

Under(known) == {i \in DOMAIN known : known[i].status \in {"starting"} \cup Waiting}

\* Variant: the batch fails whatever else is under way.
FailBatch(s, S, b, known, then) ==
  LET writes == Moves(b, [i \in S |-> known[i].status], [i \in S |-> "failed"])
  IN  IF Allowed(b, writes, "failed")
      THEN Writing(s, [writes EXCEPT !.batch = "failed"], then)
      ELSE Finish(s)

\* Fails what the session has loaded of S, and the batch if nothing else is under way.
Fail(s, S, b, known, then) ==
  LET writes == Moves(b, [i \in S |-> known[i].status], [i \in S |-> "failed"])
  IN  IF Under(known) \subseteq S
      THEN IF Allowed(b, writes, "failed")
           THEN Writing(s, [writes EXCEPT !.batch = "failed"], then)
           ELSE Finish(s)
      ELSE Writing(s, writes, then)

\* The item that was claimed and those still queued.
FailQueued(s) ==
  /\ sess[s].pc = "refused"
  /\ LET x == sess[s]
         S == {x.item} \cup {i \in Items : x.known[i].status = "queued"}
     IN  /\ S \cap Updated(s) = {}
         /\ Fail(s, S, x.base, x.known, IF x.role = "run" THEN "surfacing" ELSE "idle")
  /\ UNCHANGED <<stored, deaths, refused>>

\* dispatch_or_raise_queue_unavailable: nothing was launched, nothing is under way, and
\* an item is queued, or was refused by the queue, which its error code tells.
Surface(s) ==
  /\ sess[s].pc = "surfacing"
  /\ LET open == {i \in Items : status[i] \notin ItemTerminal}
         stuck == sess[s].did = 0 /\ Under(Loaded(Items)) = {}
     IN  \/ (~stuck \/ open = {}) /\ Finish(s)
         \/ /\ stuck /\ (open # {} \/ \E i \in Items : status[i] = "failed")
            /\ open \cap Updated(s) = {}
            /\ Fail(s, open, Batch, Loaded(Items), "idle")
  /\ UNCHANGED <<stored, deaths, refused>>

Dies(s) ==
  /\ deaths < MaxDeaths /\ sess[s].pc # "idle"
  /\ Finish(s) /\ deaths' = deaths + 1 /\ UNCHANGED <<stored, refused>>

--------------------------------------------------------------------------------
Work(s) ==
  \/ Commit(s) \/ Record(s) \/ Answer(s) \/ Move(s) \/ MoveAll(s)
  \/ Ask(s) \/ Count(s) \/ Claim(s) \/ Enqueue(s) \/ FailQueued(s) \/ Surface(s)

Asked(s) ==
  \/ Submit(s) \/ StartBatch(s) \/ PauseBatch(s) \/ CancelBatch(s) \/ CancelItem(s) \/ Requeue(s)

Recover(s) ==
  \/ \E S \in SUBSET Expired : Release(s, S)
  \/ \E S \in SUBSET WaitingInput : Expire(s, S)

Next ==
  \E s \in Sessions :
    Work(s) \/ Asked(s) \/ TakeJob(s) \/ Recover(s) \/ EnqueueFails(s) \/ Dies(s)

Spec == Init /\ [][Next]_vars

\* Sessions go on, workers take jobs, and the reaper loop comes round again and again.
Fairness ==
  /\ \A s \in Sessions : WF_vars(Work(s)) /\ SF_vars(Expire(s, WaitingInput))
  /\ SF_vars(\E s \in Sessions : TakeJob(s))
  /\ SF_vars(\E s \in Sessions : Release(s, Expired))
FairSpec == Spec /\ Fairness

--------------------------------------------------------------------------------
ItemRead == [status : ItemStatuses, attempts : Nat, wrong : [Secrets -> Nat]]
Counts == [Counters -> Nat]
Partial(f, S, T) == DOMAIN f \subseteq S /\ \A x \in DOMAIN f : f[x] \in T
AttemptRows == Items \X (Nat \ {0}) \X Calls
Roles == {"none", "run", "cancel_item", "cancel_batch", "requeue", "release", "expire"} \cup Calls
Phases == {"idle", "loaded", "calling", "committing", "expiring", "asking", "claiming",
           "enqueueing", "counting", "refused", "surfacing"}
WritesOK(x) ==
  /\ Partial(x.status, Items, ItemStatuses) /\ Partial(x.wrong, Items \X Secrets, Nat)
  /\ Partial(x.count, Counters, Nat) /\ x.batch \in BatchStatuses \cup {"kept"}
  /\ x.row \in SUBSET AttemptRows
SessionOK(x) ==
  /\ x.pc \in Phases /\ x.role \in Roles /\ x.did \in Nat
  /\ x.then \in {"idle", "asking", "expiring", "surfacing"}
  /\ Partial(x.known, Items, ItemRead)
  /\ x.base \in [batch : BatchStatuses, count : Counts]
  /\ WritesOK(x.tx)

\* Every variable keeps its type: statuses are those of the enums whatever sessions write
\* over one another, and counters stay natural.
TypeOK ==
  /\ crew \in SUBSET Sessions /\ batch \in BatchStatuses /\ count \in Counts
  /\ status \in [Items -> ItemStatuses] /\ attempts \in [Items -> Nat]
  /\ wrong \in [Items \X Secrets -> Nat]
  /\ rows \in SUBSET AttemptRows /\ jobs \in SUBSET (Items \X Nat)
  /\ asked \in Nat /\ deaths \in Nat /\ refused \in BOOLEAN
  /\ DOMAIN sess = Sessions /\ \A s \in Sessions : SessionOK(sess[s])

\* The dispatchers exceed max_running_commands by no more than one item for each other
\* session that has counted and not claimed yet.
RunningLimit ==
  Cardinality(Running) + Cardinality({s \in Sessions : sess[s].pc = "claiming"})
    <= MaxRunning + Cardinality(crew) - 1

\* An attempt takes one wrong code and one wrong password: whatever sessions overlap, the
\* unique constraint of AuthAttempt lets no second one be counted, so that an item meets
\* the limits of three codes and five passwords only over as many attempts.
WrongPerAttempt == \A i \in Items, k \in Secrets : wrong[<<i, k>>] <= attempts[i]

Alone == Cardinality(crew) = 1

\* While no two sessions overlap, the batch's counters say how its items ended, through
\* requests, refusals of the queue, deaths and the recovery.
CountersExact ==
  Alone => \A k \in Counters :
    count[k] = Cardinality({i \in Items : status[i] \in ItemTerminal /\ CounterOf[status[i]] = k})

\* An item is started MAX_ATTEMPTS times and once more for each time users ask.
AttemptsBounded == Alone => \A i \in Items : attempts[i] <= MaxAttempts + asked

\* Nothing of a finished batch is at work or waits for input.
FinishedRests == Alone /\ batch \in BatchTerminal => Running \cup WaitingInput = {}

\* What is authorised or cancelled stays so.
EndsKept ==
  [][Alone => \A i \in Items :
       status[i] \in {"authorized", "cancelled"} => status'[i] = status[i]]_vars

\* To its user the batch is a ledger, while no two sessions overlap: whatever requests,
\* answers, refusals, deaths and the recovery do, items move by the table, counters and
\* verdict say how they ended, and the batch ends with the last of them.
Ledger == INSTANCE BatchLedger WITH Steps <- ItemNext, Ends <- CounterOf
KeepsLedger == Ledger!Spec

\* A running batch ends or is paused, though a session dies, the queue refuses jobs and no
\* user answers.
BatchSettles == Alone /\ batch = "running" ~> batch # "running"

\* What POST /cancel is for: an unfinished batch can be cancelled.
CancelHeeded == ~refused

\* What the test of /retry says of a batch that is over, of every request.
FinishedStaysOver == batch \in BatchTerminal => \A i \in Items : status[i] # "queued"

\* The counters of sessions that overlap.
CountersShared ==
  \A k \in Counters :
    count[k] = Cardinality({i \in Items : status[i] \in ItemTerminal /\ CounterOf[status[i]] = k})
================================================================================
