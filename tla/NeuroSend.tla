-------------------------------- MODULE NeuroSend -------------------------------
(***************************************************************************)
(* Sending one generated comment: the API requests of                      *)
(* POST /generated-comments/{id}/send (router_comments.py), the RQ job     *)
(* neuro-send-{id} and its workers (job_send.py), the send pipeline both   *)
(* run (sender_flow.py), and the reconciler of stuck attempts.             *)
(*                                                                         *)
(* A session loads the attempt and the comment once and decides on what it *)
(* loaded. Its first UPDATE takes the row's lock and keeps it to the       *)
(* commit; until then nobody else sees what it wrote. The attempt's        *)
(* statuses FAILED and FLOOD_WAIT are one here, and so are the reasons for *)
(* which it is SKIPPED.                                                    *)
(***************************************************************************)
EXTENDS Naturals, FiniteSets

CONSTANTS
  Requests,        \* the send requests made for the comment, each once
  Workers,         \* worker processes of the queue neuro_comment
  NoOne,           \* nobody holds the row's lock
  RequireLimiter,  \* neuro_comment_require_redis_limiter_for_send
  Disturbances     \* a subset of {"process_dies", "late_error"}

ASSUME ActorsAssumption == Requests \cap Workers = {} /\ NoOne \notin Requests \cup Workers
ASSUME SwitchAssumption ==
  RequireLimiter \in BOOLEAN /\ Disturbances \subseteq {"process_dies", "late_error"}

VARIABLES
  status,     \* the attempt's status as committed
  approval,   \* the comment is approved, and campaign, target and account are active
  closed,     \* min_delay_between_comments denies a reservation
  lock,       \* whose transaction has updated the attempt's row
  delivered,  \* how often Telegram has posted the comment; 2 is more than once
  queue,      \* what Redis knows of the RQ job neuro-send-{id}
  pc,         \* where each request and worker is
  seen,       \* the status each session loaded
  out         \* the status each session will commit

vars == <<status, approval, closed, lock, delivered, queue, pc, seen, out>>

Actors == Requests \cup Workers
Statuses == {"created", "sending", "sent", "failed", "skipped"}

\* At work: it has loaded the attempt and not yet ended its transaction.
AtWork == {"loaded", "reserved", "marked", "queueing", "committing"}
Places == {"idle", "answered"} \cup AtWork

TypeOK ==
  /\ status \in Statuses /\ approval \in {"approved", "withdrawn"}
  /\ closed \in BOOLEAN /\ lock \in Actors \cup {NoOne} /\ delivered \in 0 .. 2
  /\ queue \in {"absent", "queued", "started", "ended"}
  /\ pc \in [Actors -> Places]
  /\ seen \in [Actors -> Statuses] /\ out \in [Actors -> Statuses]

\* approve_comment has created the attempt.
Init ==
  /\ status = "created" /\ approval = "approved" /\ closed = FALSE /\ lock = NoOne
  /\ delivered = 0 /\ queue = "absent"
  /\ pc = [p \in Actors |-> "idle"]
  /\ seen = [p \in Actors |-> "created"] /\ out = [p \in Actors |-> "created"]

--------------------------------------------------------------------------------
\* One transaction

Goto(p, target) == pc' = [pc EXCEPT ![p] = target]

\* A request answers; a worker's job ends, failed or not, and RQ keeps its hash.
End(p) ==
  IF p \in Workers THEN Goto(p, "idle") /\ queue' = "ended"
                   ELSE Goto(p, "answered") /\ UNCHANGED queue

Unlock(p) == lock' = IF lock = p THEN NoOne ELSE lock

\* Variant for mutation: the exception leaves the transaction open.
AbortHoldingLock(p) == End(p) /\ UNCHANGED <<status, approval, closed, lock, delivered, seen, out>>

\* The transaction is rolled back.
Abort(p) == End(p) /\ Unlock(p) /\ UNCHANGED <<status, approval, closed, delivered, seen, out>>

\* Variant for mutation: an attempt that was sent is loaded and sent again.
RefusesUnapproved == approval # "approved"

\* send_attempt returns an attempt that was sent, and _validate_send raises for a
\* comment that is not approved.
Refuses == status = "sent" \/ approval # "approved"

Read(p) == seen' = [seen EXCEPT ![p] = status] /\ out' = [out EXCEPT ![p] = status]

\* A request loads the attempt and the comment. It goes through send_attempt itself
\* before it enqueues the job, or only enqueues it.
Load(r) ==
  /\ pc[r] = "idle" /\ r \in Requests
  /\ Read(r)
  /\ Goto(r, IF Refuses THEN "answered" ELSE IF RequireLimiter THEN "loaded" ELSE "queueing")
  /\ UNCHANGED <<status, approval, closed, lock, delivered, queue>>

\* run_send_attempt: a worker takes the job and loads the attempt and the comment.
Take(w) ==
  /\ pc[w] = "idle" /\ queue = "queued"
  /\ Read(w)
  /\ IF Refuses THEN Goto(w, "idle") /\ queue' = "ended"
                ELSE Goto(w, "loaded") /\ queue' = "started"
  /\ UNCHANGED <<status, approval, closed, lock, delivered>>

\* send_attempt returns to the request, which enqueues the job, or to the worker.
Return(p) == Goto(p, IF p \in Requests THEN "queueing" ELSE "committing")

\* The safety gate or a channel rule says no, or the limiter does or is not reachable.
Skip(p) ==
  /\ pc[p] = "loaded"
  /\ out' = [out EXCEPT ![p] = "skipped"]
  /\ Return(p)
  /\ UNCHANGED <<status, approval, closed, lock, delivered, queue, seen>>

\* _reserve_for_attempt: a reservation starts the minimum delay.
Reserve(p) ==
  /\ pc[p] = "loaded" /\ ~closed
  /\ closed' = RequireLimiter
  /\ Goto(p, "reserved")
  /\ UNCHANGED <<status, approval, lock, delivered, queue, seen, out>>

\* Variant for mutation: the status is set on the object and not flushed.
MarkUnflushed(p) ==
  /\ pc[p] = "reserved"
  /\ Goto(p, "marked")
  /\ UNCHANGED <<status, approval, closed, lock, delivered, queue, seen, out>>

\* status = SENDING is flushed: the UPDATE waits for the row's lock and takes it.
Mark(p) ==
  /\ pc[p] = "reserved" /\ lock = NoOne
  /\ lock' = p
  /\ Goto(p, "marked")
  /\ UNCHANGED <<status, approval, closed, delivered, queue, seen, out>>

\* Variant for mutation: the error's code is stored as the status.
RejectedByCode(p) ==
  /\ pc[p] = "marked"
  /\ out' = [out EXCEPT ![p] = "CHAT_NOT_FOUND"] /\ closed' = FALSE
  /\ Return(p)
  /\ UNCHANGED <<status, approval, lock, delivered, queue, seen>>

\* Variant for mutation: a rejected send falls through to _mark_attempt_sent.
RejectedUnnoticed(p) ==
  /\ pc[p] = "marked"
  /\ out' = [out EXCEPT ![p] = "sent"]
  /\ Return(p)
  /\ UNCHANGED <<status, approval, closed, lock, delivered, queue, seen>>

\* send_comment raises TelegramCommentSendError: nothing was posted, and the rollback
\* of the reservation ends the delay.
Rejected(p) ==
  /\ pc[p] = "marked"
  /\ out' = [out EXCEPT ![p] = "failed"]
  /\ closed' = FALSE
  /\ Return(p)
  /\ UNCHANGED <<status, approval, lock, delivered, queue, seen>>

\* The comment is posted. The answer may come after tdlib_auth_timeout_seconds,
\* which is the same error as a rejection.
Deliver(p) ==
  /\ pc[p] = "marked"
  /\ delivered' = IF delivered < 2 THEN delivered + 1 ELSE delivered
  /\ \E o \in {"sent"} \cup (IF "late_error" \in Disturbances THEN {"failed"} ELSE {}) :
       out' = [out EXCEPT ![p] = o] /\ closed' = (closed /\ o = "sent")
  /\ Return(p)
  /\ UNCHANGED <<status, approval, lock, queue, seen>>

\* enqueue_neuro_send_attempt, before the request's own commit. A RedisError is
\* answered with 503, after the commit.
Enqueue(r) ==
  /\ pc[r] = "queueing"
  /\ \/ queue = "absent" /\ queue' = "queued"
     \/ UNCHANGED queue
  /\ Goto(r, "committing")
  /\ UNCHANGED <<status, approval, closed, lock, delivered, seen, out>>

\* The job's id is known to Redis, of a job that waits, is at work or has ended: RQ
\* raises DuplicateJobError, which no handler of the request expects.
EnqueueDuplicate(r) == pc[r] = "queueing" /\ queue # "absent" /\ Abort(r)

\* An UPDATE of the status, or none where the session changed nothing.
Writes(p) == lock = p \/ out[p] # seen[p]
Waits(p) == Writes(p) /\ lock \notin {NoOne, p}

\* Variant for mutation: every session writes the status it has.
CommitAlways(p) ==
  /\ pc[p] = "committing" /\ lock \in {NoOne, p}
  /\ status' = out[p]
  /\ End(p) /\ Unlock(p)
  /\ UNCHANGED <<approval, closed, delivered, seen, out>>

\* The status is written over whatever was committed since it was loaded.
Commit(p) ==
  /\ pc[p] = "committing" /\ ~Waits(p)
  /\ status' = IF Writes(p) THEN out[p] ELSE status
  /\ End(p) /\ Unlock(p)
  /\ UNCHANGED <<approval, closed, delivered, seen, out>>

\* db_query_timeout_ms ends an UPDATE that waits for the row's lock.
WaitTimesOut(p) ==
  /\ \/ pc[p] = "reserved" /\ lock # NoOne
     \/ pc[p] = "committing" /\ Waits(p)
  /\ Abort(p)

Dies(p) ==
  /\ "process_dies" \in Disturbances
  /\ pc[p] \in AtWork
  /\ Abort(p)

--------------------------------------------------------------------------------
\* Everything else

\* RQ forgets a job some time after it ended.
Forget ==
  /\ queue = "ended" /\ queue' = "absent"
  /\ UNCHANGED <<status, approval, closed, lock, delivered, pc, seen, out>>

\* The delay, which is longer than any session's work, has passed.
DelayEnds ==
  /\ closed /\ \A p \in Actors : pc[p] \notin AtWork
  /\ closed' = FALSE
  /\ UNCHANGED <<status, approval, lock, delivered, queue, pc, seen, out>>

\* edit_comment, reject_comment; approve_comment, whatever the comment's status is.
Withdraw ==
  /\ approval' = "withdrawn"
  /\ UNCHANGED <<status, closed, lock, delivered, queue, pc, seen, out>>
Approve ==
  /\ approval' = "approved"
  /\ UNCHANGED <<status, closed, lock, delivered, queue, pc, seen, out>>

\* run_reconcile_tick resolves attempts it finds committed as SENDING, skipping
\* those whose row is locked.
Reconcile ==
  /\ status' \in IF status = "sending" /\ lock = NoOne THEN {"sent", "failed"} ELSE {status}
  /\ UNCHANGED <<approval, closed, lock, delivered, queue, pc, seen, out>>

--------------------------------------------------------------------------------
Pipeline(p) == Skip(p) \/ Reserve(p) \/ Mark(p) \/ Rejected(p) \/ Deliver(p) \/ Commit(p) \/ WaitTimesOut(p)
RequestStep(r) == Enqueue(r) \/ EnqueueDuplicate(r)

Next ==
  \/ \E p \in Actors : Pipeline(p) \/ Dies(p)
  \/ \E r \in Requests : Load(r) \/ RequestStep(r)
  \/ \E w \in Workers : Take(w)
  \/ Forget \/ DelayEnds \/ Withdraw \/ Approve \/ Reconcile

Spec == Init /\ [][Next]_vars

\* What was begun goes on, workers take jobs, and the reconciler runs periodically.
FairSpec ==
  /\ Spec
  /\ \A p \in Actors : WF_vars(Pipeline(p))
  /\ \A r \in Requests : WF_vars(RequestStep(r))
  /\ \A w \in Workers : WF_vars(Take(w))
  /\ WF_vars(Reconcile)

--------------------------------------------------------------------------------
\* Correctness

\* The comment is posted at most once, however often sending it is requested and
\* whatever the queue's job and the requests do in between.
DeliveredOnce == delivered <= 1

\* An attempt is committed as SENT only if the comment was posted, whoever writes the
\* status last, under late answers and dying processes too.
SentMeansDelivered == status = "sent" => delivered > 0

\* A comment that was posted is recorded, or its session is about to record it:
\* nothing rolls the record back, or overwrites it by what it loaded before.
DeliveryKept ==
  delivered > 0 => \/ status = "sent"
                   \/ \E p \in Actors : pc[p] = "committing" /\ out[p] = "sent" /\ lock = p

\* SENT is the last status of an attempt: no session writes over it what it loaded before.
SentStands == [][status = "sent" => status' = "sent"]_vars

\* One session at a time is at Telegram, the one that has the row's lock, and a session
\* that has ended or not begun has none. As shipped a comment is posted twice all the
\* same: by sessions one after another, on what each of them loaded before.
OneAtTelegram ==
  /\ \A p \in Actors : pc[p] = "marked" => lock = p
  /\ lock # NoOne => pc[lock] \in {"marked", "queueing", "committing"}

\* Whoever updated the attempt's row gives its lock back, through errors, refused
\* enqueues, timeouts and deaths: the other sessions are not blocked for good.
RowLockReturned == \A p \in Actors : lock = p ~> lock # p

\* The record of a comment that was posted catches up with it.
DeliveryRecorded == delivered > 0 ~> status = "sent"

================================================================================
