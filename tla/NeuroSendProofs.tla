----------------------------- MODULE NeuroSendProofs ----------------------------
(***************************************************************************)
(* Theorems about NeuroSend for any requests and workers: type             *)
(* correctness, SentMeansDelivered and OneAtTelegram whatever goes wrong;  *)
(* where requests only enqueue the job, SentStands; and, where moreover    *)
(* nothing dies or answers late, DeliveredOnce and DeliveryKept.           *)
(*                                                                         *)
(* The last two rest on Quiet: requests never hold a result of their own,  *)
(* one worker at most is at work, and until it has an answer from Telegram *)
(* nothing was posted.                                                     *)
(***************************************************************************)
EXTENDS NeuroSend, TLAPS

\* What a session is about to commit as SENT was posted, and nobody commits SENDING.
Truthful ==
  /\ status # "sending" /\ (status = "sent" => delivered > 0)
  /\ \A p \in Actors : out[p] # "sending" /\ (out[p] = "sent" => delivered > 0)

\* RQ gives the job to one worker.
SoleWorker ==
  /\ \A w \in Workers : pc[w] # "idle" => queue = "started"
  /\ \A v, w \in Workers : pc[v] # "idle" /\ pc[w] # "idle" => v = w

\* A request that only enqueues the job has nothing to write.
RequestsIdle ==
  \A r \in Requests : pc[r] \notin {"loaded", "reserved", "marked"} /\ out[r] = seen[r] /\ lock # r

\* A worker that has not got the answer has not posted the comment, and one that has
\* holds the row's lock.
Unposted(w) == pc[w] \in {"loaded", "reserved", "marked"} \/ (pc[w] = "committing" /\ out[w] # "sent")

WorkersHonest ==
  \A w \in Workers : /\ Unposted(w) => delivered = 0
                     /\ pc[w] = "marked" \/ (pc[w] = "committing" /\ out[w] = "sent") => lock = w

Quiet == RequestsIdle /\ WorkersHonest /\ DeliveredOnce /\ DeliveryKept

--------------------------------------------------------------------------------
\* Types

LEMMA TypeInit == Init => TypeOK
<1> SUFFICES ASSUME Init PROVE TypeOK
  OBVIOUS
<1>1. closed \in BOOLEAN
  BY Zenon DEF Init
<1> QED
  BY <1>1 DEF Init, TypeOK, Places, AtWork, Statuses, Actors

LEMMA EndType ==
  ASSUME TypeOK, NEW p \in Actors, End(p)
  PROVE  /\ queue' \in {"absent", "queued", "started", "ended"} /\ pc' \in [Actors -> Places]
  BY DEF TypeOK, End, Goto, Places, AtWork

LEMMA AbortType ==
  ASSUME TypeOK, NEW p \in Actors, Abort(p)
  PROVE  TypeOK'
  BY EndType DEF Abort, Unlock, TypeOK

LEMMA PipelineType ==
  ASSUME TypeOK, NEW p \in Actors, Pipeline(p) \/ Dies(p)
  PROVE  TypeOK'
<1> USE DEF TypeOK, Goto, Return, Places, AtWork, Statuses
<1>1. CASE Skip(p)
  BY <1>1 DEF Skip
<1>2. CASE Reserve(p)
  BY <1>2, SwitchAssumption DEF Reserve
<1>3. CASE Mark(p)
  BY <1>3 DEF Mark
<1>4. CASE Rejected(p)
  BY <1>4 DEF Rejected
<1>5. CASE Deliver(p)
  <2>1. PICK o \in {"sent", "failed"} : out' = [out EXCEPT ![p] = o] /\ closed' = (closed /\ o = "sent")
    BY <1>5 DEF Deliver
  <2>2. closed' \in BOOLEAN
    BY <2>1, Zenon
  <2>3. out' \in [Actors -> Statuses] /\ delivered' \in 0 .. 2
    BY <1>5, <2>1 DEF Deliver
  <2> QED
    BY <1>5, <2>2, <2>3 DEF Deliver
<1>6. CASE Commit(p)
  <2>1. status' \in Statuses /\ lock' \in Actors \cup {NoOne}
    BY <1>6 DEF Commit, Unlock
  <2> QED
    BY <1>6, <2>1, EndType DEF Commit
<1>7. CASE WaitTimesOut(p) \/ Dies(p)
  BY <1>7, AbortType DEF WaitTimesOut, Dies
<1> QED
  BY <1>1, <1>2, <1>3, <1>4, <1>5, <1>6, <1>7 DEF Pipeline

LEMMA TypeStep == TypeOK /\ [Next]_vars => TypeOK'
<1> SUFFICES ASSUME TypeOK, [Next]_vars PROVE TypeOK'
  OBVIOUS
<1> USE DEF TypeOK, Goto, Places, AtWork, Statuses, Actors
<1>1. ASSUME NEW p \in Actors, Pipeline(p) \/ Dies(p) PROVE TypeOK'
  BY <1>1, PipelineType
<1>2. ASSUME NEW r \in Requests, Load(r) PROVE TypeOK'
  BY <1>2 DEF Load, Read
<1>3. ASSUME NEW r \in Requests, RequestStep(r) PROVE TypeOK'
  BY <1>3, AbortType DEF RequestStep, Enqueue, EnqueueDuplicate
<1>4. ASSUME NEW w \in Workers, Take(w) PROVE TypeOK'
  BY <1>4 DEF Take, Read
<1>5. CASE Forget \/ Withdraw \/ Approve \/ Reconcile \/ UNCHANGED vars
  BY <1>5 DEF Forget, Withdraw, Approve, Reconcile, vars
<1>6. CASE DelayEnds
  BY <1>6 DEF DelayEnds
<1> QED
  BY <1>1, <1>2, <1>3, <1>4, <1>5, <1>6 DEF Next

\* Every variable keeps its type: the statuses, the row's lock, the queue's job and
\* each session's place, for any requests and workers.
THEOREM TypeCorrect == Spec => []TypeOK
  BY TypeInit, TypeStep, PTL DEF Spec

--------------------------------------------------------------------------------
\* SentMeansDelivered

LEMMA TruthfulStep == TypeOK /\ Truthful /\ [Next]_vars => Truthful'
<1> SUFFICES ASSUME TypeOK, Truthful, [Next]_vars PROVE Truthful'
  OBVIOUS
<1> USE DEF TypeOK, Truthful
<1>1. ASSUME NEW p \in Actors, Pipeline(p) \/ Dies(p) PROVE Truthful'
  <2>1. CASE Skip(p)
    BY <2>1 DEF Skip
  <2>2. CASE Reserve(p)
    BY <2>2 DEF Reserve
  <2>3. CASE Mark(p)
    BY <2>3 DEF Mark
  <2>4. CASE Rejected(p)
    BY <2>4 DEF Rejected
  <2>5. CASE Deliver(p)
    BY <2>5 DEF Deliver
  <2>6. CASE Commit(p)
    BY <2>6 DEF Commit
  <2>7. CASE WaitTimesOut(p) \/ Dies(p)
    BY <2>7 DEF WaitTimesOut, Dies, Abort
  <2> QED
    BY <1>1, <2>1, <2>2, <2>3, <2>4, <2>5, <2>6, <2>7 DEF Pipeline
<1>2. ASSUME NEW p \in Actors, Load(p) \/ Take(p) PROVE Truthful'
  BY <1>2 DEF Load, Take, Read
<1>3. ASSUME NEW r \in Requests, RequestStep(r) PROVE Truthful'
  BY <1>3 DEF RequestStep, Enqueue, EnqueueDuplicate, Abort
<1>4. CASE Forget \/ DelayEnds \/ Withdraw \/ Approve \/ Reconcile \/ UNCHANGED vars
  BY <1>4 DEF Forget, DelayEnds, Withdraw, Approve, Reconcile, vars
<1> QED
  BY <1>1, <1>2, <1>3, <1>4 DEF Next, Actors

\* An attempt recorded as SENT was posted: for any requests and workers, with late
\* answers and dying processes.
THEOREM SentIsTruthful == Spec => []SentMeansDelivered
<1>1. Init => Truthful
  BY DEF Init, Truthful
<1>2. Truthful => SentMeansDelivered
  BY DEF Truthful, SentMeansDelivered
<1> QED
  BY <1>1, <1>2, TypeInit, TypeStep, TruthfulStep, PTL DEF Spec

--------------------------------------------------------------------------------
\* OneAtTelegram

LEMMA RowLockStep == TypeOK /\ OneAtTelegram /\ [Next]_vars => OneAtTelegram'
<1> SUFFICES ASSUME TypeOK, OneAtTelegram, [Next]_vars PROVE OneAtTelegram'
  OBVIOUS
<1> USE ActorsAssumption DEF TypeOK, OneAtTelegram, Goto, Return, Actors
<1>1. ASSUME NEW p \in Actors, End(p), Unlock(p) PROVE OneAtTelegram'
  BY <1>1 DEF End, Unlock
<1>2. ASSUME NEW p \in Actors, Pipeline(p) \/ Dies(p) PROVE OneAtTelegram'
  <2>1. CASE Skip(p)
    BY <2>1 DEF Skip
  <2>2. CASE Reserve(p)
    BY <2>2 DEF Reserve
  <2>3. CASE Mark(p)
    BY <2>3 DEF Mark
  <2>4. CASE Rejected(p)
    BY <2>4 DEF Rejected
  <2>5. CASE Deliver(p)
    BY <2>5 DEF Deliver
  <2>6. CASE Commit(p) \/ WaitTimesOut(p) \/ Dies(p)
    BY <1>1, <2>6 DEF Commit, WaitTimesOut, Dies, Abort
  <2> QED
    BY <1>2, <2>1, <2>2, <2>3, <2>4, <2>5, <2>6 DEF Pipeline
<1>3. ASSUME NEW p \in Actors, Load(p) \/ Take(p) PROVE OneAtTelegram'
  BY <1>3 DEF Load, Take
<1>4. ASSUME NEW r \in Requests, Enqueue(r) PROVE OneAtTelegram'
  BY <1>4 DEF Enqueue
<1>5. ASSUME NEW r \in Requests, EnqueueDuplicate(r) PROVE OneAtTelegram'
  BY <1>1, <1>5 DEF EnqueueDuplicate, Abort
<1>6. CASE Forget \/ DelayEnds \/ Withdraw \/ Approve \/ Reconcile \/ UNCHANGED vars
  BY <1>6 DEF Forget, DelayEnds, Withdraw, Approve, Reconcile, vars
<1> QED
  BY <1>2, <1>3, <1>4, <1>5, <1>6 DEF Next, RequestStep

\* However many requests and workers send the comment, as shipped or not, under deaths
\* and late answers: one at a time is at Telegram, and none leaves the row locked.
THEOREM RowLockSerialises == Spec => []OneAtTelegram
<1>1. Init => OneAtTelegram
  BY ActorsAssumption DEF Init, OneAtTelegram, Actors
<1> QED
  BY <1>1, TypeInit, TypeStep, RowLockStep, PTL DEF Spec

--------------------------------------------------------------------------------
\* DeliveredOnce and DeliveryKept where requests only enqueue the job

LEMMA SoleStep == TypeOK /\ SoleWorker /\ [Next]_vars => SoleWorker'
<1> SUFFICES ASSUME TypeOK, SoleWorker, [Next]_vars PROVE SoleWorker'
  OBVIOUS
<1> USE ActorsAssumption DEF TypeOK, SoleWorker, Goto, Actors
<1>1. ASSUME NEW p \in Actors, End(p), pc[p] # "idle" PROVE SoleWorker'
  BY <1>1 DEF End
<1>2. ASSUME NEW p \in Actors, Pipeline(p) \/ Dies(p) PROVE SoleWorker'
  <2>1. CASE Skip(p)
    BY <2>1 DEF Skip, Return
  <2>2. CASE Reserve(p)
    BY <2>2 DEF Reserve
  <2>3. CASE Mark(p)
    BY <2>3 DEF Mark
  <2>4. CASE Rejected(p)
    BY <2>4 DEF Rejected, Return
  <2>5. CASE Deliver(p)
    BY <2>5 DEF Deliver, Return
  <2>6. CASE Commit(p) \/ WaitTimesOut(p) \/ Dies(p)
    BY <1>1, <2>6 DEF Commit, WaitTimesOut, Dies, Abort, AtWork
  <2> QED
    BY <1>2, <2>1, <2>2, <2>3, <2>4, <2>5, <2>6 DEF Pipeline
<1>3. ASSUME NEW r \in Requests, Load(r) \/ Enqueue(r) PROVE SoleWorker'
  BY <1>3 DEF Load, Enqueue
<1>4. ASSUME NEW r \in Requests, EnqueueDuplicate(r) PROVE SoleWorker'
  BY <1>1, <1>4 DEF EnqueueDuplicate, Abort
<1>5. ASSUME NEW w \in Workers, Take(w) PROVE SoleWorker'
  BY <1>5 DEF Take
<1>6. CASE Forget \/ DelayEnds \/ Withdraw \/ Approve \/ Reconcile \/ UNCHANGED vars
  BY <1>6 DEF Forget, DelayEnds, Withdraw, Approve, Reconcile, vars
<1> QED
  BY <1>2, <1>3, <1>4, <1>5, <1>6 DEF Next, RequestStep

\* Steps of a worker.
LEMMA WorkerQuiet ==
  ASSUME Disturbances = {}, TypeOK, Truthful, SoleWorker, Quiet,
         NEW w \in Workers, Pipeline(w) \/ Dies(w) \/ Take(w)
  PROVE  Quiet'
<1> USE ActorsAssumption DEF TypeOK, SoleWorker, Quiet, RequestsIdle, WorkersHonest, Unposted,
                             DeliveredOnce, DeliveryKept, Goto, Return, Actors
<1>1. CASE Skip(w)
  BY <1>1 DEF Skip
<1>2. CASE Reserve(w)
  BY <1>2 DEF Reserve
<1>3. CASE Mark(w)
  BY <1>3 DEF Mark
<1>4. CASE Rejected(w)
  BY <1>4 DEF Rejected
<1>5. CASE Deliver(w)
  BY <1>5 DEF Deliver
<1>6. CASE Commit(w)
  BY <1>6 DEF Commit, Writes, End, Unlock
<1>7. CASE WaitTimesOut(w)
  BY <1>7 DEF WaitTimesOut, Waits, Abort, End, Unlock
<1>8. CASE Dies(w)
  BY <1>8 DEF Dies
<1>9. CASE Take(w)
  BY <1>9 DEF Take, Read, Refuses
<1> QED
  BY <1>1, <1>2, <1>3, <1>4, <1>5, <1>6, <1>7, <1>8, <1>9 DEF Pipeline

\* Steps of a request.
LEMMA RequestQuiet ==
  ASSUME RequireLimiter = FALSE, Disturbances = {}, TypeOK, Quiet,
         NEW r \in Requests, Pipeline(r) \/ Dies(r) \/ Load(r) \/ RequestStep(r)
  PROVE  Quiet'
<1> USE ActorsAssumption DEF TypeOK, Quiet, RequestsIdle, WorkersHonest, Unposted,
                             DeliveredOnce, DeliveryKept, Goto, Actors
<1>1. CASE Commit(r)
  BY <1>1 DEF Commit, Writes, End, Unlock
<1>2. CASE Load(r)
  BY <1>2 DEF Load, Read
<1>3. CASE Enqueue(r)
  BY <1>3 DEF Enqueue
<1>4. CASE EnqueueDuplicate(r)
  BY <1>4 DEF EnqueueDuplicate, Abort, End, Unlock
<1>5. ~(Skip(r) \/ Reserve(r) \/ Mark(r) \/ Rejected(r) \/ Deliver(r) \/ WaitTimesOut(r) \/ Dies(r))
  BY DEF Skip, Reserve, Mark, Rejected, Deliver, WaitTimesOut, Waits, Writes, Dies
<1> QED
  BY <1>1, <1>2, <1>3, <1>4, <1>5 DEF Pipeline, RequestStep

LEMMA QuietStep ==
  ASSUME RequireLimiter = FALSE, Disturbances = {}, TypeOK, Truthful, SoleWorker, Quiet, [Next]_vars
  PROVE  Quiet'
<1>1. CASE Forget \/ DelayEnds \/ Withdraw \/ Approve \/ Reconcile \/ UNCHANGED vars
  BY <1>1 DEF Forget, DelayEnds, Withdraw, Approve, Reconcile, vars, Truthful, Quiet, RequestsIdle,
              WorkersHonest, Unposted, DeliveredOnce, DeliveryKept
<1> QED
  BY <1>1, WorkerQuiet, RequestQuiet DEF Next, Actors

LEMMA QuietInit == Init => Truthful /\ SoleWorker /\ Quiet
  BY ActorsAssumption DEF Init, Truthful, SoleWorker, Quiet, RequestsIdle, WorkersHonest, Unposted,
                          DeliveredOnce, DeliveryKept, Actors

\* Where requests only enqueue the job, and nothing dies or answers late, a comment is
\* posted at most once, for any requests and workers.
THEOREM PostedOnce ==
  ASSUME RequireLimiter = FALSE, Disturbances = {}
  PROVE  Spec => []DeliveredOnce
<1>1. Init => Truthful /\ SoleWorker /\ Quiet
  BY QuietInit
<1>2. TypeOK /\ Truthful /\ SoleWorker /\ Quiet /\ [Next]_vars => Quiet'
  BY QuietStep
<1>3. Quiet => DeliveredOnce
  BY DEF Quiet
<1> QED
  BY <1>1, <1>2, <1>3, TypeInit, TypeStep, TruthfulStep, SoleStep, PTL DEF Spec

\* And the record of what was posted is kept: no session writes another status over
\* SENT, or rolls it back.
THEOREM RecordKept ==
  ASSUME RequireLimiter = FALSE, Disturbances = {}
  PROVE  Spec => []DeliveryKept
<1>1. Init => Truthful /\ SoleWorker /\ Quiet
  BY QuietInit
<1>2. TypeOK /\ Truthful /\ SoleWorker /\ Quiet /\ [Next]_vars => Quiet'
  BY QuietStep
<1>3. Quiet => DeliveryKept
  BY DEF Quiet
<1> QED
  BY <1>1, <1>2, <1>3, TypeInit, TypeStep, TruthfulStep, SoleStep, PTL DEF Spec

--------------------------------------------------------------------------------
\* SentStands where requests only enqueue the job

\* Whoever may write the status loaded it when it was not SENT, and it still is not.
StillUnsent == RequestsIdle /\ \A w \in Workers : pc[w] # "idle" => status # "sent"

\* Only a worker at work writes the status.
LEMMA SentStaysStep ==
  ASSUME RequireLimiter = FALSE, TypeOK, Truthful, StillUnsent, [Next]_vars, status = "sent"
  PROVE  status' = "sent"
<1>1. ASSUME NEW p \in Actors, Pipeline(p) \/ Dies(p) PROVE status' = status
  <2>1. ASSUME Commit(p) PROVE status' = status
    <3>1. CASE p \in Workers
      BY <2>1, <3>1 DEF Commit, StillUnsent
    <3>2. CASE p \in Requests
      BY <2>1, <3>2 DEF Commit, StillUnsent, RequestsIdle, Writes
    <3> QED
      BY <3>1, <3>2 DEF Actors
  <2>2. CASE Skip(p) \/ Reserve(p) \/ Mark(p) \/ Rejected(p) \/ Deliver(p)
    BY <2>2 DEF Skip, Reserve, Mark, Rejected, Deliver
  <2>3. CASE WaitTimesOut(p) \/ Dies(p)
    BY <2>3 DEF WaitTimesOut, Dies, Abort
  <2> QED
    BY <1>1, <2>1, <2>2, <2>3 DEF Pipeline
<1>2. ASSUME NEW r \in Requests, Load(r) \/ RequestStep(r) PROVE status' = status
  BY <1>2 DEF Load, RequestStep, Enqueue, EnqueueDuplicate, Abort
<1>3. ASSUME NEW w \in Workers, Take(w) PROVE status' = status
  BY <1>3 DEF Take
<1>4. CASE Forget \/ DelayEnds \/ Withdraw \/ Approve \/ Reconcile \/ UNCHANGED vars
  BY <1>4 DEF Forget, DelayEnds, Withdraw, Approve, Reconcile, vars
<1> QED
  BY <1>1, <1>2, <1>3, <1>4 DEF Next

LEMMA IdleStep ==
  ASSUME RequireLimiter = FALSE, TypeOK, RequestsIdle, [Next]_vars
  PROVE  RequestsIdle'
<1> USE ActorsAssumption DEF TypeOK, RequestsIdle, Goto, Actors
<1>1. ASSUME NEW w \in Workers, Pipeline(w) \/ Dies(w) \/ Take(w) PROVE RequestsIdle'
  <2>1. CASE Skip(w) \/ Reserve(w) \/ Rejected(w)
    BY <2>1 DEF Skip, Reserve, Rejected, Return
  <2>2. CASE Mark(w)
    BY <2>2 DEF Mark
  <2>3. CASE Deliver(w)
    BY <2>3 DEF Deliver, Return
  <2>4. CASE Commit(w)
    BY <2>4 DEF Commit, End, Unlock
  <2>5. CASE WaitTimesOut(w) \/ Dies(w)
    BY <2>5 DEF WaitTimesOut, Dies, Abort, End, Unlock
  <2>6. CASE Take(w)
    BY <2>6 DEF Take, Read
  <2> QED
    BY <1>1, <2>1, <2>2, <2>3, <2>4, <2>5, <2>6 DEF Pipeline
<1>2. ASSUME NEW r \in Requests, Pipeline(r) \/ Dies(r) \/ Load(r) \/ RequestStep(r)
      PROVE  RequestsIdle'
  <2>1. CASE Commit(r)
    BY <2>1 DEF Commit, End, Unlock
  <2>2. CASE Load(r)
    BY <2>2 DEF Load, Read
  <2>3. CASE Enqueue(r)
    BY <2>3 DEF Enqueue
  <2>4. CASE EnqueueDuplicate(r) \/ Dies(r)
    BY <2>4 DEF EnqueueDuplicate, Dies, Abort, End, Unlock
  <2>5. ~(Skip(r) \/ Reserve(r) \/ Mark(r) \/ Rejected(r) \/ Deliver(r) \/ WaitTimesOut(r))
    BY DEF Skip, Reserve, Mark, Rejected, Deliver, WaitTimesOut, Waits, Writes
  <2> QED
    BY <1>2, <2>1, <2>2, <2>3, <2>4, <2>5 DEF Pipeline, RequestStep
<1>3. CASE Forget \/ DelayEnds \/ Withdraw \/ Approve \/ Reconcile \/ UNCHANGED vars
  BY <1>3 DEF Forget, DelayEnds, Withdraw, Approve, Reconcile, vars
<1> QED
  BY <1>1, <1>2, <1>3 DEF Next

LEMMA UnsentStep ==
  ASSUME RequireLimiter = FALSE, TypeOK, Truthful, SoleWorker, StillUnsent, [Next]_vars
  PROVE  StillUnsent'
<1> USE ActorsAssumption DEF TypeOK, SoleWorker, Goto, Actors
<1>0. RequestsIdle'
  BY IdleStep DEF StillUnsent
<1> SUFFICES ASSUME NEW v \in Workers, pc'[v] # "idle" PROVE status' # "sent"
  BY <1>0 DEF StillUnsent
<1> USE DEF StillUnsent
<1>1. ASSUME NEW w \in Workers, Pipeline(w) \/ Dies(w) PROVE status' # "sent"
  <2>1. pc[w] # "idle"
    BY <1>1 DEF Pipeline, Skip, Reserve, Mark, Rejected, Deliver, Commit, WaitTimesOut, Dies, AtWork
  <2>2. CASE Commit(w)
    <3>1. pc'[w] = "idle" /\ \A u \in Workers \ {w} : pc'[u] = pc[u]
      BY <2>2 DEF Commit, End
    <3> QED
      BY <2>1, <3>1
  <2>3. CASE ~Commit(w)
    <3>1. status' = status
      BY <1>1, <2>3 DEF Pipeline, Skip, Reserve, Mark, Rejected, Deliver, WaitTimesOut, Dies, Abort
    <3> QED
      BY <2>1, <3>1
  <2> QED
    BY <2>2, <2>3
<1>2. ASSUME NEW r \in Requests, Pipeline(r) \/ Dies(r) \/ Load(r) \/ RequestStep(r)
      PROVE  status' # "sent"
  <2>1. pc'[v] = pc[v]
    BY <1>2 DEF Pipeline, Skip, Reserve, Mark, Rejected, Deliver, Commit, WaitTimesOut, Dies, Load,
                RequestStep, Enqueue, EnqueueDuplicate, Abort, End, Return
  <2>2. status' = status
    BY <1>2 DEF Pipeline, Skip, Reserve, Mark, Rejected, Deliver, Commit, WaitTimesOut, Dies, Load,
                RequestStep, Enqueue, EnqueueDuplicate, Abort, Writes, RequestsIdle
  <2> QED
    BY <2>1, <2>2
<1>3. ASSUME NEW w \in Workers, Take(w) PROVE status' # "sent"
  BY <1>3 DEF Take, Refuses
<1>4. CASE Forget \/ DelayEnds \/ Withdraw \/ Approve \/ Reconcile \/ UNCHANGED vars
  BY <1>4 DEF Forget, DelayEnds, Withdraw, Approve, Reconcile, vars, Truthful
<1> QED
  BY <1>1, <1>2, <1>3, <1>4 DEF Next

\* Where requests only enqueue the job, SENT is final whoever dies and whatever answers
\* come late: RQ gives the job to one worker, which loads the attempt unsent or not at all.
THEOREM SentIsFinal ==
  ASSUME RequireLimiter = FALSE
  PROVE  Spec => SentStands
<1> DEFINE IInv == TypeOK /\ Truthful /\ SoleWorker /\ StillUnsent
<1>1. Init => IInv
  BY TypeInit, QuietInit DEF Init, StillUnsent, Quiet
<1>2. IInv /\ [Next]_vars => IInv'
  BY TypeStep, TruthfulStep, SoleStep, UnsentStep
<1>3. IInv /\ [Next]_vars => [status = "sent" => status' = "sent"]_vars
  BY SentStaysStep
<1> QED
  BY <1>1, <1>2, <1>3, PTL DEF Spec, SentStands

================================================================================
