--------------------------- MODULE ProfileJobsProofs ----------------------------
(***************************************************************************)
(* Theorems about ProfileJobs for any jobs, workers and intents: type      *)
(* correctness, OneActivePerIntent whatever goes wrong, OneRunAtATime as   *)
(* long as no live worker loses its lock, ExecutedOnce where requests are  *)
(* not executed inline, OverIsFinal, and under both assumptions that the   *)
(* jobs are a JobBoard.                                                    *)
(*                                                                         *)
(* OneActivePerIntent is inductive. OneRunAtATime rests on LockKept: who   *)
(* passed the lock is its holder. ExecutedOnce rests on OneTicket: a job   *)
(* is in one place only, a request that has not enqueued it, the queue,    *)
(* the retry or one worker, and none of them once its plan was launched.   *)
(* The refinement rests on these three, on OverStep, that what is over     *)
(* stays over, and on OneActivated, that jobs become active one by one.    *)
(***************************************************************************)
EXTENDS ProfileJobs, TLAPS

LockKept ==
  \A w \in Workers : phase[w] \in {"locked", "starting", "running", "releasing"} => lock = w

\* The request of j has yet to enqueue it.
Unqueued(j) == request[j] \in {"none", "checked", "inserted"}

\* Job j awaits its launch at worker w.
Awaits(w, j) == on[w] = j /\ phase[w] \in {"loaded", "contended", "locked", "starting"}

OneTicket ==
  \A j \in Jobs :
    /\ Unqueued(j) => j \notin queue
    /\ Unqueued(j) \/ j \in queue => retry[j] = "none"
    /\ Unqueued(j) \/ j \in queue \/ retry[j] # "none" => starts[j] = 0 /\ \A w \in Workers : on[w] # j
    /\ \A w \in Workers : Awaits(w, j) => starts[j] = 0
    /\ \A v, w \in Workers : on[v] = j /\ on[w] = j => v = w
    /\ starts[j] <= 1

--------------------------------------------------------------------------------
\* Types
USE DEF Active, Verdicts, Terminal, Phases

LEMMA TypeInit == Init => TypeOK
<1> SUFFICES ASSUME Init PROVE TypeOK
  OBVIOUS
<1>1. blocker \in [Jobs -> BOOLEAN] /\ cooldown \in BOOLEAN
  BY Zenon DEF Init
<1> QED
  BY <1>1 DEF Init, TypeOK

\* A write leaves a job's state or makes it the one that is written.
LEMMA WriteType ==
  ASSUME TypeOK, NEW j \in Jobs, NEW s \in Active \cup Terminal, Write(j, s)
  PROVE  state' \in [Jobs -> {"none", "deleted"} \cup Active \cup Terminal]
  BY DEF TypeOK, Write

LEMMA IdleType ==
  ASSUME TypeOK, NEW w \in Workers, Idle(w)
  PROVE  /\ phase' \in [Workers -> Phases] /\ on' \in [Workers -> Jobs \cup {NoJob}]
         /\ \A v \in Workers : phase'[v] = "idle" <=> on'[v] = NoJob
  BY DEF TypeOK, Idle

\* Requests preserve the types.
LEMMA ApiType ==
  ASSUME TypeOK, NEW j \in Jobs,
         ApiStep(j) \/ ApiDies(j) \/ CancelCheck(j) \/ CancelWrite(j) \/ CancelRemove(j) \/ Delete(j)
  PROVE  TypeOK'
<1> USE DEF apiVars, workerVars, bookkeeping
<1>1. CASE Check(j)
  BY <1>1 DEF TypeOK, Check, ActiveDuplicate
<1>2. CASE Insert(j)
  <2>1. state' \in [Jobs -> {"none", "deleted"} \cup Active \cup Terminal]
    BY <1>2, WriteType DEF Insert
  <2> QED
    BY <1>2, <2>1 DEF TypeOK, Insert
<1>3. CASE Enqueue(j)
  BY <1>3 DEF TypeOK, Enqueue
<1>4. CASE EnqueueFails(j)
  BY <1>4 DEF TypeOK, EnqueueFails
<1>5. CASE Refuse(j)
  <2>1. state' \in [Jobs -> {"none", "deleted"} \cup Active \cup Terminal]
    BY <1>5, WriteType DEF Refuse
  <2> QED
    BY <1>5, <2>1 DEF TypeOK, Refuse
<1>6. CASE RunInline(j)
  BY <1>6, JobsAssumption DEF TypeOK, RunInline
<1>7. CASE ApiDies(j)
  BY <1>7 DEF TypeOK, ApiDies
<1>8. CASE CancelCheck(j)
  BY <1>8 DEF TypeOK, CancelCheck
<1>9. CASE CancelWrite(j)
  <2>1. state' \in [Jobs -> {"none", "deleted"} \cup Active \cup Terminal]
    BY <1>9, WriteType DEF CancelWrite
  <2> QED
    BY <1>9, <2>1 DEF TypeOK, CancelWrite
<1>10. CASE CancelRemove(j)
  BY <1>10 DEF TypeOK, CancelRemove
<1>11. CASE Delete(j)
  BY <1>11 DEF TypeOK, Delete
<1> QED
  BY <1>1, <1>2, <1>3, <1>4, <1>5, <1>6, <1>7, <1>8, <1>9, <1>10, <1>11 DEF ApiStep

\* Workers preserve the types.
LEMMA WorkerType ==
  ASSUME TypeOK, NEW w \in Workers, WorkerStep(w) \/ WorkerDies(w)
  PROVE  TypeOK'
<1> USE DEF apiVars, workerVars, bookkeeping
<1>1. ASSUME NEW j \in Jobs, Take(w, j) PROVE TypeOK'
  <2>1. /\ queue' \subseteq Jobs /\ retry' \in [Jobs -> {"none", "scheduled", "queued"}]
    BY <1>1 DEF TypeOK, Take
  <2>2. /\ phase' \in [Workers -> Phases] /\ on' \in [Workers -> Jobs \cup {NoJob}]
        /\ \A v \in Workers : phase'[v] = "idle" <=> on'[v] = NoJob
    BY <1>1, JobsAssumption DEF TypeOK, Take, Load
  <2> QED
    BY <1>1, <2>1, <2>2 DEF TypeOK, Take
<1>2. CASE Acquire(w)
  BY <1>2 DEF TypeOK, Acquire
<1>3. CASE Contend(w)
  <2>1. on[w] \in Jobs
    BY <1>3 DEF Contend, TypeOK
  <2>2. state' \in [Jobs -> {"none", "deleted"} \cup Active \cup Terminal]
    BY <1>3, <2>1, WriteType DEF Contend
  <2>3. retry' \in [Jobs -> {"none", "scheduled", "queued"}]
    BY <1>3, <2>1 DEF Contend, TypeOK
  <2> QED
    BY <1>3, <2>2, <2>3, IdleType DEF TypeOK, Contend
<1>4. CASE MarkRunning(w)
  <2>1. on[w] \in Jobs
    BY <1>4 DEF MarkRunning, TypeOK
  <2>2. state' \in [Jobs -> {"none", "deleted"} \cup Active \cup Terminal]
    <3>1. CASE lock = w
      BY <1>4, <2>1, <3>1, WriteType DEF MarkRunning
    <3>2. CASE lock # w
      BY <1>4, <3>2 DEF MarkRunning, TypeOK
    <3> QED
      BY <3>1, <3>2
  <2>3. CASE lock = w /\ Raises(on[w], "RUNNING")
    BY <1>4, <2>2, <2>3, IdleType DEF TypeOK, MarkRunning
  <2>4. CASE ~(lock = w /\ Raises(on[w], "RUNNING"))
    BY <1>4, <2>2, <2>4 DEF TypeOK, MarkRunning
  <2> QED
    BY <2>3, <2>4
<1>5. CASE Launch(w)
  <2>1. on[w] \in Jobs
    BY <1>5 DEF Launch, TypeOK
  <2> QED
    BY <1>5, <2>1 DEF TypeOK, Launch
<1>6. CASE Finish(w)
  <2>1. on[w] \in Jobs
    BY <1>6 DEF Finish, TypeOK
  <2>2. PICK v \in Verdicts :
          IF lock = w /\ state[on[w]] # "deleted"
          THEN /\ state' = [state EXCEPT ![on[w]] = v]
               /\ cooldown' = (cooldown \/ v \in {"COMPLETED", "PARTIALLY_COMPLETED"})
          ELSE UNCHANGED <<state, cooldown>>
    BY <1>6 DEF Finish
  <2>3. state' \in [Jobs -> {"none", "deleted"} \cup Active \cup Terminal]
    <3>1. CASE lock = w /\ state[on[w]] # "deleted"
      BY <2>1, <2>2, <3>1 DEF TypeOK
    <3>2. CASE ~(lock = w /\ state[on[w]] # "deleted")
      BY <2>2, <3>2 DEF TypeOK
    <3> QED
      BY <3>1, <3>2
  <2>4. cooldown' \in BOOLEAN
    <3>1. cooldown \in BOOLEAN
      BY DEF TypeOK
    <3>2. cooldown' = cooldown \/ cooldown' = (cooldown \/ v \in {"COMPLETED", "PARTIALLY_COMPLETED"})
      BY <2>2, Zenon
    <3> QED
      BY <3>1, <3>2, Zenon
  <2>5. /\ phase' \in [Workers -> Phases]
        /\ \A u \in Workers : phase'[u] = "idle" <=> on'[u] = NoJob
    BY <1>6 DEF TypeOK, Finish
  <2> QED
    BY <1>6, <2>3, <2>4, <2>5 DEF TypeOK, Finish
<1>7. CASE Release(w)
  BY <1>7, IdleType DEF TypeOK, Release
<1>8. CASE WorkerDies(w)
  BY <1>8, IdleType DEF TypeOK, WorkerDies
<1> QED
  BY <1>1, <1>2, <1>3, <1>4, <1>5, <1>6, <1>7, <1>8 DEF WorkerStep

\* Time, Redis and the reaper preserve the types.
LEMMA EnvironmentType ==
  ASSUME TypeOK,
         \/ \E j \in Jobs : Age(j) \/ RetryDue(j) \/ ReapFind(j) \/ ReapFail(j)
         \/ LockExpires \/ CooldownEnds \/ RedisRestarts
  PROVE  TypeOK'
<1> USE DEF apiVars, workerVars, bookkeeping
<1>1. ASSUME NEW j \in Jobs, Age(j) PROVE TypeOK'
  BY <1>1 DEF TypeOK, Age
<1>2. ASSUME NEW j \in Jobs, RetryDue(j) PROVE TypeOK'
  BY <1>2 DEF TypeOK, RetryDue
<1>3. ASSUME NEW j \in Jobs, ReapFind(j) PROVE TypeOK'
  BY <1>3 DEF TypeOK, ReapFind
<1>4. ASSUME NEW j \in Jobs, ReapFail(j) PROVE TypeOK'
  <2>1. state' \in [Jobs -> {"none", "deleted"} \cup Active \cup Terminal]
    BY <1>4, WriteType DEF ReapFail
  <2> QED
    BY <1>4, <2>1 DEF TypeOK, ReapFail
<1>5. CASE LockExpires
  BY <1>5 DEF TypeOK, LockExpires
<1>6. CASE CooldownEnds
  BY <1>6 DEF TypeOK, CooldownEnds
<1>7. CASE RedisRestarts
  <2>1. retry' \in [Jobs -> {"none", "scheduled", "queued"}] /\ queue' \subseteq Jobs
    BY <1>7 DEF RedisRestarts
  <2> QED
    BY <1>7, <2>1 DEF TypeOK, RedisRestarts
<1> QED
  BY <1>1, <1>2, <1>3, <1>4, <1>5, <1>6, <1>7

LEMMA TypeStep == TypeOK /\ [Next]_vars => TypeOK'
<1> SUFFICES ASSUME TypeOK, [Next]_vars PROVE TypeOK'
  OBVIOUS
<1>1. CASE UNCHANGED vars
  BY <1>1 DEF vars, TypeOK
<1> QED
  BY <1>1, ApiType, WorkerType, EnvironmentType DEF Next

\* Every variable keeps its type: in particular a worker is on a job exactly while
\* it is not idle (execute_profile_job returns on every path).
THEOREM TypeCorrect == Spec => []TypeOK
  BY TypeInit, TypeStep, PTL DEF Spec

--------------------------------------------------------------------------------
\* One active job per intent

\* Whatever is written through Write, no two active jobs get one intent.
LEMMA WriteUnique ==
  ASSUME TypeOK, OneActivePerIntent, NEW j \in Jobs, NEW s \in Active \cup Terminal, Write(j, s)
  PROVE  OneActivePerIntent'
<1> SUFFICES ASSUME NEW d \in Jobs, NEW e \in Jobs, d # e, IntentOf[d] = IntentOf[e],
                    state'[d] \in Active, state'[e] \in Active
             PROVE  FALSE
  BY DEF OneActivePerIntent
<1>1. CASE Raises(j, s)
  BY <1>1 DEF Write, OneActivePerIntent
<1>2. CASE ~Raises(j, s)
  <2>1. state' = [state EXCEPT ![j] = s]
    BY <1>2 DEF Write
  <2>2. CASE d = j
    BY <1>2, <2>1, <2>2 DEF Raises, ActiveDuplicate, TypeOK
  <2>3. CASE e = j
    BY <1>2, <2>1, <2>3 DEF Raises, ActiveDuplicate, TypeOK
  <2>4. CASE d # j /\ e # j
    BY <2>1, <2>4 DEF OneActivePerIntent, TypeOK
  <2> QED
    BY <2>2, <2>3, <2>4
<1> QED
  BY <1>1, <1>2

\* A state that is not active disturbs nothing.
LEMMA EndUnique ==
  ASSUME TypeOK, OneActivePerIntent, NEW j \in Jobs, NEW s, s \notin Active,
         state' = [state EXCEPT ![j] = s]
  PROVE  OneActivePerIntent'
  BY DEF TypeOK, OneActivePerIntent

LEMMA UniqueStep == TypeOK /\ OneActivePerIntent /\ [Next]_vars => OneActivePerIntent'
<1> SUFFICES ASSUME TypeOK, OneActivePerIntent, [Next]_vars PROVE OneActivePerIntent'
  OBVIOUS
<1>1. CASE UNCHANGED state
  BY <1>1 DEF OneActivePerIntent
<1>2. ASSUME NEW j \in Jobs, Insert(j) \/ Refuse(j) \/ CancelWrite(j) \/ ReapFail(j)
      PROVE  OneActivePerIntent'
  BY <1>2, WriteUnique DEF Insert, Refuse, CancelWrite, ReapFail
<1>3. ASSUME NEW j \in Jobs, Delete(j) PROVE OneActivePerIntent'
  BY <1>3, EndUnique DEF Delete
<1>4. ASSUME NEW w \in Workers, Contend(w) PROVE OneActivePerIntent'
  <2>1. on[w] \in Jobs
    BY <1>4 DEF Contend, TypeOK
  <2> QED
    BY <1>4, <2>1, WriteUnique DEF Contend
<1>5. ASSUME NEW w \in Workers, MarkRunning(w) PROVE OneActivePerIntent'
  <2>1. on[w] \in Jobs
    BY <1>5 DEF MarkRunning, TypeOK
  <2> QED
    BY <1>1, <1>5, <2>1, WriteUnique DEF MarkRunning
<1>6. ASSUME NEW w \in Workers, Finish(w) PROVE OneActivePerIntent'
  <2>1. on[w] \in Jobs
    BY <1>6 DEF Finish, TypeOK
  <2>2. PICK v \in Verdicts : \/ state' = [state EXCEPT ![on[w]] = v]
                              \/ UNCHANGED state
    BY <1>6 DEF Finish
  <2> QED
    BY <1>1, <2>1, <2>2, EndUnique
<1>7. ASSUME NEW w \in Workers,
             (\E j \in Jobs : Take(w, j)) \/ Acquire(w) \/ Launch(w) \/ Release(w) \/ WorkerDies(w)
      PROVE  UNCHANGED state
  BY <1>7 DEF Take, Acquire, Launch, Release, WorkerDies
<1>8. ASSUME NEW j \in Jobs,
             \/ Check(j) \/ Enqueue(j) \/ EnqueueFails(j) \/ RunInline(j) \/ ApiDies(j)
             \/ Age(j) \/ RetryDue(j) \/ ReapFind(j) \/ CancelCheck(j) \/ CancelRemove(j)
      PROVE  UNCHANGED state
  BY <1>8 DEF Check, Enqueue, EnqueueFails, RunInline, ApiDies, Age, RetryDue, ReapFind,
              CancelCheck, CancelRemove
<1>9. ASSUME LockExpires \/ CooldownEnds \/ RedisRestarts \/ UNCHANGED vars
      PROVE  UNCHANGED state
  BY <1>9 DEF LockExpires, CooldownEnds, RedisRestarts, vars
<1> QED
  BY <1>1, <1>2, <1>3, <1>4, <1>5, <1>6, <1>7, <1>8, <1>9 DEF Next, WorkerStep, ApiStep

\* Two jobs with one intent are never active together, whatever is lost, dies or is
\* executed inline: the check of create_profile_job does not ensure it, the unique
\* index does, also against a worker that brings a failed job back to life.
THEOREM NoDuplicateActive == Spec => []OneActivePerIntent
<1>1. Init => OneActivePerIntent
  BY DEF Init, OneActivePerIntent
<1> QED
  BY <1>1, TypeInit, TypeStep, UniqueStep, PTL DEF Spec

--------------------------------------------------------------------------------
\* One run at a time

LEMMA LockKeptStep ==
  ASSUME "lock_lost" \notin Disturbances, TypeOK, LockKept, [Next]_vars
  PROVE  LockKept'
<1> USE WorkersAssumption DEF LockKept
<1>1. CASE UNCHANGED <<phase, lock>>
  BY <1>1
<1>2. ASSUME NEW w \in Workers, WorkerStep(w) \/ WorkerDies(w) PROVE LockKept'
  <2>1. ASSUME NEW j \in Jobs, Take(w, j) PROVE LockKept'
    BY <2>1 DEF Take, Load, workerVars, TypeOK
  <2>2. CASE Acquire(w)
    BY <2>2 DEF Acquire, TypeOK
  <2>3. CASE Contend(w)
    BY <2>3 DEF Contend, Idle, TypeOK
  <2>4. CASE MarkRunning(w)
    BY <2>4 DEF MarkRunning, Idle, TypeOK
  <2>5. CASE Launch(w)
    BY <2>5 DEF Launch, TypeOK
  <2>6. CASE Finish(w)
    BY <2>6 DEF Finish, TypeOK
  <2>7. CASE Release(w)
    BY <2>7 DEF Release, Idle, TypeOK
  <2>8. CASE WorkerDies(w)
    BY <2>8 DEF WorkerDies, Idle, TypeOK
  <2> QED
    BY <1>2, <2>1, <2>2, <2>3, <2>4, <2>5, <2>6, <2>7, <2>8 DEF WorkerStep
<1>3. ASSUME NEW j \in Jobs, RunInline(j) PROVE LockKept'
  BY <1>3 DEF RunInline, TypeOK
<1>4. ASSUME NEW j \in Jobs, ReapFail(j) PROVE LockKept'
  BY <1>4 DEF ReapFail, workerVars, TypeOK
<1>5. CASE LockExpires
  BY <1>5 DEF LockExpires, workerVars, TypeOK
<1>6. ASSUME NEW j \in Jobs,
             \/ Check(j) \/ Insert(j) \/ Enqueue(j) \/ EnqueueFails(j) \/ Refuse(j) \/ ApiDies(j)
             \/ Age(j) \/ RetryDue(j) \/ ReapFind(j)
             \/ CancelCheck(j) \/ CancelWrite(j) \/ CancelRemove(j) \/ Delete(j)
      PROVE  UNCHANGED <<phase, lock>>
  BY <1>6 DEF Check, Insert, Enqueue, EnqueueFails, Refuse, ApiDies, Age, RetryDue, ReapFind,
              CancelCheck, CancelWrite, CancelRemove, Delete, workerVars
<1>7. ASSUME CooldownEnds \/ RedisRestarts \/ UNCHANGED vars PROVE UNCHANGED <<phase, lock>>
  BY <1>7 DEF CooldownEnds, RedisRestarts, vars, workerVars
<1> QED
  BY <1>1, <1>2, <1>3, <1>4, <1>5, <1>6, <1>7 DEF Next, ApiStep

\* Runs of the account's jobs do not overlap, whoever dies and whatever the reaper
\* clears, unless a worker that is alive loses its lock.
THEOREM RunsDoNotOverlap ==
  ASSUME "lock_lost" \notin Disturbances
  PROVE  Spec => []OneRunAtATime
<1>1. Init => LockKept
  BY DEF Init, LockKept
<1>2. TypeOK /\ LockKept /\ [Next]_vars => LockKept'
  BY LockKeptStep
<1>3. LockKept => OneRunAtATime
  BY DEF LockKept, OneRunAtATime, Running
<1> QED
  BY <1>1, <1>2, <1>3, TypeInit, TypeStep, PTL DEF Spec

--------------------------------------------------------------------------------
\* Executed once

\* Requests, which enqueue a job once, keep its ticket.
LEMMA ApiTicket ==
  ASSUME InlineFallback = FALSE, TypeOK, OneTicket, NEW i \in Jobs,
         ApiStep(i) \/ ApiDies(i) \/ CancelCheck(i) \/ CancelWrite(i) \/ CancelRemove(i) \/ Delete(i)
  PROVE  OneTicket'
<1> USE DEF OneTicket, Unqueued, Awaits, TypeOK, apiVars, workerVars, bookkeeping
<1>1. CASE Check(i)
  BY <1>1 DEF Check
<1>2. CASE Insert(i)
  BY <1>2 DEF Insert
<1>3. CASE Enqueue(i)
  BY <1>3 DEF Enqueue
<1>4. CASE EnqueueFails(i)
  BY <1>4 DEF EnqueueFails
<1>5. CASE Refuse(i)
  BY <1>5 DEF Refuse
<1>6. CASE RunInline(i)
  BY <1>6 DEF RunInline
<1>7. CASE ApiDies(i)
  BY <1>7 DEF ApiDies
<1>8. CASE CancelCheck(i)
  BY <1>8 DEF CancelCheck
<1>9. CASE CancelWrite(i)
  BY <1>9 DEF CancelWrite
<1>10. CASE CancelRemove(i)
  BY <1>10 DEF CancelRemove
<1>11. CASE Delete(i)
  BY <1>11 DEF Delete
<1> QED
  BY <1>1, <1>2, <1>3, <1>4, <1>5, <1>6, <1>7, <1>8, <1>9, <1>10, <1>11 DEF ApiStep

\* A worker takes the ticket, hands it on to the retry, or uses it.
LEMMA WorkerTicket ==
  ASSUME TypeOK, OneTicket, NEW u \in Workers, WorkerStep(u) \/ WorkerDies(u)
  PROVE  OneTicket'
<1> USE JobsAssumption DEF OneTicket, Unqueued, Awaits, TypeOK, apiVars, workerVars, bookkeeping
<1>1. ASSUME NEW i \in Jobs, Take(u, i) PROVE OneTicket'
  <2>1. CASE i \in queue /\ queue' = queue \ {i} /\ UNCHANGED retry
    BY <1>1, <2>1 DEF Take, Load
  <2>2. CASE retry[i] = "queued" /\ retry' = [retry EXCEPT ![i] = "none"] /\ UNCHANGED queue
    BY <1>1, <2>2 DEF Take, Load
  <2> QED
    BY <1>1, <2>1, <2>2 DEF Take
<1>2. CASE Acquire(u)
  BY <1>2 DEF Acquire
<1>3. CASE Contend(u)
  <2>1. on[u] \in Jobs /\ Awaits(u, on[u])
    BY <1>3 DEF Contend
  <2>2. UNCHANGED retry \/ retry' = [retry EXCEPT ![on[u]] = "scheduled"]
    BY <1>3 DEF Contend
  <2> QED
    BY <1>3, <2>1, <2>2 DEF Contend, Idle
<1>4. CASE MarkRunning(u)
  <2>1. on[u] \in Jobs /\ Awaits(u, on[u])
    BY <1>4 DEF MarkRunning
  <2> QED
    BY <1>4, <2>1 DEF MarkRunning, Idle
<1>5. CASE Launch(u)
  <2>1. on[u] \in Jobs /\ Awaits(u, on[u])
    BY <1>5 DEF Launch
  <2> QED
    BY <1>5, <2>1 DEF Launch
<1>6. CASE Finish(u)
  BY <1>6 DEF Finish
<1>7. CASE Release(u)
  BY <1>7 DEF Release, Idle
<1>8. CASE WorkerDies(u)
  BY <1>8 DEF WorkerDies, Idle
<1> QED
  BY <1>1, <1>2, <1>3, <1>4, <1>5, <1>6, <1>7, <1>8 DEF WorkerStep

LEMMA TicketStep ==
  ASSUME InlineFallback = FALSE, TypeOK, OneTicket, [Next]_vars
  PROVE  OneTicket'
<1> USE DEF OneTicket, Unqueued, Awaits, apiVars, workerVars, bookkeeping
<1>1. ASSUME NEW i \in Jobs, RetryDue(i) PROVE OneTicket'
  BY <1>1 DEF RetryDue, TypeOK
<1>2. CASE RedisRestarts
  BY <1>2 DEF RedisRestarts, TypeOK
<1>3. ASSUME NEW i \in Jobs, Age(i) \/ ReapFind(i) \/ ReapFail(i) PROVE OneTicket'
  BY <1>3 DEF Age, ReapFind, ReapFail
<1>4. CASE LockExpires \/ CooldownEnds \/ UNCHANGED vars
  BY <1>4 DEF LockExpires, CooldownEnds, vars
<1> QED
  BY <1>1, <1>2, <1>3, <1>4, ApiTicket, WorkerTicket DEF Next

\* The child process of a job is launched at most once, whatever the queue loses or
\* delivers unacknowledged and whoever dies, where no request is executed inline.
THEOREM LaunchedAtMostOnce ==
  ASSUME InlineFallback = FALSE
  PROVE  Spec => []ExecutedOnce
<1>1. Init => OneTicket
  BY JobsAssumption DEF Init, OneTicket, Unqueued, Awaits
<1>2. TypeOK /\ OneTicket /\ [Next]_vars => OneTicket'
  BY TicketStep
<1>3. OneTicket => ExecutedOnce
  BY DEF OneTicket, ExecutedOnce
<1> QED
  BY <1>1, <1>2, <1>3, TypeInit, TypeStep, PTL DEF Spec

--------------------------------------------------------------------------------
\* OverIsFinal

\* What is written through Write is an end, so a job that has ended stays ended.
LEMMA WriteEnds ==
  ASSUME TypeOK, NEW i \in Jobs, NEW s \in Terminal, Write(i, s),
         NEW j \in Jobs, state[j] \in Terminal \cup {"deleted"}
  PROVE  state'[j] \in Terminal \cup {"deleted"}
  BY DEF TypeOK, Write

LEMMA OverStep ==
  ASSUME TypeOK, [Next]_vars, NEW j \in Jobs, Over(j)
  PROVE  Over(j)' /\ starts'[j] = starts[j]
<1> USE DEF apiVars, workerVars, bookkeeping
<1>0. /\ state[j] \in Terminal \cup {"deleted"} /\ request[j] = "done"
      /\ \A w \in Workers : on[w] # j
  BY DEF Over
<1>1. ASSUME NEW w \in Workers, Idle(w) PROVE \A v \in Workers : on'[v] # j
  BY <1>0, <1>1, JobsAssumption DEF TypeOK, Idle
<1>2. ASSUME NEW w \in Workers, WorkerStep(w) \/ WorkerDies(w)
      PROVE  Over(j)' /\ starts'[j] = starts[j]
  <2>1. \A v \in Workers : on'[v] # j
    BY <1>0, <1>1, <1>2
    DEF WorkerStep, Take, Load, Acquire, Contend, MarkRunning, Launch, Finish, Release,
        WorkerDies, TypeOK
  <2>2. request' = request
    BY <1>2
    DEF WorkerStep, Take, Acquire, Contend, MarkRunning, Launch, Finish, Release, WorkerDies
  <2>3. on[w] # j /\ on[w] \in Jobs \cup {NoJob}
    BY <1>0 DEF TypeOK
  <2>4. state'[j] = state[j]
    <3>1. ASSUME NEW s, Write(on[w], s) PROVE state'[j] = state[j]
      BY <2>3, <3>1 DEF Write, TypeOK
    <3>2. ASSUME NEW v, state' = [state EXCEPT ![on[w]] = v] PROVE state'[j] = state[j]
      BY <2>3, <3>2 DEF TypeOK
    <3> QED
      BY <1>2, <3>1, <3>2
      DEF WorkerStep, Take, Acquire, Contend, MarkRunning, Launch, Finish, Release, WorkerDies
  <2>5. starts'[j] = starts[j]
    BY <1>2, <2>3
    DEF WorkerStep, Take, Acquire, Contend, MarkRunning, Launch, Finish, Release, WorkerDies, TypeOK
  <2> QED
    BY <1>0, <2>1, <2>2, <2>4, <2>5 DEF Over
<1>3. ASSUME NEW i \in Jobs,
             ApiStep(i) \/ ApiDies(i) \/ CancelCheck(i) \/ CancelWrite(i) \/ CancelRemove(i) \/ Delete(i)
      PROVE  Over(j)' /\ starts'[j] = starts[j]
  <2>1. starts' = starts
    BY <1>3 DEF ApiStep, Check, Insert, Enqueue, EnqueueFails, Refuse, RunInline, ApiDies,
                CancelCheck, CancelWrite, CancelRemove, Delete
  <2>2. request'[j] = "done"
    BY <1>0, <1>3 DEF ApiStep, Check, Insert, Enqueue, EnqueueFails, Refuse, RunInline, ApiDies,
                CancelCheck, CancelWrite, CancelRemove, Delete, TypeOK
  <2>3. \A w \in Workers : on'[w] # j
    BY <1>0, <1>3 DEF ApiStep, Check, Insert, Enqueue, EnqueueFails, Refuse, RunInline, ApiDies,
                CancelCheck, CancelWrite, CancelRemove, Delete, TypeOK
  <2>4. state'[j] \in Terminal \cup {"deleted"}
    <3>1. CASE Insert(i)
      <4>1. i # j
        BY <1>0, <3>1 DEF Insert
      <4> QED
        BY <1>0, <3>1, <4>1 DEF Insert, Write, TypeOK
    <3>2. CASE Refuse(i) \/ CancelWrite(i)
      BY <1>0, <3>2, WriteEnds DEF Refuse, CancelWrite
    <3>3. CASE Delete(i)
      BY <1>0, <3>3 DEF Delete, TypeOK
    <3>4. CASE ~(Insert(i) \/ Refuse(i) \/ CancelWrite(i) \/ Delete(i))
      BY <1>0, <1>3, <3>4 DEF ApiStep, Check, Enqueue, EnqueueFails, RunInline, ApiDies,
                CancelCheck, CancelRemove
    <3> QED
      BY <3>1, <3>2, <3>3, <3>4
  <2> QED
    BY <2>1, <2>2, <2>3, <2>4 DEF Over
<1>4. ASSUME NEW i \in Jobs, Age(i) \/ RetryDue(i) \/ ReapFind(i) \/ ReapFail(i)
      PROVE  Over(j)' /\ starts'[j] = starts[j]
  <2>1. UNCHANGED <<request, on, starts>>
    BY <1>4 DEF Age, RetryDue, ReapFind, ReapFail
  <2>2. state'[j] \in Terminal \cup {"deleted"}
    BY <1>0, <1>4, WriteEnds DEF Age, RetryDue, ReapFind, ReapFail
  <2> QED
    BY <1>0, <2>1, <2>2 DEF Over
<1>5. CASE LockExpires \/ CooldownEnds \/ RedisRestarts \/ UNCHANGED vars
  BY <1>0, <1>5 DEF LockExpires, CooldownEnds, RedisRestarts, vars, Over
<1> QED
  BY <1>2, <1>3, <1>4, <1>5 DEF Next

\* The end of a job nobody is at work on is final: with or without the reaper, a
\* scheduler and inline execution, and whatever is lost or dies. A worker only loads an
\* active job, and only who has loaded a job makes it active.
THEOREM EndsAreFinal == Spec => OverIsFinal
<1>1. TypeOK /\ [Next]_vars => [\A j \in Jobs : Over(j) => Over(j)' /\ starts'[j] = starts[j]]_vars
  BY OverStep
<1> QED
  BY <1>1, TypeInit, TypeStep, PTL DEF Spec, OverIsFinal

--------------------------------------------------------------------------------
\* KeepsBoard

ActiveJobs == {j \in Jobs : state[j] \in Active}
RunningJobs == {on[w] : w \in {v \in Workers : phase[v] = "running"}}
LaunchedJobs == {j \in Jobs : starts[j] > 0}
OverJobs == {j \in Jobs : Over(j)}

\* A step makes one job active at most.
LEMMA OneActivated ==
  ASSUME TypeOK, [Next]_vars
  PROVE  \/ ActiveJobs' \subseteq ActiveJobs
         \/ \E j \in Jobs : ActiveJobs' \subseteq ActiveJobs \cup {j}
<1>1. ASSUME NEW j \in Jobs, NEW s, Write(j, s) \/ state' = [state EXCEPT ![j] = s]
      PROVE  ActiveJobs' \subseteq ActiveJobs \cup {j}
  BY <1>1 DEF ActiveJobs, Write, TypeOK
<1>2. CASE UNCHANGED state
  BY <1>2 DEF ActiveJobs
<1>3. ASSUME NEW j \in Jobs, Insert(j) \/ Refuse(j) \/ CancelWrite(j) \/ Delete(j) \/ ReapFail(j)
      PROVE  ActiveJobs' \subseteq ActiveJobs \cup {j}
  BY <1>1, <1>3 DEF Insert, Refuse, CancelWrite, Delete, ReapFail
<1>4. ASSUME NEW w \in Workers, Contend(w) \/ MarkRunning(w) \/ Finish(w), ~UNCHANGED state
      PROVE  \E j \in Jobs : ActiveJobs' \subseteq ActiveJobs \cup {j}
  <2>1. on[w] \in Jobs
    BY <1>4 DEF Contend, MarkRunning, Finish, TypeOK
  <2>2. \E s : Write(on[w], s) \/ state' = [state EXCEPT ![on[w]] = s]
    BY <1>4 DEF Contend, MarkRunning, Finish
  <2> QED
    BY <1>1, <2>1, <2>2
<1>5. ASSUME NEW w \in Workers,
             (\E j \in Jobs : Take(w, j)) \/ Acquire(w) \/ Launch(w) \/ Release(w) \/ WorkerDies(w)
      PROVE  UNCHANGED state
  BY <1>5 DEF Take, Acquire, Launch, Release, WorkerDies
<1>6. ASSUME NEW j \in Jobs,
             \/ Check(j) \/ Enqueue(j) \/ EnqueueFails(j) \/ RunInline(j) \/ ApiDies(j)
             \/ Age(j) \/ RetryDue(j) \/ ReapFind(j) \/ CancelCheck(j) \/ CancelRemove(j)
      PROVE  UNCHANGED state
  BY <1>6 DEF Check, Enqueue, EnqueueFails, RunInline, ApiDies, Age, RetryDue, ReapFind,
              CancelCheck, CancelRemove
<1>7. ASSUME LockExpires \/ CooldownEnds \/ RedisRestarts \/ UNCHANGED vars
      PROVE  UNCHANGED state
  BY <1>7 DEF LockExpires, CooldownEnds, RedisRestarts, vars
<1> QED
  BY <1>2, <1>3, <1>4, <1>5, <1>6, <1>7 DEF Next, WorkerStep, ApiStep

\* Nothing but a launch makes a run.
LEMMA OnlyLaunchRuns ==
  ASSUME TypeOK, [Next]_vars, \A w \in Workers : ~Launch(w)
  PROVE  RunningJobs' \subseteq RunningJobs /\ starts' = starts
<1> USE DEF apiVars, workerVars, bookkeeping
<1>1. starts' = starts /\ \A w \in Workers : phase'[w] = "running" => phase[w] = "running" /\ on'[w] = on[w]
  <2>1. ASSUME NEW w \in Workers, Idle(w)
        PROVE  \A v \in Workers : phase'[v] = "running" => phase[v] = "running" /\ on'[v] = on[v]
    BY <2>1 DEF Idle, TypeOK
  <2>2. ASSUME NEW w \in Workers, WorkerStep(w) \/ WorkerDies(w)
        PROVE  \A v \in Workers : phase'[v] = "running" => phase[v] = "running" /\ on'[v] = on[v]
    <3>1. ASSUME NEW j \in Jobs, Take(w, j)
          PROVE  \A v \in Workers : phase'[v] = "running" => phase[v] = "running" /\ on'[v] = on[v]
      BY <3>1 DEF Take, Load, TypeOK
    <3>2. CASE Acquire(w) \/ Finish(w)
      BY <3>2 DEF Acquire, Finish, TypeOK
    <3>3. CASE Contend(w) \/ Release(w) \/ WorkerDies(w)
      BY <2>1, <3>3 DEF Contend, Release, WorkerDies
    <3>4. CASE MarkRunning(w)
      BY <2>1, <3>4 DEF MarkRunning, TypeOK
    <3> QED
      BY <2>2, <3>1, <3>2, <3>3, <3>4 DEF WorkerStep
  <2>3. ASSUME NEW w \in Workers, WorkerStep(w) \/ WorkerDies(w) PROVE starts' = starts
    BY <2>3 DEF WorkerStep, Take, Acquire, Contend, MarkRunning, Finish, Release, WorkerDies
  <2>4. ASSUME NEW j \in Jobs, RunInline(j)
        PROVE  /\ starts' = starts
               /\ \A v \in Workers : phase'[v] = "running" => phase[v] = "running" /\ on'[v] = on[v]
    BY <2>4 DEF RunInline, TypeOK
  <2>5. ASSUME NEW j \in Jobs,
             \/ Check(j) \/ Insert(j) \/ Enqueue(j) \/ EnqueueFails(j) \/ Refuse(j) \/ ApiDies(j)
             \/ Age(j) \/ RetryDue(j) \/ ReapFind(j) \/ ReapFail(j)
             \/ CancelCheck(j) \/ CancelWrite(j) \/ CancelRemove(j) \/ Delete(j)
        PROVE  UNCHANGED <<phase, on, starts>>
    BY <2>5 DEF Check, Insert, Enqueue, EnqueueFails, Refuse, ApiDies, Age, RetryDue, ReapFind,
              ReapFail, CancelCheck, CancelWrite, CancelRemove, Delete
  <2>6. CASE LockExpires \/ CooldownEnds \/ RedisRestarts \/ UNCHANGED vars
    BY <2>6 DEF LockExpires, CooldownEnds, RedisRestarts, vars
  <2> QED
    BY <2>2, <2>3, <2>4, <2>5, <2>6 DEF Next, ApiStep
<1> QED
  BY <1>1 DEF RunningJobs

\* A launch is the board's.
LEMMA LaunchIsBoards ==
  ASSUME TypeOK, LockKept, OneTicket, NEW w \in Workers, Launch(w)
  PROVE  /\ on[w] \in Jobs /\ RunningJobs = {} /\ on[w] \notin LaunchedJobs \cup OverJobs
         /\ RunningJobs' = {on[w]} /\ LaunchedJobs' = LaunchedJobs \cup {on[w]}
         /\ ActiveJobs' = ActiveJobs /\ OverJobs' = OverJobs
<1>1. on[w] \in Jobs /\ phase[w] = "starting"
  BY DEF Launch, TypeOK
<1>2. \A v \in Workers : phase[v] # "running"
  BY <1>1 DEF LockKept
<1>3. /\ UNCHANGED <<state, request, on>>
      /\ phase' = [phase EXCEPT ![w] = "running"]
      /\ starts' = [starts EXCEPT ![on[w]] = @ + 1]
  BY DEF Launch, apiVars
<1>4. starts[on[w]] = 0
  BY <1>1 DEF OneTicket, Awaits
<1>5. RunningJobs = {} /\ on[w] \notin LaunchedJobs \cup OverJobs
  BY <1>1, <1>2, <1>4 DEF RunningJobs, LaunchedJobs, OverJobs, Over
<1>6. \A v \in Workers : phase'[v] = "running" <=> v = w
  BY <1>2, <1>3 DEF TypeOK
<1>7. RunningJobs' = {on[w]}
  BY <1>3, <1>6 DEF RunningJobs
<1>8. LaunchedJobs' = LaunchedJobs \cup {on[w]}
  BY <1>1, <1>3, <1>4 DEF LaunchedJobs, TypeOK
<1>9. ActiveJobs' = ActiveJobs /\ OverJobs' = OverJobs
  BY <1>3 DEF ActiveJobs, OverJobs, Over
<1> QED
  BY <1>1, <1>5, <1>7, <1>8, <1>9

\* What is over is neither active nor running.
LEMMA OverRests == OverJobs \subseteq Jobs /\ OverJobs \cap (ActiveJobs \cup RunningJobs) = {}
  BY DEF OverJobs, Over, ActiveJobs, RunningJobs

LEMMA BoardStep ==
  ASSUME TypeOK, TypeOK', OneActivePerIntent', LockKept, OneTicket, [Next]_vars
  PROVE  [Board!Next]_Board!vars
<1> USE DEF ActiveJobs, RunningJobs, LaunchedJobs, OverJobs
<1>1. ASSUME NEW w \in Workers, Launch(w) PROVE Board!Next
  BY <1>1, LaunchIsBoards DEF Board!Next, Board!Launch
<1>2. CASE \A w \in Workers : ~Launch(w)
  <2>1. RunningJobs' \in SUBSET RunningJobs /\ LaunchedJobs' = LaunchedJobs
    BY <1>2, OnlyLaunchRuns
  <2>2. OverJobs \subseteq OverJobs'
    BY OverStep
  <2>3. OverJobs' \in SUBSET Jobs /\ OverJobs' \cap (ActiveJobs' \cup RunningJobs') = {}
    BY OverRests DEF Over
  <2>4. Board!Distinct(ActiveJobs')
    BY DEF OneActivePerIntent, Board!Distinct
  <2>5. CASE \E j \in Jobs : ActiveJobs' \in SUBSET (ActiveJobs \cup {j})
    BY <2>1, <2>2, <2>3, <2>4, <2>5 DEF Board!Next, Board!Move
  <2>6. CASE ~\E j \in Jobs : ActiveJobs' \in SUBSET (ActiveJobs \cup {j})
    <3>1. ActiveJobs' \subseteq ActiveJobs
      BY <2>6, OneActivated
    <3>2. Jobs = {}
      BY <2>6, <3>1
    <3>3. RunningJobs = {} /\ RunningJobs' = {}
      BY <2>1, <3>2 DEF TypeOK
    <3> QED
      BY <2>1, <3>2, <3>3 DEF Board!vars
  <2> QED
    BY <2>5, <2>6
<1> QED
  BY <1>1, <1>2

\* The account's jobs are a board for any jobs, workers and intents, where no live
\* worker loses its lock and no request is executed inline: whatever Redis loses or
\* delivers unacknowledged, whoever dies and whatever the reaper fails.
THEOREM BoardIsKept ==
  ASSUME "lock_lost" \notin Disturbances, InlineFallback = FALSE
  PROVE  Spec => KeepsBoard
<1> DEFINE IInv == TypeOK /\ OneActivePerIntent /\ LockKept /\ OneTicket
<1>1. Init => IInv
  BY TypeInit, JobsAssumption DEF Init, OneActivePerIntent, LockKept, OneTicket, Unqueued, Awaits
<1>2. IInv /\ [Next]_vars => IInv'
  BY TypeStep, UniqueStep, LockKeptStep, TicketStep
<1>3. Init => Board!Init
  BY JobsAssumption DEF Init, Board!Init, Over
<1>4. IInv /\ IInv' /\ [Next]_vars => [Board!Next]_Board!vars
  BY BoardStep
<1> QED
  BY <1>1, <1>2, <1>3, <1>4, PTL DEF Spec, KeepsBoard, Board!Spec

================================================================================
