------------------------------ MODULE AccountLock ------------------------------
(***************************************************************************)
(* The per-account execution lock: the lock columns of one                 *)
(* AccountRuntimeState row (lock_owner, lock_epoch, updated_at) and the    *)
(* workers that take, renew and give back the lock through                 *)
(* services/locks.py, while other parts of the backend also write the row. *)
(*                                                                         *)
(* acquire_account_lock is one conditional UPDATE. Every other operation   *)
(* is a SELECT that compares owner and epoch followed by a separate UPDATE *)
(* and COMMIT under READ COMMITTED, so each is two steps here.             *)
(*                                                                         *)
(* Time is abstracted to the one question the code asks of updated_at: is  *)
(* it older than lock_stale_seconds? Ageing is a step of the environment.  *)
(* recovery_marker is data no property of this module tells apart; the     *)
(* hard stop it can say is ProfileRun's flagged.                           *)
(***************************************************************************)
EXTENDS Naturals

CONSTANTS
  Owners,      \* owner strings "worker:{pid}:{job_id}", one per worker process and job
  NoOwner,     \* NULL in the lock_owner column
  MaxEpoch,    \* bound: grants after the epoch has reached it are not explored
  MaxTouches   \* bound: writes to the row by other parts of the backend

ASSUME NoOwnerAssumption == NoOwner \notin Owners
ASSUME BoundsAssumption == MaxEpoch \in Nat /\ MaxTouches \in Nat

VARIABLES
  lock_owner,  \* the lock_owner column
  lock_epoch,  \* the lock_epoch column
  stale,       \* updated_at < now - lock_stale_seconds
  pc,          \* where each owner is in its use of the lock
  token,       \* the epoch acquire_account_lock returned to each owner
  view,        \* verdict of the row an owner's session keeps cached, if it does
  pending,     \* columns a foreign transaction has decided to write
  touches      \* number of foreign writes so far, for the bound

row == <<lock_owner, lock_epoch, stale>>
vars == <<lock_owner, lock_epoch, stale, pc, token, view, pending, touches>>

\* Between the SELECT that passed the comparison and the COMMIT.
Checked == {"beat", "journal", "release"}

\* The worker has a token: it believes it holds the lock.
HoldingStates == {"held", "stopping"} \cup Checked

\* Foreign transactions: the columns their UPDATE will set. SQLAlchemy writes a
\* column only when its new value differs from the one it loaded.
NothingPending == [active |-> FALSE, clearOwner |-> FALSE, zeroEpoch |-> FALSE]
Writing(clear, zero) == [active |-> TRUE, clearOwner |-> clear, zeroEpoch |-> zero]

TypeOK ==
  /\ lock_owner \in Owners \cup {NoOwner}
  /\ lock_epoch \in Nat
  /\ stale \in BOOLEAN
  /\ pc \in [Owners -> {"idle", "readback", "crashed"} \cup HoldingStates]
  /\ token \in [Owners -> Nat]
  /\ view \in [Owners -> {"none", "mine", "lost"}]
  /\ pending \in [active : BOOLEAN, clearOwner : BOOLEAN, zeroEpoch : BOOLEAN]
  /\ touches \in Nat

Init ==
  /\ lock_owner = NoOwner
  /\ lock_epoch = 0
  /\ stale = FALSE
  /\ pc = [p \in Owners |-> "idle"]
  /\ token = [p \in Owners |-> 0]
  /\ view = [p \in Owners |-> "none"]
  /\ pending = NothingPending
  /\ touches = 0

Goto(p, target) == pc' = [pc EXCEPT ![p] = target]

\* The worker's session is closed; what it cached is gone.
Finish(p) == Goto(p, "idle") /\ view' = [view EXCEPT ![p] = "none"]

--------------------------------------------------------------------------------
\* acquire_account_lock

\* Variant for mutation: the staleness disjunct of the WHERE clause is missing.
AcquirableIfFree == lock_owner = NoOwner

\* The WHERE clause of the conditional UPDATE.
Acquirable == lock_owner = NoOwner \/ stale

\* UPDATE ... WHERE acquirable; COMMIT. A rowcount other than 1 is a rollback
\* that changes nothing, so only the successful UPDATE is a step.
Acquire(p) ==
  /\ pc[p] = "idle"
  /\ Acquirable
  /\ lock_epoch < MaxEpoch
  /\ lock_owner' = p
  /\ lock_epoch' = lock_epoch + 1
  /\ stale' = FALSE
  /\ Goto(p, "readback")
  /\ UNCHANGED <<token, view, pending, touches>>

\* Variant for mutation: the None of a failed acquisition is used as a token.
ReadBackUnchecked(p) ==
  /\ pc[p] = "readback"
  /\ token' = [token EXCEPT ![p] = IF lock_owner = p THEN lock_epoch ELSE NoOwner]
  /\ Goto(p, "held")
  /\ UNCHANGED <<row, view, pending, touches>>

\* The SELECT after the COMMIT: the epoch is read back, not remembered, and a
\* row that already belongs to someone else makes the acquisition fail.
ReadBack(p) ==
  /\ pc[p] = "readback"
  /\ IF lock_owner = p
     THEN token' = [token EXCEPT ![p] = lock_epoch] /\ Goto(p, "held")
     ELSE UNCHANGED token /\ Goto(p, "idle")
  /\ UNCHANGED <<row, view, pending, touches>>

--------------------------------------------------------------------------------
\* heartbeat_lock, release_account_lock, fenced_write_allowed

\* Variant for mutation: the comparison forgets the owner.
FencedByEpoch(p) == lock_epoch = token[p]

\* The comparison all three make against the row they SELECTed.
Fenced(p) == lock_owner = p /\ lock_epoch = token[p]

\* The same comparison as the worker evaluates it: session.get serves a row the
\* session still references without reading it again.
FencePasses(p) == IF view[p] = "none" THEN Fenced(p) ELSE view[p] = "mine"

\* The SELECT of any of the three, with the comparison passing. No heartbeat
\* follows a hard stop.
CheckPasses(p, write) ==
  /\ pc[p] = "held"
  /\ FencePasses(p)
  /\ write = "beat" => view[p] = "none"
  /\ Goto(p, write)
  /\ UNCHANGED <<row, token, view, pending, touches>>

\* A failed comparison returns False. The worker ignores it for a heartbeat
\* and a journal write and goes on; after a failed release it is finished.
ReleaseRefused(p) ==
  /\ pc[p] = "held"
  /\ ~FencePasses(p)
  /\ Finish(p)
  /\ UNCHANGED <<row, token, pending, touches>>

\* UPDATE updated_at (the row is found by its key, not by owner or epoch).
HeartbeatLands(p) ==
  /\ pc[p] = "beat"
  /\ stale' = FALSE
  /\ Goto(p, "held")
  /\ UNCHANGED <<lock_owner, lock_epoch, token, view, pending, touches>>

\* UPDATE lock_owner = NULL, updated_at = now, again by key alone.
ReleaseLands(p) ==
  /\ pc[p] = "release"
  /\ lock_owner' = NoOwner
  /\ stale' = FALSE
  /\ Finish(p)
  /\ UNCHANGED <<lock_epoch, token, pending, touches>>

\* The commit of mark_job_running or mark_terminal, which writes the job row.
JournalLands(p) ==
  /\ pc[p] = "journal"
  /\ Goto(p, "held")
  /\ UNCHANGED <<row, token, view, pending, touches>>

\* _mark_account_hard_stopped loads account.runtime_state, which the session
\* then keeps (job.account references it), and writes it without a fence.
HardStopLoads(p) ==
  /\ pc[p] = "held"
  /\ view[p] = "none"
  /\ view' = [view EXCEPT ![p] = IF Fenced(p) THEN "mine" ELSE "lost"]
  /\ Goto(p, "stopping")
  /\ UNCHANGED <<row, token, pending, touches>>

HardStopLands(p) ==
  /\ pc[p] = "stopping"
  /\ stale' = FALSE
  /\ Goto(p, "held")
  /\ UNCHANGED <<lock_owner, lock_epoch, token, view, pending, touches>>

\* The worker process is killed; nothing it had pending lands.
Crash(p) ==
  /\ pc[p] \in {"readback"} \cup HoldingStates
  /\ Goto(p, "crashed")
  /\ UNCHANGED <<row, token, view, pending, touches>>

--------------------------------------------------------------------------------
\* Everything else that reaches the row

\* lock_stale_seconds pass since updated_at.
Age ==
  /\ ~stale
  /\ stale' = TRUE
  /\ UNCHANGED <<lock_owner, lock_epoch, pc, token, view, pending, touches>>

\* Variant for mutation: the warmup claim forgets that the lock must be free.
WarmupTickAnyOwner ==
  /\ touches < MaxTouches
  /\ lock_epoch < MaxEpoch
  /\ touches' = touches + 1
  /\ lock_epoch' = lock_epoch + 1
  /\ stale' = FALSE
  /\ UNCHANGED <<lock_owner, pc, token, view, pending>>

\* The warmup worker claims a free lock and gives it back in one transaction.
WarmupTick ==
  /\ touches < MaxTouches
  /\ lock_owner = NoOwner
  /\ lock_epoch < MaxEpoch
  /\ touches' = touches + 1
  /\ lock_epoch' = lock_epoch + 1
  /\ stale' = FALSE
  /\ UNCHANGED <<lock_owner, pc, token, view, pending>>

\* A transaction of another component loads the row ...
ForeignLoads(write) ==
  /\ ~pending.active
  /\ touches < MaxTouches
  /\ touches' = touches + 1
  /\ pending' = write
  /\ UNCHANGED <<row, pc, token, view>>

\* ... materialize_auth_result, ensure_execution_usable: only updated_at moves.
InspectionLoads == ForeignLoads(Writing(FALSE, FALSE))

\* ... reap_stale_jobs, on a row not touched for stale_job_timeout_seconds.
ReaperLoads == stale /\ ForeignLoads(Writing(lock_owner # NoOwner, FALSE))

\* ... create_batch, reusing the account row of an abandoned batch item.
BatchResetLoads == ForeignLoads(Writing(lock_owner # NoOwner, lock_epoch # 0))

\* ... and commits, overwriting the columns it decided to write.
ForeignLands ==
  /\ pending.active
  /\ lock_owner' = IF pending.clearOwner THEN NoOwner ELSE lock_owner
  /\ lock_epoch' = IF pending.zeroEpoch THEN 0 ELSE lock_epoch
  /\ stale' = FALSE
  /\ pending' = NothingPending
  /\ UNCHANGED <<pc, token, view, touches>>

--------------------------------------------------------------------------------
OwnerStep(p) ==
  \/ Acquire(p)
  \/ ReadBack(p)
  \/ \E w \in Checked : CheckPasses(p, w)
  \/ ReleaseRefused(p)
  \/ HeartbeatLands(p)
  \/ ReleaseLands(p)
  \/ JournalLands(p)
  \/ HardStopLoads(p)
  \/ HardStopLands(p)
  \/ Crash(p)

Environment ==
  \/ Age
  \/ WarmupTick
  \/ InspectionLoads
  \/ ReaperLoads
  \/ BatchResetLoads
  \/ ForeignLands

Next == (\E p \in Owners : OwnerStep(p)) \/ Environment

Spec == Init /\ [][Next]_vars

\* The only fairness: time passes, and a transaction that was begun commits.
FairSpec == Spec /\ WF_vars(Age) /\ WF_vars(ForeignLands)

--------------------------------------------------------------------------------
\* Correctness

\* What a process is to the lock. It holds it from the UPDATE that granted it,
\* and it is deposed once the row no longer names it and its epoch.
Standing(p) ==
  IF pc[p] \in {"idle", "crashed"} THEN "out"
  ELSE IF /\ lock_owner = p
          /\ pc[p] = "readback" \/ lock_epoch = token[p]
       THEN "holder"
       ELSE "deposed"

\* A comparison that passed lets the process write without looking again.
Licensed(p) == pc[p] \in HoldingStates /\ (pc[p] \in Checked \/ view[p] = "mine")

\* The lock keeps the promise of a fenced lease: there is at most one holder, a
\* live lease is not taken over, and a worker that was deposed is never
\* licensed to write again, however its SELECTs and COMMITs interleave with
\* takeovers, reaping and account resets.
Lease == INSTANCE FencedLease
  WITH standing <- [p \in Owners |-> Standing(p)],
       licensed <- [p \in Owners |-> Licensed(p)],
       lapsed <- stale
LeaseSpec == Lease!Spec

\* The epoch column follows the grants: while a worker that has its token is
\* named by the row, the epoch is that token or was zeroed by an account reset.
\* (An epoch moved under its owner by anything else would make every fenced
\* write of a healthy worker fail.)
TokenCurrent ==
  \A p \in Owners :
    (lock_owner = p /\ pc[p] \in HoldingStates) => lock_epoch \in {token[p], 0}

\* A lock named after a worker that died, or whose release was refused, becomes
\* acquirable again: nobody has to clean it up for the next job to run.
AbandonedLockRecovers ==
  \A p \in Owners :
    (lock_owner = p /\ pc[p] \in {"idle", "crashed"}) ~> (Acquirable \/ lock_owner # p)

================================================================================
