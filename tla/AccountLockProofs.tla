--------------------------- MODULE AccountLockProofs ---------------------------
(***************************************************************************)
(* Theorems about AccountLock for any set of owners and any bounds: type   *)
(* correctness, TokenCurrent, and that the lock implements FencedLease.    *)
(*                                                                         *)
(* The inductive invariant has three parts. TokenCurrent is needed for the *)
(* refinement: without it an account reset that zeroes the epoch could     *)
(* turn a deposed worker whose token is 0 back into a holder. FreshView    *)
(* says that a session that has not been granted the lock caches nothing.  *)
(***************************************************************************)
EXTENDS AccountLock, TLAPS

FreshView == \A p \in Owners : pc[p] \in {"idle", "readback"} => view[p] = "none"

IInv == TypeOK /\ TokenCurrent /\ FreshView

--------------------------------------------------------------------------------
\* The initial row and workers satisfy every part of the invariant.
LEMMA InitInv == Init => IInv
<1> SUFFICES ASSUME Init PROVE IInv
  OBVIOUS
<1>1. TypeOK
  BY DEF Init, TypeOK, NothingPending
<1>2. TokenCurrent
  BY NoOwnerAssumption DEF Init, TokenCurrent
<1>3. FreshView
  BY DEF Init, FreshView
<1> QED
  BY <1>1, <1>2, <1>3 DEF IInv

USE DEF row, Goto, Finish, HoldingStates, Checked

\* No step of a worker disturbs the invariant.
LEMMA OwnerStepInv ==
  ASSUME IInv, NEW q \in Owners, OwnerStep(q)
  PROVE  IInv'
<1> USE NoOwnerAssumption, BoundsAssumption DEF IInv, TypeOK, TokenCurrent, FreshView
<1>1. CASE Acquire(q)
  <2> USE <1>1 DEF Acquire
  <2>1. TypeOK'
    <3>1. lock_owner' \in Owners \cup {NoOwner}
      OBVIOUS
    <3>2. lock_epoch' \in Nat
      OBVIOUS
    <3>3. stale' \in BOOLEAN /\ pc' \in [Owners -> {"idle", "readback", "crashed"} \cup HoldingStates]
      OBVIOUS
    <3> QED
      BY <3>1, <3>2, <3>3
  <2>2. TokenCurrent'
    OBVIOUS
  <2>3. FreshView'
    OBVIOUS
  <2> QED
    BY <2>1, <2>2, <2>3
<1>2. CASE ReadBack(q)
  BY <1>2 DEF ReadBack
<1>3. CASE \E w \in Checked : CheckPasses(q, w)
  BY <1>3 DEF CheckPasses
<1>4. CASE ReleaseRefused(q)
  BY <1>4 DEF ReleaseRefused
<1>5. CASE HeartbeatLands(q)
  BY <1>5 DEF HeartbeatLands
<1>6. CASE ReleaseLands(q)
  BY <1>6 DEF ReleaseLands
<1>7. CASE JournalLands(q)
  BY <1>7 DEF JournalLands
<1>8. CASE HardStopLoads(q)
  BY <1>8 DEF HardStopLoads
<1>9. CASE HardStopLands(q)
  BY <1>9 DEF HardStopLands
<1>10. CASE Crash(q)
  BY <1>10 DEF Crash
<1> QED
  BY <1>1, <1>2, <1>3, <1>4, <1>5, <1>6, <1>7, <1>8, <1>9, <1>10 DEF OwnerStep

\* Nor does any write of the rest of the backend.
LEMMA EnvironmentInv ==
  ASSUME IInv, Environment
  PROVE  IInv'
<1> USE NoOwnerAssumption, BoundsAssumption DEF IInv, TypeOK, TokenCurrent, FreshView
<1>1. CASE Age
  BY <1>1 DEF Age
<1>2. CASE WarmupTick
  <2> USE <1>2 DEF WarmupTick
  <2>1. TypeOK'
    <3>1. lock_epoch' \in Nat /\ touches' \in Nat
      OBVIOUS
    <3> QED
      BY <3>1
  <2>2. TokenCurrent'
    OBVIOUS
  <2>3. FreshView'
    OBVIOUS
  <2> QED
    BY <2>1, <2>2, <2>3
<1>3. ASSUME NEW clear \in BOOLEAN, NEW zero \in BOOLEAN,
             ForeignLoads(Writing(clear, zero))
      PROVE  IInv'
  BY <1>3 DEF ForeignLoads, Writing
<1>4. CASE InspectionLoads
  BY <1>3, <1>4 DEF InspectionLoads
<1>5. CASE ReaperLoads
  BY <1>3, <1>5 DEF ReaperLoads
<1>6. CASE BatchResetLoads
  BY <1>3, <1>6 DEF BatchResetLoads
<1>7. CASE ForeignLands
  BY <1>7 DEF ForeignLands, NothingPending
<1> QED
  BY <1>1, <1>2, <1>4, <1>5, <1>6, <1>7 DEF Environment

LEMMA StutterInv == ASSUME IInv, UNCHANGED vars PROVE IInv'
BY DEF IInv, TypeOK, TokenCurrent, FreshView, vars

LEMMA NextInv == IInv /\ [Next]_vars => IInv'
BY OwnerStepInv, EnvironmentInv, StutterInv DEF Next

\* The three parts hold in every reachable state.
LEMMA Invariance == Spec => []IInv
BY InitInv, NextInv, PTL DEF Spec

\* The columns and the workers' variables keep their types.
THEOREM TypeCorrect == Spec => []TypeOK
BY Invariance, PTL DEF IInv

\* The epoch never moves under a worker that the row names, except to zero.
THEOREM EpochFollowsGrants == Spec => []TokenCurrent
BY Invariance, PTL DEF IInv

--------------------------------------------------------------------------------
\* The refinement. standingOf and licensedOf are what FencedLease sees.
standingOf == [p \in Owners |-> Standing(p)]
licensedOf == [p \in Owners |-> Licensed(p)]

LEMMA InitRefines == Init => Lease!Init
BY DEF Init, Lease!Init, Standing, Licensed

\* A worker keeps its standing and licence when nothing they depend on moves.
LEMMA SameView ==
  ASSUME NEW q \in Owners,
         lock_owner' = lock_owner, lock_epoch' = lock_epoch,
         pc'[q] = pc[q], token'[q] = token[q], view'[q] = view[q]
  PROVE  Standing(q)' = Standing(q) /\ Licensed(q)' = Licensed(q)
BY DEF Standing, Licensed

\* What it takes for a step to be a stutter, a departure, a licence, a landing
\* or a renewal of the lease.
LEMMA Stutters ==
  ASSUME \A q \in Owners : Standing(q)' = Standing(q) /\ Licensed(q)' = Licensed(q),
         stale' = stale
  PROVE  UNCHANGED Lease!vars
BY DEF Lease!vars

LEMMA Leaves ==
  ASSUME NEW p \in Owners,
         \A q \in Owners \ {p} : Standing(q)' = Standing(q) /\ Licensed(q)' = Licensed(q),
         Standing(p)' = "out", ~Licensed(p)', stale' = stale
  PROVE  Lease!Leave(p)
BY DEF Lease!Leave, Licensed

LEMMA Licenses ==
  ASSUME NEW p \in Owners,
         \A q \in Owners \ {p} : Licensed(q)' = Licensed(q),
         \A q \in Owners : Standing(q)' = Standing(q),
         Standing(p) = "holder", Licensed(p)', stale' = stale
  PROVE  Lease!License(p)
BY DEF Lease!License, Licensed

LEMMA Lands ==
  ASSUME NEW p \in Owners,
         \A q \in Owners \ {p} : Licensed(q)' = Licensed(q),
         \A q \in Owners : Standing(q)' = Standing(q),
         Licensed(p), stale' \in {stale, FALSE}
  PROVE  Lease!Land(p)
<1>1. Licensed(p)' \in BOOLEAN
  BY DEF Licensed
<1>2. licensedOf' = [licensedOf EXCEPT ![p] = Licensed(p)']
  BY DEF licensedOf
<1> QED
  BY <1>1, <1>2 DEF Lease!Land, licensedOf

LEMMA Renews ==
  ASSUME \A q \in Owners : Standing(q)' = Standing(q) /\ Licensed(q)' = Licensed(q),
         stale' = FALSE
  PROVE  Lease!Renew
BY DEF Lease!Renew

\* An acquisition admits the worker and deposes the holder it displaces.
LEMMA AcquireAdmits ==
  ASSUME IInv, NEW p \in Owners, Acquire(p)
  PROVE  Lease!Admit(p)
<1> USE DEF Acquire, IInv, TypeOK
<1>1. Standing(p) = "out" /\ Standing(p)' = "holder"
  BY DEF Standing
<1>2. \A q \in Owners \ {p} :
        Standing(q)' = IF Standing(q) = "holder" THEN "deposed" ELSE Standing(q)
  BY DEF Standing
<1>3. \A q \in Owners : Licensed(q)' = Licensed(q)
  BY DEF Licensed, FreshView
<1>4. Lease!Vacant \/ stale
  BY NoOwnerAssumption DEF Acquirable, Lease!Vacant, Standing
<1> QED
  BY <1>1, <1>2, <1>3, <1>4 DEF Lease!Admit, Lease!Deposing

\* Reading the epoch back keeps the holder, and sends a worker that has
\* already been displaced out.
LEMMA ReadBackRefines ==
  ASSUME IInv, NEW p \in Owners, ReadBack(p)
  PROVE  Lease!Leave(p) \/ UNCHANGED Lease!vars
<1> USE DEF ReadBack, IInv, TypeOK
<1>1. \A q \in Owners \ {p} : Standing(q)' = Standing(q) /\ Licensed(q)' = Licensed(q)
  BY SameView
<1>2. Licensed(p)' = Licensed(p) /\ ~Licensed(p)'
  BY DEF Licensed, FreshView
<1>3. CASE lock_owner = p
  <2>1. Standing(p)' = Standing(p)
    BY <1>3 DEF Standing
  <2> QED
    BY <1>1, <1>2, <2>1, Stutters
<1>4. CASE lock_owner # p
  <2>1. Standing(p)' = "out"
    BY <1>4 DEF Standing
  <2> QED
    BY <1>1, <1>2, <2>1, Leaves
<1> QED
  BY <1>3, <1>4

\* A comparison is made by the holder, or repeats one it already holds.
LEMMA CheckRefines ==
  ASSUME IInv, NEW p \in Owners, NEW w \in Checked, CheckPasses(p, w)
  PROVE  Lease!License(p) \/ UNCHANGED Lease!vars
<1> USE DEF CheckPasses, IInv, TypeOK
<1>1. \A q \in Owners : Standing(q)' = Standing(q)
  BY DEF Standing
<1>2. \A q \in Owners \ {p} : Licensed(q)' = Licensed(q)
  BY SameView
<1>3. Licensed(p)'
  BY DEF Licensed
<1>4. CASE view[p] = "none"
  <2>1. Standing(p) = "holder"
    BY <1>4 DEF FencePasses, Fenced, Standing
  <2> QED
    BY <1>1, <1>2, <1>3, <2>1, Licenses
<1>5. CASE view[p] # "none"
  <2>1. Licensed(p)' = Licensed(p)
    BY <1>5 DEF FencePasses, Licensed
  <2> QED
    BY <1>1, <1>2, <2>1, Stutters
<1> QED
  BY <1>4, <1>5

LEMMA ReleaseRefusedRefines ==
  ASSUME IInv, NEW p \in Owners, ReleaseRefused(p)
  PROVE  Lease!Leave(p)
<1> USE DEF ReleaseRefused, IInv, TypeOK
<1>1. \A q \in Owners \ {p} : Standing(q)' = Standing(q) /\ Licensed(q)' = Licensed(q)
  BY SameView
<1>2. Standing(p)' = "out" /\ ~Licensed(p)'
  BY DEF Standing, Licensed
<1> QED
  BY <1>1, <1>2, Leaves

LEMMA CrashRefines ==
  ASSUME IInv, NEW p \in Owners, Crash(p)
  PROVE  Lease!Leave(p)
<1> USE DEF Crash, IInv, TypeOK
<1>1. \A q \in Owners \ {p} : Standing(q)' = Standing(q) /\ Licensed(q)' = Licensed(q)
  BY SameView
<1>2. Standing(p)' = "out" /\ ~Licensed(p)'
  BY DEF Standing, Licensed
<1> QED
  BY <1>1, <1>2, Leaves

\* A heartbeat or a journal write lands under the licence its SELECT gave.
LEMMA WriteRefines ==
  ASSUME IInv, NEW p \in Owners, HeartbeatLands(p) \/ JournalLands(p)
  PROVE  Lease!Land(p)
<1> USE DEF HeartbeatLands, JournalLands, IInv, TypeOK
<1>1. \A q \in Owners \ {p} : Licensed(q)' = Licensed(q)
  BY DEF Licensed
<1>2. \A q \in Owners : Standing(q)' = Standing(q)
  BY DEF Standing
<1>3. Licensed(p) /\ stale' \in {stale, FALSE}
  BY DEF Licensed
<1> QED
  BY <1>1, <1>2, <1>3, Lands

\* A release that lands frees the row even when it names another worker by then.
LEMMA ReleaseRefines ==
  ASSUME IInv, NEW p \in Owners, ReleaseLands(p)
  PROVE  Lease!GiveBack(p)
<1> USE DEF ReleaseLands, IInv, TypeOK
<1>1. \A q \in Owners \ {p} :
        Standing(q)' = IF Standing(q) = "holder" THEN "deposed" ELSE Standing(q)
  BY NoOwnerAssumption DEF Standing
<1>2. \A q \in Owners \ {p} : Licensed(q)' = Licensed(q)
  BY DEF Licensed
<1>3. Standing(p)' = "out" /\ Licensed(p)' = FALSE /\ Licensed(p)
  BY DEF Standing, Licensed
<1> QED
  BY <1>1, <1>2, <1>3 DEF Lease!GiveBack, Lease!Deposing

\* A hard stop compares once and then writes without looking again.
LEMMA HardStopRefines ==
  ASSUME IInv, NEW p \in Owners, HardStopLoads(p) \/ HardStopLands(p)
  PROVE  Lease!License(p) \/ Lease!Renew \/ UNCHANGED Lease!vars
<1> USE DEF IInv, TypeOK
<1>1. CASE HardStopLoads(p)
  <2> USE <1>1 DEF HardStopLoads
  <2>1. \A q \in Owners : Standing(q)' = Standing(q)
    BY DEF Standing
  <2>2. \A q \in Owners \ {p} : Licensed(q)' = Licensed(q)
    BY SameView
  <2>3. CASE Fenced(p)
    <3>1. Standing(p) = "holder" /\ Licensed(p)'
      BY <2>3 DEF Fenced, Standing, Licensed
    <3> QED
      BY <2>1, <2>2, <3>1, Licenses
  <2>4. CASE ~Fenced(p)
    <3>1. Licensed(p)' = Licensed(p)
      BY <2>4 DEF Licensed
    <3> QED
      BY <2>1, <2>2, <3>1, Stutters
  <2> QED
    BY <2>3, <2>4
<1>2. CASE HardStopLands(p)
  <2> USE <1>2 DEF HardStopLands
  <2>1. \A q \in Owners : Standing(q)' = Standing(q) /\ Licensed(q)' = Licensed(q)
    BY DEF Standing, Licensed
  <2> QED
    BY <2>1, Renews
<1> QED
  BY <1>1, <1>2

\* While nobody owns the row there is no holder, so moving the epoch is no news.
LEMMA WarmupRefines ==
  ASSUME IInv, WarmupTick
  PROVE  Lease!Renew
<1> USE DEF WarmupTick, IInv, TypeOK
<1>1. \A q \in Owners : Standing(q)' = Standing(q)
  BY NoOwnerAssumption DEF Standing
<1>2. \A q \in Owners : Licensed(q)' = Licensed(q)
  BY DEF Licensed
<1> QED
  BY <1>1, <1>2, Renews

\* A foreign write revokes the lease if it frees the row or zeroes the epoch of
\* a worker that has its token; otherwise it renews it.
LEMMA ForeignRefines ==
  ASSUME IInv, ForeignLands
  PROVE  Lease!Revoke \/ Lease!Renew
<1> USE DEF ForeignLands, IInv, TypeOK
<1>1. \A q \in Owners : Licensed(q)' = Licensed(q)
  BY DEF Licensed
<1>2. \A q \in Owners : Standing(q) # "holder" => Standing(q)' = Standing(q)
  BY NoOwnerAssumption DEF Standing, TokenCurrent
<1>3. \A q \in Owners : Standing(q)' \in {Standing(q), "deposed"}
  BY NoOwnerAssumption DEF Standing, TokenCurrent
<1>4. \A q, r \in Owners : Standing(q) = "holder" /\ Standing(r) = "holder" => q = r
  BY DEF Standing
<1>5. CASE \A q \in Owners : Standing(q)' = Standing(q)
  BY <1>1, <1>5, Renews
<1>6. CASE \E q \in Owners : Standing(q)' # Standing(q)
  <2>1. \A q \in Owners :
          Standing(q)' = IF Standing(q) = "holder" THEN "deposed" ELSE Standing(q)
    BY <1>2, <1>3, <1>4, <1>6
  <2> QED
    BY <1>1, <2>1 DEF Lease!Revoke, Lease!Deposing
<1> QED
  BY <1>5, <1>6

LEMMA EnvironmentRefines ==
  ASSUME IInv, Environment
  PROVE  Lease!Next \/ UNCHANGED Lease!vars
<1>1. CASE Age
  <2>1. \A q \in Owners : Standing(q)' = Standing(q) /\ Licensed(q)' = Licensed(q)
    BY <1>1, SameView DEF Age
  <2> QED
    BY <1>1, <2>1 DEF Age, Lease!Lapse, Lease!Next
<1>2. CASE InspectionLoads \/ ReaperLoads \/ BatchResetLoads
  <2>1. UNCHANGED <<row, pc, token, view>>
    BY <1>2 DEF InspectionLoads, ReaperLoads, BatchResetLoads, ForeignLoads
  <2> QED
    BY <2>1, SameView, Stutters
<1> QED
  BY <1>1, <1>2, WarmupRefines, ForeignRefines DEF Environment, Lease!Next

LEMMA OwnerStepRefines ==
  ASSUME IInv, NEW p \in Owners, OwnerStep(p)
  PROVE  Lease!Next \/ UNCHANGED Lease!vars
<1>1. CASE \E w \in Checked : CheckPasses(p, w)
  BY <1>1, CheckRefines DEF Lease!Next
<1>2. CASE HeartbeatLands(p) \/ JournalLands(p)
  BY <1>2, WriteRefines DEF Lease!Next
<1>3. CASE HardStopLoads(p) \/ HardStopLands(p)
  BY <1>3, HardStopRefines DEF Lease!Next
<1>4. CASE ReadBack(p)
  BY <1>4, ReadBackRefines DEF Lease!Next
<1> QED
  BY <1>1, <1>2, <1>3, <1>4, AcquireAdmits, ReleaseRefusedRefines, ReleaseRefines,
     CrashRefines DEF OwnerStep, Lease!Next

LEMMA StepRefines == IInv /\ [Next]_vars => [Lease!Next]_(Lease!vars)
<1>1. ASSUME UNCHANGED vars PROVE UNCHANGED Lease!vars
  BY <1>1, SameView, Stutters DEF vars
<1> QED
  BY <1>1, OwnerStepRefines, EnvironmentRefines DEF Next

\* The lock of services/locks.py, with every write the rest of the backend makes
\* to its row, implements a fenced lease for any number of workers.
THEOREM LockIsFencedLease == Spec => LeaseSpec
BY InitRefines, StepRefines, Invariance, PTL DEF Spec, LeaseSpec, Lease!Spec

================================================================================
