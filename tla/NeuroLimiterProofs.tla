---------------------------- MODULE NeuroLimiterProofs --------------------------
(***************************************************************************)
(* Theorems about NeuroLimiter for any senders, limits and times: type     *)
(* correctness; WindowKept; and, where a sender ends before the delay      *)
(* does, DelayKept and ParallelKept. WindowKept and DelayKept assume that  *)
(* an attempt that failed was not posted ("late_error" is not among the    *)
(* disturbances).                                                          *)
(*                                                                         *)
(* WindowKept rests on Accounted: the counter covers the comments posted   *)
(* and the reservations that may still be posted or given back. DelayKept  *)
(* rests on Spaced: while somebody sends the delay runs on, so that nobody *)
(* else gets a reservation, and no rollback ends a delay of another; and   *)
(* ParallelKept on Serial, that therefore one sender at a time is at work. *)
(***************************************************************************)
EXTENDS NeuroLimiter, FiniteSetTheorems, TLAPS

\* Reservations of the window that may still be posted or given back.
Open == {s \in Senders : pc[s] \in {"reserved", "rejected"} /\ here[s]}

Accounted == posts + Cardinality(Open) <= win /\ win <= MaxPerWindow

Spaced ==
  /\ \A s \in Senders : pc[s] \in Sending =>
       /\ delay + age[s] >= MinDelay
       /\ \A t \in Senders : pc[t] \in Sending => s = t
  /\ \A s \in Senders : pc[s] \in {"reserved", "rejected"} => quiet >= ShortestGap
  /\ \/ delay + quiet >= ShortestGap
     \/ \E s \in Senders : pc[s] \in {"posted", "released"}

--------------------------------------------------------------------------------
\* Types

LEMMA TypeInit == Init => TypeOK
  BY LimitsAssumption DEF Init, TypeOK

LEMMA SenderType ==
  ASSUME TypeOK, NEW s \in Senders, Reserve(s) \/ SenderStep(s) \/ Abandon(s)
  PROVE  TypeOK'
<1> USE LimitsAssumption DEF TypeOK, Goto, Sending, keys, clock
<1>1. CASE Reserve(s)
  BY <1>1 DEF Reserve, CountUp, Lesser
<1>2. CASE Post(s)
  BY <1>2 DEF Post, Posted
<1>3. CASE Reject(s)
  BY <1>3 DEF Reject, Posted
<1>4. CASE Rollback(s)
  BY <1>4 DEF Rollback
<1>5. CASE CommitRelease(s)
  BY <1>5 DEF CommitRelease
<1>6. CASE CommitDelay(s)
  BY <1>6 DEF CommitDelay
<1>7. CASE Abandon(s)
  BY <1>7 DEF Abandon
<1> QED
  BY <1>1, <1>2, <1>3, <1>4, <1>5, <1>6, <1>7 DEF SenderStep

LEMMA TickType == ASSUME TypeOK, Tick PROVE TypeOK'
<1> USE LimitsAssumption DEF TypeOK, Tick
<1>1. age' \in [Senders -> 0 .. SendTime]
  OBVIOUS
<1>2. here' \in [Senders -> BOOLEAN]
  <2>1. \A s \in Senders : (pc[s] \in Sending /\ here[s] /\ phase + 1 < Window) \in BOOLEAN
    BY Zenon
  <2> QED
    BY <2>1, Zenon
<1>3. phase' \in 0 .. Window - 1 /\ win' \in Int /\ posts' \in Nat
  OBVIOUS
<1>4. ttl' \in 0 .. ReservationTTL /\ parallel' \in Int /\ delay' \in 0 .. MinDelay /\ quiet' \in 0 .. MinDelay
  OBVIOUS
<1> QED
  BY <1>1, <1>2, <1>3, <1>4

LEMMA TypeStep == TypeOK /\ [Next]_vars => TypeOK'
<1>1. TypeOK /\ UNCHANGED vars => TypeOK'
  BY DEF TypeOK, vars
<1> QED
  BY <1>1, SenderType, TickType DEF Next

\* Every variable keeps its type, for any limits and times: in particular no key lives
\* longer than it was given.
THEOREM TypeCorrect == Spec => []TypeOK
  BY TypeInit, TypeStep, PTL DEF Spec

--------------------------------------------------------------------------------
\* WindowKept

LEMMA OpenFinite ==
  ASSUME IsFiniteSet(Senders)
  PROVE  IsFiniteSet(Open) /\ Cardinality(Open) \in Nat
<1>1. Open \subseteq Senders
  BY DEF Open
<1> QED
  BY <1>1, FS_Subset, FS_CardinalityType

\* A sender that leaves the open reservations.
LEMMA OpenLess ==
  ASSUME IsFiniteSet(Senders), NEW s \in Senders, Open' = Open \ {s}
  PROVE  Cardinality(Open') = IF s \in Open THEN Cardinality(Open) - 1 ELSE Cardinality(Open)
  BY OpenFinite, FS_RemoveElement

LEMMA OpenMore ==
  ASSUME IsFiniteSet(Senders), NEW s \in Senders, s \notin Open, Open' = Open \cup {s}
  PROVE  Cardinality(Open') = Cardinality(Open) + 1
  BY OpenFinite, FS_AddElement

LEMMA AccountedStep ==
  ASSUME IsFiniteSet(Senders), "late_error" \notin Disturbances, TypeOK, Accounted, [Next]_vars
  PROVE  Accounted'
<1> USE LimitsAssumption, OpenFinite DEF TypeOK, Accounted, Goto, keys, clock
<1>1. ASSUME NEW s \in Senders, Reserve(s) PROVE Accounted'
  <2>1. s \notin Open /\ Open' = Open \cup {s}
    BY <1>1 DEF Reserve, Open
  <2>2. Cardinality(Open') = Cardinality(Open) + 1
    BY <2>1, OpenMore
  <2> QED
    BY <1>1, <2>2 DEF Reserve
<1>2. ASSUME NEW s \in Senders, Post(s) PROVE Accounted'
  <2>1. Open' = Open \ {s} /\ (s \in Open <=> here[s])
    BY <1>2 DEF Post, Open
  <2>2. Cardinality(Open') = IF s \in Open THEN Cardinality(Open) - 1 ELSE Cardinality(Open)
    BY <2>1, OpenLess
  <2> QED
    BY <1>2, <2>1, <2>2 DEF Post, Posted
<1>3. ASSUME NEW s \in Senders, Reject(s) PROVE Accounted'
  <2>1. Open' = Open
    BY <1>3 DEF Reject, Open
  <2> QED
    BY <1>3, <2>1 DEF Reject
<1>4. ASSUME NEW s \in Senders, Rollback(s) PROVE Accounted'
  <2>1. Open' = Open \ {s} /\ (s \in Open <=> here[s])
    BY <1>4 DEF Rollback, Open
  <2>2. Cardinality(Open') = IF s \in Open THEN Cardinality(Open) - 1 ELSE Cardinality(Open)
    BY <2>1, OpenLess
  <2> QED
    BY <1>4, <2>1, <2>2 DEF Rollback
<1>5. ASSUME NEW s \in Senders, CommitRelease(s) \/ CommitDelay(s) PROVE Accounted'
  <2>1. Open' = Open
    BY <1>5 DEF CommitRelease, CommitDelay, Open
  <2> QED
    BY <1>5, <2>1 DEF CommitRelease, CommitDelay
<1>6. ASSUME NEW s \in Senders, Abandon(s) PROVE Accounted'
  <2>1. Open' = Open \ {s}
    BY <1>6 DEF Abandon, Open
  <2>2. Cardinality(Open') = IF s \in Open THEN Cardinality(Open) - 1 ELSE Cardinality(Open)
    BY <2>1, OpenLess
  <2> QED
    BY <1>6, <2>1, <2>2 DEF Abandon
<1>7. CASE Tick
  <2>1. CASE phase + 1 < Window
    <3>1. Open' = Open
      BY <1>7, <2>1 DEF Tick, Open, Sending
    <3> QED
      BY <1>7, <2>1, <3>1 DEF Tick
  <2>2. CASE ~(phase + 1 < Window)
    <3>1. Open' = {}
      BY <1>7, <2>2 DEF Tick, Open
    <3> QED
      BY <1>7, <2>2, <3>1, FS_EmptySet DEF Tick
  <2> QED
    BY <2>1, <2>2
<1>8. CASE UNCHANGED vars
  <2>1. Open' = Open
    BY <1>8 DEF vars, Open
  <2> QED
    BY <1>8, <2>1 DEF vars
<1> QED
  BY <1>1, <1>2, <1>3, <1>4, <1>5, <1>6, <1>7, <1>8 DEF Next, SenderStep

\* The limit of a window is kept for any number of senders, any limits and any times,
\* whoever dies, as long as an attempt that failed was not posted.
THEOREM WindowIsKept ==
  ASSUME IsFiniteSet(Senders), "late_error" \notin Disturbances
  PROVE  Spec => []WindowKept
<1>1. Init => Accounted
  <2> SUFFICES ASSUME Init PROVE Accounted
    OBVIOUS
  <2>1. Open = {}
    BY DEF Init, Open
  <2> QED
    BY <2>1, FS_EmptySet, LimitsAssumption DEF Init, Accounted
<1>2. TypeOK /\ Accounted /\ [Next]_vars => Accounted'
  BY AccountedStep
<1>3. TypeOK /\ Accounted => WindowKept
  BY OpenFinite, LimitsAssumption DEF TypeOK, Accounted, WindowKept
<1> QED
  BY <1>1, <1>2, <1>3, TypeInit, TypeStep, PTL DEF Spec

--------------------------------------------------------------------------------
\* DelayKept

\* With the delay still running nobody sends, and so the last comment is old enough.
LEMMA GapAtReserve ==
  ASSUME SendTime < MinDelay, TypeOK, Spaced, delay = 0
  PROVE  /\ \A s \in Senders : pc[s] \notin Sending
         /\ quiet >= ShortestGap
  BY LimitsAssumption DEF TypeOK, Spaced, Sending

LEMMA SpacedStep ==
  ASSUME SendTime < MinDelay, MinDelay <= ReservationTTL, "late_error" \notin Disturbances,
         TypeOK, Spaced, [Next]_vars
  PROVE  Spaced'
<1> USE LimitsAssumption DEF TypeOK, Spaced, Goto, Sending, keys, clock
<1>0. ShortestGap \in Int /\ ShortestGap <= MinDelay /\ MinDelay - SendTime <= ShortestGap
  BY DEF ShortestGap
<1>1. ASSUME NEW s \in Senders, Reserve(s) PROVE Spaced'
  BY <1>0, <1>1, GapAtReserve DEF Reserve, Lesser, ShortestGap
<1>2. ASSUME NEW s \in Senders, Post(s) PROVE Spaced'
  BY <1>0, <1>2 DEF Post, Posted, ShortestGap
<1>3. ASSUME NEW s \in Senders, Reject(s) PROVE Spaced'
  BY <1>0, <1>3 DEF Reject, ShortestGap
<1>4. ASSUME NEW s \in Senders, Rollback(s) PROVE Spaced'
  BY <1>0, <1>4 DEF Rollback, Live, ShortestGap
<1>5. ASSUME NEW s \in Senders, CommitRelease(s) PROVE Spaced'
  BY <1>0, <1>5 DEF CommitRelease, Live, ShortestGap
<1>6. ASSUME NEW s \in Senders, CommitDelay(s) PROVE Spaced'
  BY <1>0, <1>6 DEF CommitDelay, ShortestGap
<1>7. ASSUME NEW s \in Senders, Abandon(s) PROVE Spaced'
  BY <1>0, <1>7 DEF Abandon, ShortestGap
<1>8. CASE Tick
  BY <1>0, <1>8 DEF Tick, ShortestGap
<1>9. CASE UNCHANGED vars
  BY <1>9 DEF vars, ShortestGap
<1> QED
  BY <1>1, <1>2, <1>3, <1>4, <1>5, <1>6, <1>7, <1>8, <1>9 DEF Next, SenderStep

\* A comment is reserved only after the minimum delay, or, if senders may die, after it
\* less the time a sender may take: where no sender outlives the delay, and the delay is
\* not longer than a reservation lives.
THEOREM DelayIsKept ==
  ASSUME SendTime < MinDelay, MinDelay <= ReservationTTL, "late_error" \notin Disturbances
  PROVE  Spec => DelayKept
<1>1. Init => Spaced
  BY LimitsAssumption DEF Init, Spaced, Sending, ShortestGap
<1>2. TypeOK /\ Spaced /\ [Next]_vars => Spaced'
  BY SpacedStep
<1>3. TypeOK /\ Spaced /\ [Next]_vars => [\A s \in Senders : Reserve(s) => quiet >= ShortestGap]_vars
  BY GapAtReserve DEF Reserve
<1> QED
  BY <1>1, <1>2, <1>3, TypeInit, TypeStep, PTL DEF Spec, DelayKept

--------------------------------------------------------------------------------
\* ParallelKept

\* While somebody sends the delay runs on, so that nobody else gets a reservation.
Serial ==
  \A s \in Senders : pc[s] \in Sending =>
    /\ delay + age[s] >= MinDelay
    /\ \A t \in Senders : pc[t] \in Sending => s = t

LEMMA SerialStep ==
  ASSUME SendTime < MinDelay, MinDelay <= ReservationTTL, TypeOK, Serial, [Next]_vars
  PROVE  Serial'
<1> USE LimitsAssumption DEF TypeOK, Serial, Goto, Sending, keys, clock
<1>1. ASSUME NEW s \in Senders, Reserve(s) PROVE Serial'
  <2>1. \A t \in Senders : pc[t] \notin Sending
    BY <1>1 DEF Reserve
  <2> QED
    BY <1>1, <2>1 DEF Reserve, Lesser
<1>2. ASSUME NEW s \in Senders, Post(s) PROVE Serial'
  BY <1>2 DEF Post
<1>3. ASSUME NEW s \in Senders, Reject(s) PROVE Serial'
  BY <1>3 DEF Reject
<1>4. ASSUME NEW s \in Senders, Rollback(s) PROVE Serial'
  BY <1>4 DEF Rollback
<1>5. ASSUME NEW s \in Senders, CommitRelease(s) PROVE Serial'
  BY <1>5 DEF CommitRelease
<1>6. ASSUME NEW s \in Senders, CommitDelay(s) PROVE Serial'
  BY <1>6 DEF CommitDelay
<1>7. ASSUME NEW s \in Senders, Abandon(s) PROVE Serial'
  BY <1>7 DEF Abandon
<1>8. CASE Tick
  BY <1>8 DEF Tick
<1>9. CASE UNCHANGED vars
  BY <1>9 DEF vars
<1> QED
  BY <1>1, <1>2, <1>3, <1>4, <1>5, <1>6, <1>7, <1>8, <1>9 DEF Next, SenderStep

\* The counter of parallel attempts expires under senders that are still at work, and
\* on its own it does not keep its limit. A minimum delay that no sender outlives and
\* that is not longer than a reservation lives keeps it: one sender at a time, whoever
\* dies and whatever answers come late.
THEOREM DelaySerialises ==
  ASSUME SendTime < MinDelay, MinDelay <= ReservationTTL, MaxParallel # 0
  PROVE  Spec => []ParallelKept
<1>1. Init => Serial
  BY DEF Init, Serial, Sending
<1>2. TypeOK /\ Serial /\ [Next]_vars => Serial'
  BY SerialStep
<1>3. Serial => ParallelKept
  <2> SUFFICES ASSUME Serial PROVE ParallelKept
    OBVIOUS
  <2> DEFINE R == {s \in Senders : pc[s] = "reserved"}
  <2>1. \A s, t \in R : s = t
    BY DEF Serial, Sending
  <2>2. R = {} \/ \E s \in R : R = {s}
    BY <2>1
  <2>3. Cardinality(R) \in {0, 1}
    <3> HIDE DEF R
    <3>1. CASE R = {}
      BY <3>1, FS_EmptySet
    <3>2. ASSUME NEW s \in R, R = {s} PROVE Cardinality(R) = 1
      BY <3>2, FS_Singleton
    <3> QED
      BY <2>2, <3>1, <3>2
  <2> QED
    BY <2>3, LimitsAssumption DEF ParallelKept
<1> QED
  BY <1>1, <1>2, <1>3, TypeInit, TypeStep, PTL DEF Spec

================================================================================
