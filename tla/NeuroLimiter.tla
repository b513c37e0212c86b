------------------------------ MODULE NeuroLimiter ------------------------------
(***************************************************************************)
(* The Redis rate limiter of neuro comments (rate_limiter.py,              *)
(* rate_limiter_core.py, and the Lua script of rate_limiter_shared.py) for *)
(* one scope with all three kinds of limit: comments per window,           *)
(* max_parallel_attempts and min_delay_between_comments. Senders reserve,  *)
(* post the comment, and commit or roll back (sender_flow.py).             *)
(*                                                                         *)
(* A window's counter has the window's number in its key, so a new window  *)
(* starts a new one. The parallel counter and the key last_comment are the *)
(* same keys for ever and expire. A key without a time to live and one     *)
(* that is missing behave alike but for the value, which is 0 if missing:  *)
(* INCRBY and DECRBY take a missing key for 0. The limiter's cooldown is   *)
(* set by nobody, and a denied reservation changes nothing.                *)
(***************************************************************************)
EXTENDS Integers, FiniteSets

CONSTANTS
  Senders,         \* requests and workers that send comments in the scope
  MaxPerWindow,    \* max_value of comments_per_hour
  Window,          \* its window_seconds
  MaxParallel,     \* max_value of max_parallel_attempts
  MinDelay,        \* window_seconds of min_delay_between_comments, 0 if not limited
  ReservationTTL,  \* neuro_comment_rate_limiter_reservation_ttl_seconds
  SendTime,        \* a sender ends this long after its reservation, or is dead
  Disturbances     \* a subset of {"dies", "late_error"}

ASSUME LimitsAssumption ==
  /\ {MaxPerWindow, MaxParallel, MinDelay, SendTime} \subseteq Nat
  /\ {Window, ReservationTTL} \subseteq Nat \ {0}
ASSUME FaultAssumption == Disturbances \subseteq {"dies", "late_error"}

VARIABLES
  win,       \* counter of the current window
  phase,     \* time since the window began
  parallel,  \* parallel counter
  ttl,       \* its time to live, 0 for none
  delay,     \* time to live of last_comment, 0 if it is missing
  pc,        \* where each sender is
  age,       \* time since each sender's reservation
  here,      \* the reservation counts in the current window
  posts,     \* comments posted on reservations of the current window
  quiet      \* time since the last comment was posted, up to MinDelay

keys == <<win, parallel, ttl, delay>>
clock == <<phase, quiet>>
vars == <<win, phase, parallel, ttl, delay, pc, age, here, posts, quiet>>

Sending == {"reserved", "rejected", "posted", "released"}

TypeOK ==
  /\ win \in Int /\ phase \in 0 .. Window - 1
  /\ parallel \in Int /\ ttl \in 0 .. ReservationTTL /\ delay \in 0 .. MinDelay
  /\ pc \in [Senders -> {"idle"} \cup Sending] /\ age \in [Senders -> 0 .. SendTime]
  /\ here \in [Senders -> BOOLEAN]
  /\ posts \in Nat /\ quiet \in 0 .. MinDelay

Init ==
  /\ win = 0 /\ phase = 0 /\ parallel = 0 /\ ttl = 0 /\ delay = 0
  /\ pc = [s \in Senders |-> "idle"] /\ age = [s \in Senders |-> 0]
  /\ here = [s \in Senders |-> FALSE]
  /\ posts = 0 /\ quiet = MinDelay

\* Variant for mutation: the key lives as long as the reservation.
Greater(a, b) == IF a < b THEN b ELSE a

\* EX of the key: the delay, bounded by the reservation's time to live.
Lesser(a, b) == IF a < b THEN a ELSE b
Goto(s, target) == pc' = [pc EXCEPT ![s] = target]

--------------------------------------------------------------------------------
\* Redis

\* Variant for mutation: the key gets no time to live.
CountUpForever == parallel' = parallel + 1 /\ ttl' = ttl

\* INCRBY of the parallel counter, and EXPIRE where it has no time to live.
CountUp == parallel' = parallel + 1 /\ ttl' = IF ttl = 0 THEN ReservationTTL ELSE ttl

\* Variant for mutation: the reservation does not start the delay.
ReserveWithoutDelay(s) ==
  /\ pc[s] = "idle"
  /\ win < MaxPerWindow /\ parallel < MaxParallel /\ delay = 0
  /\ win' = win + 1 /\ CountUp /\ UNCHANGED delay
  /\ Goto(s, "reserved")
  /\ age' = [age EXCEPT ![s] = 0] /\ here' = [here EXCEPT ![s] = TRUE]
  /\ UNCHANGED <<clock, posts>>

\* The script: every limit is checked, then all are counted and last_comment is set.
Reserve(s) ==
  /\ pc[s] = "idle"
  /\ win < MaxPerWindow /\ parallel < MaxParallel /\ delay = 0
  /\ win' = win + 1 /\ CountUp /\ delay' = Lesser(MinDelay, ReservationTTL)
  /\ Goto(s, "reserved")
  /\ age' = [age EXCEPT ![s] = 0] /\ here' = [here EXCEPT ![s] = TRUE]
  /\ UNCHANGED <<clock, posts>>

\* The key of the reservation has not expired.
Live(s) == age[s] < ReservationTTL

\* Posting the comment, outside Redis.
Posted(s) == posts' = (IF here[s] THEN posts + 1 ELSE posts) /\ quiet' = 0

Post(s) ==
  /\ pc[s] = "reserved"
  /\ Posted(s)
  /\ Goto(s, "posted")
  /\ UNCHANGED <<keys, phase, age, here>>

\* The send fails, or its answer comes too late.
Reject(s) ==
  /\ pc[s] = "reserved"
  /\ \/ UNCHANGED <<posts, quiet>>
     \/ "late_error" \in Disturbances /\ Posted(s)
  /\ Goto(s, "rejected")
  /\ UNCHANGED <<keys, phase, age, here>>

\* rollback: the counters of the reservation are given back and last_comment is
\* deleted, whoever set it.
Rollback(s) ==
  /\ pc[s] = "rejected"
  /\ IF Live(s)
     THEN /\ parallel' = parallel - 1 /\ win' = IF here[s] THEN win - 1 ELSE win
          /\ delay' = 0
     ELSE UNCHANGED <<win, parallel, delay>>
  /\ Goto(s, "idle")
  /\ UNCHANGED <<ttl, clock, age, here, posts>>

\* Variant for mutation: commit releases all counters of the reservation.
CommitReleaseAll(s) ==
  /\ pc[s] = "posted"
  /\ IF Live(s) THEN parallel' = parallel - 1 /\ Goto(s, "released")
                ELSE UNCHANGED parallel /\ Goto(s, "idle")
  /\ win' = IF here[s] THEN win - 1 ELSE win
  /\ UNCHANGED <<ttl, delay, clock, age, here, posts>>

\* commit releases the parallel counter,
CommitRelease(s) ==
  /\ pc[s] = "posted"
  /\ IF Live(s) THEN parallel' = parallel - 1 /\ Goto(s, "released")
                ELSE UNCHANGED parallel /\ Goto(s, "idle")
  /\ UNCHANGED <<win, ttl, delay, clock, age, here, posts>>

\* and then sets last_comment for the whole delay.
CommitDelay(s) ==
  /\ pc[s] = "released"
  /\ delay' = MinDelay
  /\ Goto(s, "idle")
  /\ UNCHANGED <<win, parallel, ttl, clock, age, here, posts>>

\* The sender's process dies, or Redis fails during its commit or rollback: what it
\* reserved is left to expire.
Abandon(s) ==
  /\ "dies" \in Disturbances
  /\ pc[s] \in Sending
  /\ Goto(s, "idle")
  /\ UNCHANGED <<keys, clock, age, here, posts>>

\* A unit of time passes: keys expire, and a new window may begin.
Tick ==
  /\ \A s \in Senders : pc[s] \in Sending => age[s] < SendTime
  /\ ttl' = IF ttl > 0 THEN ttl - 1 ELSE 0
  /\ parallel' = IF ttl = 1 THEN 0 ELSE parallel
  /\ delay' = IF delay > 0 THEN delay - 1 ELSE 0
  /\ age' = [s \in Senders |-> IF pc[s] \in Sending THEN age[s] + 1 ELSE 0]
  /\ quiet' = IF quiet < MinDelay THEN quiet + 1 ELSE quiet
  /\ here' = [s \in Senders |-> pc[s] \in Sending /\ here[s] /\ phase + 1 < Window]
  /\ IF phase + 1 < Window
     THEN phase' = phase + 1 /\ UNCHANGED <<win, posts>>
     ELSE phase' = 0 /\ win' = 0 /\ posts' = 0
  /\ UNCHANGED pc

--------------------------------------------------------------------------------
SenderStep(s) == Post(s) \/ Reject(s) \/ Rollback(s) \/ CommitRelease(s) \/ CommitDelay(s)

Next == Tick \/ \E s \in Senders : Reserve(s) \/ SenderStep(s) \/ Abandon(s)

Spec == Init /\ [][Next]_vars

\* Time passes, and a sender that has a reservation goes on.
FairSpec == Spec /\ WF_vars(Tick) /\ \A s \in Senders : WF_vars(SenderStep(s))

--------------------------------------------------------------------------------
\* Correctness

\* No more comments than the limit are posted on the reservations of one window,
\* however reservations, rollbacks, deaths and the window's end interleave.
WindowKept == posts <= MaxPerWindow

\* Closest two comments may get: if a sender dies before its commit, the delay runs
\* from its reservation.
ShortestGap == IF "dies" \in Disturbances THEN MinDelay - SendTime ELSE MinDelay

\* A reservation is granted only when the last comment was posted at least the minimum
\* delay ago.
DelayKept == [][\A s \in Senders : Reserve(s) => quiet >= ShortestGap]_vars

\* No more than max_parallel_attempts senders are talking to Telegram at a time.
ParallelKept == Cardinality({s \in Senders : pc[s] = "reserved"}) <= MaxParallel

\* The slots of senders that died come back: the parallel limit never locks the scope.
SlotsReturn == parallel >= MaxParallel ~> parallel < MaxParallel

================================================================================
