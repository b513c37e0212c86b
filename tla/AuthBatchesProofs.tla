--------------------------- MODULE AuthBatchesProofs ----------------------------
(***************************************************************************)
(* Theorems about AuthBatches for any items, sessions, limits and faults:  *)
(* type correctness, RunningLimit, and WrongPerAttempt; and of sessions    *)
(* that no other overlaps, CountersExact, AttemptsBounded, FinishedRests,  *)
(* EndsKept, and that the batch is a BatchLedger.                          *)
(*                                                                         *)
(* WrongPerAttempt counts rows: a wrong code comes with an AuthAttempt row *)
(* that was not there before, and the rows of an item's codes are numbered *)
(* by its attempts. That the row is new rests on Fresh: the rows sessions  *)
(* have inserted and not committed are distinct, and distinct from those   *)
(* that are.                                                               *)
(*                                                                         *)
(* What holds of one session alone rests on AloneInv: what the session     *)
(* has read is so until it writes, what it is about to do is a legal move, *)
(* and what it has written leaves exact counters and a batch at rest. For  *)
(* the ledger it also says when a batch is over (Settled): once all of its *)
(* items have ended, and never as cancelled.                               *)
(***************************************************************************)
EXTENDS AuthBatches, FiniteSetTheorems, TLAPS

InCall(x) == x.pc = "calling" \/ (x.pc = "loaded" /\ x.role \in Calls)

RowsOf(rs, i, k) == {r \in rs : r[1] = i /\ r[3] = k}

\* A session that calls Telegram knows one item, in an attempt that has begun.
CallInv(x, at, rs) ==
  InCall(x) =>
    /\ x.role \in Calls
    /\ \E i \in Items :
         /\ DOMAIN x.known = {i}
         /\ 1 <= x.known[i].attempts /\ x.known[i].attempts <= at[i]
         /\ \A k \in Secrets : x.known[i].wrong[k] <= Cardinality(RowsOf(rs, i, k))

\* A dispatcher knows the item it claimed; what moves the batch knows all items.
HoldInv(x) ==
  /\ x.pc \in {"enqueueing", "refused"} => x.item \in Items /\ x.item \in DOMAIN x.known
  /\ x.pc = "enqueueing" => x.known[x.item].attempts >= 1
  /\ x.pc = "refused" \/ (x.pc = "loaded" /\ x.role = "cancel_batch") => DOMAIN x.known = Items

\* Nothing but a claim starts an item, and a wrong code is written with its row.
WriteInv(x, at, rs) ==
  x.pc = "committing" =>
    /\ x.role \in {"none", "run"}
    /\ \A i \in DOMAIN x.tx.status :
         x.tx.status[i] # "starting" /\ (x.tx.status[i] \in Waiting => at[i] >= 1)
    /\ IsFiniteSet(x.tx.row) /\ \A r \in x.tx.row : r[2] <= at[r[1]]
    /\ \A i \in Items, k \in Secrets : <<i, k>> \in DOMAIN x.tx.wrong =>
         /\ x.tx.wrong[<<i, k>>] <= Cardinality(RowsOf(rs, i, k)) + 1
         /\ \E r \in x.tx.row : r[1] = i /\ r[3] = k

\* Rows the session has inserted and not committed.
Held(x) ==
  IF x.pc = "calling" THEN {RowOf(x)} ELSE IF x.pc = "committing" THEN x.tx.row ELSE {}
Fresh ==
  \A s \in Sessions :
    /\ Held(sess[s]) \cap rows = {}
    /\ \A t \in Sessions \ {s} : Held(sess[s]) \cap Held(sess[t]) = {}

SessionInv ==
  \A s \in Sessions :
    /\ CallInv(sess[s], attempts, rows) /\ HoldInv(sess[s]) /\ WriteInv(sess[s], attempts, rows)
    /\ sess[s].pc # "idle" => s \in crew

RowInv ==
  /\ IsFiniteSet(rows) /\ \A r \in rows : r[2] <= attempts[r[1]]
  /\ \A i \in Items : status[i] \in {"starting"} \cup Waiting => attempts[i] >= 1
  /\ \A i \in Items, k \in Secrets : wrong[<<i, k>>] <= Cardinality(RowsOf(rows, i, k))

IInv == TypeOK /\ SessionInv /\ Fresh /\ RowInv

--------------------------------------------------------------------------------
\* The type of what a session reads and writes

LEMMA IdleOK == SessionOK(Idle)
  BY DEF SessionOK, Idle, Phases, Roles, Calls, Partial, Empty, WritesOK, NoWrites, NoBatch,
         BatchStatuses, Counts

LEMMA MovesOK ==
  ASSUME NEW b \in [batch : BatchStatuses, count : Counts], NEW from, NEW to,
         DOMAIN to \subseteq Items, \A i \in DOMAIN to : to[i] \in ItemStatuses
  PROVE  /\ WritesOK(Moves(b, from, to))
         /\ Moves(b, from, to).row = {} /\ DOMAIN Moves(b, from, to).wrong = {}
         /\ \A i \in DOMAIN Moves(b, from, to).status :
              i \in DOMAIN to /\ to[i] # from[i] /\ Moves(b, from, to).status[i] = to[i]
<1> DEFINE c == Recounted(b.count, from, to)
           moved == {i \in DOMAIN to : to[i] # from[i]}
           end == IF moved = {} THEN b.batch ELSE Concluded(b.batch, c)
<1>1. c \in Counts
  <2> SUFFICES ASSUME NEW k \in Counters
      PROVE  (LET up == b.count[k] + Cardinality(Entering(from, to, k))
                  down == Cardinality(Leaving(from, to, k))
              IN  IF up > down THEN up - down ELSE 0) \in Nat
    BY DEF Recounted, Counts
  <2>1. IsFiniteSet(Entering(from, to, k)) /\ IsFiniteSet(Leaving(from, to, k))
    BY ItemsAssumption, FS_Subset DEF Entering, Leaving
  <2>2. Cardinality(Entering(from, to, k)) \in Nat /\ Cardinality(Leaving(from, to, k)) \in Nat
    BY <2>1, FS_CardinalityType
  <2>3. b.count[k] \in Nat
    BY DEF Counts
  <2> QED
    BY <2>2, <2>3
<1>2. end \in BatchStatuses
  BY DEF Concluded, BatchStatuses, BatchTerminal
<1>3. Moves(b, from, to) =
        [status |-> [i \in moved |-> to[i]], wrong |-> Empty,
         count |-> [k \in {k \in Counters : c[k] # b.count[k]} |-> c[k]],
         batch |-> IF end = b.batch THEN "kept" ELSE end, row |-> {}]
  BY DEF Moves
<1> HIDE DEF c, end
<1> QED
  BY <1>1, <1>2, <1>3 DEF WritesOK, Partial, Counts, Empty

--------------------------------------------------------------------------------
\* Steps of one session

Good(x, at, rs) == SessionOK(x) /\ CallInv(x, at, rs) /\ HoldInv(x) /\ WriteInv(x, at, rs)

LEMMA RowsGrow ==
  ASSUME NEW rs, NEW more, rs \subseteq more, IsFiniteSet(more), NEW i, NEW k
  PROVE  /\ Cardinality(RowsOf(rs, i, k)) \in Nat /\ Cardinality(RowsOf(more, i, k)) \in Nat
         /\ Cardinality(RowsOf(rs, i, k)) <= Cardinality(RowsOf(more, i, k))
<1>1. IsFiniteSet(RowsOf(more, i, k)) /\ RowsOf(rs, i, k) \subseteq RowsOf(more, i, k)
  BY FS_Subset DEF RowsOf
<1> QED
  BY <1>1, FS_Subset, FS_CardinalityType

LEMMA GoodStays ==
  ASSUME NEW x, NEW at \in [Items -> Nat], NEW higher \in [Items -> Nat], NEW rs, NEW more,
         Good(x, at, rs), \A i \in Items : at[i] <= higher[i],
         rs \subseteq more, IsFiniteSet(more)
  PROVE  Good(x, higher, more)
<1> USE DEF Good
<1>1. CallInv(x, higher, more)
  <2> SUFFICES ASSUME InCall(x) PROVE CallInv(x, higher, more)
    BY DEF CallInv
  <2>1. PICK i \in Items :
          /\ DOMAIN x.known = {i}
          /\ 1 <= x.known[i].attempts /\ x.known[i].attempts <= at[i]
          /\ \A k \in Secrets : x.known[i].wrong[k] <= Cardinality(RowsOf(rs, i, k))
    BY DEF CallInv
  <2>2. x.known[i] \in ItemRead
    BY <2>1 DEF SessionOK, Partial
  <2>3. x.known[i].attempts <= higher[i]
    BY <2>1, <2>2 DEF ItemRead
  <2>4. \A k \in Secrets : x.known[i].wrong[k] <= Cardinality(RowsOf(more, i, k))
    BY <2>1, <2>2, RowsGrow DEF ItemRead
  <2> QED
    BY <2>1, <2>3, <2>4 DEF CallInv
<1>2. WriteInv(x, higher, more)
  <2> SUFFICES ASSUME x.pc = "committing" PROVE WriteInv(x, higher, more)
    BY DEF WriteInv
  <2>0. WritesOK(x.tx)
    BY DEF SessionOK
  <2>1. \A i \in DOMAIN x.tx.status :
          x.tx.status[i] # "starting" /\ (x.tx.status[i] \in Waiting => higher[i] >= 1)
    BY <2>0 DEF WriteInv, WritesOK, Partial
  <2>2. IsFiniteSet(x.tx.row) /\ \A r \in x.tx.row : r[2] <= higher[r[1]]
    BY <2>0 DEF WriteInv, WritesOK, AttemptRows
  <2>3. ASSUME NEW i \in Items, NEW k \in Secrets, <<i, k>> \in DOMAIN x.tx.wrong
        PROVE  /\ x.tx.wrong[<<i, k>>] <= Cardinality(RowsOf(more, i, k)) + 1
               /\ \E r \in x.tx.row : r[1] = i /\ r[3] = k
    BY <2>0, <2>3, RowsGrow DEF WriteInv, WritesOK, Partial
  <2> QED
    BY <2>1, <2>2, <2>3 DEF WriteInv
<1> QED
  BY <1>1, <1>2

LEMMA OthersStay ==
  ASSUME IInv, NEW s \in Sessions, DOMAIN sess' = Sessions, Good(sess'[s], attempts', rows'),
         \A t \in Sessions \ {s} : sess'[t] = sess[t],
         sess'[s].pc # "idle" => s \in crew, crew' = crew,
         attempts' \in [Items -> Nat], \A i \in Items : attempts[i] <= attempts'[i],
         rows \subseteq rows', IsFiniteSet(rows')
  PROVE  SessionInv' /\ \A t \in Sessions : SessionOK(sess'[t])
<1>1. \A t \in Sessions \ {s} : Good(sess'[t], attempts', rows')
  BY GoodStays DEF IInv, TypeOK, SessionInv, Good
<1>2. \A t \in Sessions : Good(sess'[t], attempts', rows')
  BY <1>1
<1>3. \A t \in Sessions : sess'[t].pc # "idle" => t \in crew'
  BY DEF IInv, SessionInv
<1> QED
  BY <1>2, <1>3 DEF Good, SessionInv

\* A step that changes its session only, and what no invariant speaks of.
LEMMA QuietStep ==
  ASSUME IInv, NEW s \in Sessions, DOMAIN sess' = Sessions, Good(sess'[s], attempts, rows),
         \A t \in Sessions \ {s} : sess'[t] = sess[t],
         sess'[s].pc # "idle" => s \in crew,
         Held(sess'[s]) \subseteq Held(sess[s]),
         UNCHANGED <<crew, batch, count, status, attempts, wrong, rows>>,
         jobs' \in SUBSET (Items \X Nat), asked' \in Nat, deaths' \in Nat, refused' \in BOOLEAN
  PROVE  IInv'
<1>0. /\ Good(sess'[s], attempts', rows') /\ crew' = crew
      /\ attempts' \in [Items -> Nat] /\ \A i \in Items : attempts[i] <= attempts'[i]
      /\ rows \subseteq rows' /\ IsFiniteSet(rows')
  BY DEF IInv, TypeOK, RowInv
<1>1. SessionInv' /\ \A t \in Sessions : SessionOK(sess'[t])
  BY <1>0, OthersStay
<1>2. TypeOK'
  BY <1>1 DEF IInv, TypeOK
<1>3. RowInv'
  BY DEF IInv, RowInv
<1>4. Fresh'
  BY DEF IInv, Fresh
<1> QED
  BY <1>1, <1>2, <1>3, <1>4 DEF IInv

LEMMA IdleGood ==
  ASSUME NEW at, NEW rs
  PROVE  Good(Idle, at, rs) /\ Held(Idle) = {} /\ Idle.pc = "idle"
  BY IdleOK DEF Good, CallInv, InCall, HoldInv, WriteInv, Held, Idle

LEMMA Finishes ==
  ASSUME IInv, NEW s \in Sessions, Finish(s)
  PROVE  /\ DOMAIN sess' = Sessions /\ Good(sess'[s], attempts, rows)
         /\ \A t \in Sessions \ {s} : sess'[t] = sess[t]
         /\ sess'[s].pc = "idle" /\ Held(sess'[s]) = {}
  BY IdleGood DEF Finish, Be, IInv, TypeOK

LEMMA Reads ==
  ASSUME IInv, NEW s \in Sessions, NEW role \in Roles \ {"none", "run"}, NEW S \in SUBSET Items,
         Read(s, role, S),
         role \in Calls => \E i \in Items : S = {i} /\ status[i] \in {"starting"} \cup Waiting,
         role = "cancel_batch" => S = Items
  PROVE  /\ DOMAIN sess' = Sessions /\ Good(sess'[s], attempts, rows)
         /\ \A t \in Sessions \ {s} : sess'[t] = sess[t]
         /\ Held(sess'[s]) = {}
<1> DEFINE base == IF role = "cancel_batch" THEN Batch ELSE NoBatch
           x == [pc |-> "loaded", role |-> role, item |-> 0, known |-> Loaded(S), base |-> base,
                 did |-> 0, tx |-> NoWrites, then |-> "idle"]
<1>1. DOMAIN sess' = Sessions /\ sess'[s] = x /\ \A t \in Sessions \ {s} : sess'[t] = sess[t]
  BY DEF Read, Be, Idle, IInv, TypeOK
<1>2. Partial(Loaded(S), Items, ItemRead)
  BY DEF Loaded, Partial, ItemRead, IInv, TypeOK
<1>3. base \in [batch : BatchStatuses, count : Counts]
  BY DEF Batch, NoBatch, Counts, BatchStatuses, IInv, TypeOK
<1>4. WritesOK(NoWrites)
  BY IdleOK DEF SessionOK, Idle
<1> HIDE DEF base
<1>5. SessionOK(x)
  BY <1>2, <1>3, <1>4 DEF SessionOK, Phases
<1>6. CallInv(x, attempts, rows)
  <2> SUFFICES ASSUME role \in Calls PROVE CallInv(x, attempts, rows)
    BY DEF CallInv, InCall
  <2>1. PICK i \in Items : S = {i} /\ status[i] \in {"starting"} \cup Waiting
    OBVIOUS
  <2>2. /\ DOMAIN x.known = {i} /\ x.known[i].attempts = attempts[i]
        /\ \A k \in Secrets : x.known[i].wrong[k] = wrong[<<i, k>>]
    BY <2>1 DEF Loaded
  <2>3. 1 <= attempts[i] /\ attempts[i] \in Nat
        /\ \A k \in Secrets : wrong[<<i, k>>] <= Cardinality(RowsOf(rows, i, k))
    BY <2>1 DEF IInv, TypeOK, RowInv
  <2>4. x.role \in Calls /\ \A k \in Secrets : x.known[i].wrong[k] <= Cardinality(RowsOf(rows, i, k))
    BY <2>2, <2>3
  <2> HIDE DEF x
  <2> QED
    BY <2>2, <2>3, <2>4 DEF CallInv
<1>7. HoldInv(x) /\ WriteInv(x, attempts, rows) /\ Held(x) = {}
  BY DEF HoldInv, WriteInv, Held, Loaded
<1> QED
  BY <1>1, <1>5, <1>6, <1>7 DEF Good

LEMMA Writes ==
  ASSUME IInv, NEW s \in Sessions, NEW w, NEW then \in {"idle", "asking", "expiring", "surfacing"},
         Writing(s, w, then), WritesOK(w),
         \A i \in DOMAIN w.status :
           w.status[i] # "starting" /\ (w.status[i] \in Waiting => attempts[i] >= 1),
         IsFiniteSet(w.row), \A r \in w.row : r[2] <= attempts[r[1]],
         \A i \in Items, k \in Secrets : <<i, k>> \in DOMAIN w.wrong =>
           /\ w.wrong[<<i, k>>] <= Cardinality(RowsOf(rows, i, k)) + 1
           /\ \E r \in w.row : r[1] = i /\ r[3] = k
  PROVE  /\ DOMAIN sess' = Sessions /\ Good(sess'[s], attempts, rows)
         /\ \A t \in Sessions \ {s} : sess'[t] = sess[t]
         /\ Held(sess'[s]) = w.row
<1> DEFINE role == IF sess[s].role = "run" THEN "run" ELSE "none"
           x == [pc |-> "committing", role |-> role, item |-> 0, known |-> Empty,
                 base |-> NoBatch, did |-> sess[s].did, tx |-> w, then |-> then]
<1>1. DOMAIN sess' = Sessions /\ sess'[s] = x /\ \A t \in Sessions \ {s} : sess'[t] = sess[t]
  BY DEF Writing, Be, Idle, IInv, TypeOK
<1>2. SessionOK(Idle) /\ sess[s].did \in Nat /\ role \in Roles /\ role \in {"none", "run"}
  BY IdleOK DEF IInv, TypeOK, SessionOK, Roles
<1> HIDE DEF role
<1>3. SessionOK(x)
  BY <1>2 DEF SessionOK, Idle, Phases
<1>4. CallInv(x, attempts, rows) /\ HoldInv(x) /\ WriteInv(x, attempts, rows)
  BY <1>2 DEF CallInv, InCall, HoldInv, WriteInv
<1>5. Held(x) = w.row
  BY DEF Held
<1> QED
  BY <1>1, <1>3, <1>4, <1>5 DEF Good

LEMMA Requested ==
  ASSUME IInv, NEW s \in Sessions,
         TakeJob(s) \/ Submit(s) \/ CancelBatch(s) \/ CancelItem(s) \/ Requeue(s)
  PROVE  IInv'
<1> DEFINE Moved == /\ DOMAIN sess' = Sessions /\ Good(sess'[s], attempts, rows)
                    /\ \A t \in Sessions \ {s} : sess'[t] = sess[t]
                    /\ Held(sess'[s]) = {}
<1>1. SUFFICES Moved /\ s \in crew /\ UNCHANGED <<crew, batch, count, status, attempts, wrong, rows>>
               /\ jobs' \in SUBSET (Items \X Nat) /\ asked' \in Nat /\ UNCHANGED <<deaths, refused>>
  BY QuietStep DEF IInv, TypeOK
<1>2. CASE TakeJob(s)
  <2>1. PICK j \in jobs :
          /\ jobs' = jobs \ {j}
          /\ IF status[j[1]] = "starting" THEN Read(s, "start", {j[1]})
             ELSE Be(s, [Idle EXCEPT !.pc = "asking"])
    BY <1>2 DEF TakeJob
  <2>2. j[1] \in Items
    BY DEF IInv, TypeOK
  <2>3. CASE status[j[1]] = "starting"
    <3>1. Moved
      BY <2>1, <2>2, <2>3, Reads DEF Roles, Calls, Secrets
    <3> QED
      BY <1>2, <2>1, <3>1 DEF TakeJob, Free, IInv, TypeOK
  <2>4. CASE status[j[1]] # "starting"
    <3> DEFINE x == [Idle EXCEPT !.pc = "asking"]
    <3>1. sess'[s] = x /\ DOMAIN sess' = Sessions /\ \A t \in Sessions \ {s} : sess'[t] = sess[t]
      BY <2>1, <2>4 DEF Be, IInv, TypeOK
    <3>2. SessionOK(x)
      BY IdleOK DEF SessionOK, Idle, Phases
    <3>3. Good(x, attempts, rows) /\ Held(x) = {}
      BY <3>2 DEF Good, CallInv, InCall, HoldInv, WriteInv, Held, Idle
    <3> QED
      BY <1>2, <2>1, <3>1, <3>3 DEF TakeJob, Free, IInv, TypeOK
  <2> QED
    BY <2>3, <2>4
<1>3. CASE Submit(s)
  <2>1. PICK i \in Items : \/ status[i] = "waiting_code" /\ Read(s, "code", {i})
                           \/ status[i] = "waiting_2fa" /\ Read(s, "password", {i})
    BY <1>3 DEF Submit
  <2>2. Moved
    BY <2>1, Reads DEF Roles, Calls, Secrets, Waiting
  <2> QED
    BY <1>3, <2>2 DEF Submit, Free, stored, IInv, TypeOK
<1>4. CASE CancelBatch(s)
  <2>1. Moved
    BY <1>4, Reads DEF CancelBatch, Roles, Calls, Secrets
  <2> QED
    BY <1>4, <2>1 DEF CancelBatch, Free, stored, IInv, TypeOK
<1>5. CASE CancelItem(s)
  <2>1. PICK i \in Items : Read(s, "cancel_item", {i})
    BY <1>5 DEF CancelItem
  <2>2. Moved
    BY <2>1, Reads DEF Roles, Calls, Secrets
  <2> QED
    BY <1>5, <2>2 DEF CancelItem, Free, stored, IInv, TypeOK
<1>6. CASE Requeue(s)
  <2>1. PICK i \in Items : Read(s, "requeue", {i})
    BY <1>6 DEF Requeue
  <2>2. Moved
    BY <2>1, Reads DEF Roles, Calls, Secrets
  <2> QED
    BY <1>6, <2>2 DEF Requeue, Free, IInv, TypeOK
<1> QED
  BY <1>2, <1>3, <1>4, <1>5, <1>6

LEMMA Recovered == ASSUME IInv, NEW s \in Sessions, Recover(s) PROVE IInv'
<1>1. PICK S \in SUBSET Items : Release(s, S) \/ Expire(s, S)
  BY DEF Recover, Expired, WaitingInput
<1>2. s \in crew
  BY <1>1 DEF Release, Expire, Free, IInv, SessionInv
<1>3. /\ DOMAIN sess' = Sessions /\ Good(sess'[s], attempts, rows)
      /\ \A t \in Sessions \ {s} : sess'[t] = sess[t]
      /\ Held(sess'[s]) = {}
  BY <1>1, Reads DEF Release, Expire, Roles, Calls, Secrets
<1> QED
  BY <1>1, <1>2, <1>3, QuietStep DEF Release, Expire, stored, IInv, TypeOK

LEMMA Died == ASSUME IInv, NEW s \in Sessions, Dies(s) PROVE IInv'
<1>1. /\ DOMAIN sess' = Sessions /\ Good(sess'[s], attempts, rows)
      /\ \A t \in Sessions \ {s} : sess'[t] = sess[t]
      /\ sess'[s].pc = "idle" /\ Held(sess'[s]) = {}
  BY Finishes DEF Dies
<1>2. /\ UNCHANGED <<crew, batch, count, status, attempts, wrong, rows>>
      /\ jobs' \in SUBSET (Items \X Nat) /\ asked' \in Nat /\ deaths' \in Nat
      /\ refused' \in BOOLEAN
  BY DEF Dies, stored, IInv, TypeOK
<1> QED
  BY <1>1, <1>2, QuietStep

\* What a session may write of moves that start nothing.
LEMMA MovesWritten ==
  ASSUME IInv, NEW s \in Sessions, NEW b \in [batch : BatchStatuses, count : Counts],
         NEW from, NEW to, DOMAIN to \subseteq Items,
         \A i \in DOMAIN to : to[i] \in ItemStatuses \ ({"starting"} \cup Waiting),
         NEW then \in {"idle", "asking", "expiring", "surfacing"},
         NEW goal \in BatchStatuses \cup {"kept"}, NEW w,
         w = Moves(b, from, to) \/ w = [Moves(b, from, to) EXCEPT !.batch = goal],
         Writing(s, w, then), sess[s].pc # "idle" \/ s \in crew,
         UNCHANGED <<crew, batch, count, status, attempts, wrong, rows, jobs, asked, deaths>>,
         refused' \in BOOLEAN
  PROVE  IInv'
<1> DEFINE m == Moves(b, from, to)
<1>1. /\ WritesOK(m) /\ m.row = {} /\ DOMAIN m.wrong = {}
      /\ \A i \in DOMAIN m.status : i \in DOMAIN to /\ m.status[i] = to[i]
  BY MovesOK
<1>2. m = [status |-> m.status, wrong |-> m.wrong, count |-> m.count, batch |-> m.batch,
           row |-> m.row]
  BY DEF Moves
<1>3. /\ WritesOK(w) /\ w.row = {} /\ DOMAIN w.wrong = {}
      /\ \A i \in DOMAIN w.status : i \in DOMAIN to /\ w.status[i] = to[i]
  <2>1. CASE w = m
    BY <1>1, <2>1
  <2>2. CASE w = [m EXCEPT !.batch = goal]
    <3> HIDE DEF m
    <3>1. w = [status |-> m.status, wrong |-> m.wrong, count |-> m.count, batch |-> goal,
               row |-> m.row]
      BY <1>2, <2>2
    <3>2. /\ w.status = m.status /\ w.wrong = m.wrong /\ w.count = m.count
          /\ w.row = m.row /\ w.batch = goal
      BY <3>1
    <3> QED
      BY <1>1, <3>2 DEF WritesOK
  <2> QED
    BY <2>1, <2>2
<1> HIDE DEF m
<1>4. IsFiniteSet(w.row)
  BY <1>3, FS_EmptySet
<1>5. /\ DOMAIN sess' = Sessions /\ Good(sess'[s], attempts, rows)
      /\ \A t \in Sessions \ {s} : sess'[t] = sess[t]
      /\ Held(sess'[s]) = w.row
  <2>1. \A i \in DOMAIN w.status :
          w.status[i] # "starting" /\ (w.status[i] \in Waiting => attempts[i] >= 1)
    BY <1>3
  <2>2. \A r \in w.row : r[2] <= attempts[r[1]]
    BY <1>3
  <2>3. \A i \in Items, k \in Secrets : <<i, k>> \in DOMAIN w.wrong =>
          /\ w.wrong[<<i, k>>] <= Cardinality(RowsOf(rows, i, k)) + 1
          /\ \E r \in w.row : r[1] = i /\ r[3] = k
    BY <1>3
  <2>4. Writing(s, w, then) /\ WritesOK(w)
    BY <1>3
  <2> QED
    BY <1>4, <2>1, <2>2, <2>3, <2>4, Writes
<1>6. s \in crew
  BY DEF IInv, SessionInv
<1> QED
  BY <1>3, <1>5, <1>6, QuietStep DEF IInv, TypeOK

LEMMA Moved == ASSUME IInv, NEW s \in Sessions, Move(s) PROVE IInv'
<1> DEFINE known == sess[s].known
           role == sess[s].role
           from == [i \in DOMAIN known |-> known[i].status]
           to == [i \in DOMAIN known |-> Goal(role, known[i])]
           then == CASE role = "cancel_item" -> "idle"
                     [] role = "release" -> "expiring"
                     [] OTHER -> "asking"
<1>1. /\ Writing(s, Moves(Batch, from, to), then) /\ sess[s].pc # "idle"
      /\ role \in {"cancel_item", "requeue", "release", "expire"}
      /\ UNCHANGED <<stored, deaths, refused>>
  BY DEF Move
<1>2. DOMAIN to \subseteq Items
  BY DEF IInv, TypeOK, SessionOK, Partial
<1>3. \A i \in DOMAIN to : to[i] \in ItemStatuses \ ({"starting"} \cup Waiting)
  BY <1>1 DEF Goal, ItemStatuses, ItemTerminal, Waiting
<1>4. then \in {"idle", "asking", "expiring", "surfacing"}
  BY <1>1
<1>5. Batch \in [batch : BatchStatuses, count : Counts]
  BY DEF Batch, IInv, TypeOK
<1>6. UNCHANGED <<crew, batch, count, status, attempts, wrong, rows, jobs, asked, deaths>>
      /\ refused' \in BOOLEAN
  BY <1>1 DEF stored, IInv, TypeOK
<1> HIDE DEF from, to, then
<1> QED
  BY <1>1, <1>2, <1>3, <1>4, <1>5, <1>6, MovesWritten

LEMMA MovedAll == ASSUME IInv, NEW s \in Sessions, MoveAll(s) PROVE IInv'
<1> DEFINE x == sess[s]
           open == {i \in Items : x.known[i].status \notin ItemTerminal}
           from == [i \in open |-> x.known[i].status]
           to == [i \in open |-> "cancelled"]
           writes == Moves(x.base, from, to)
<1>1. /\ sess[s].pc # "idle" /\ UNCHANGED <<stored, deaths>>
      /\ \/ Writing(s, [writes EXCEPT !.batch = "cancelled"], "idle") /\ refused' = refused
         \/ Finish(s) /\ refused' = TRUE
  BY DEF MoveAll
<1>2. CASE Finish(s) /\ refused' = TRUE
  BY <1>1, <1>2, Finishes, QuietStep DEF stored, IInv, TypeOK
<1>3. CASE Writing(s, [writes EXCEPT !.batch = "cancelled"], "idle") /\ refused' = refused
  <2>1. /\ DOMAIN to \subseteq Items
        /\ \A i \in DOMAIN to : to[i] \in ItemStatuses \ ({"starting"} \cup Waiting)
    BY DEF ItemStatuses, ItemTerminal, Waiting
  <2>2. x.base \in [batch : BatchStatuses, count : Counts]
    BY DEF IInv, TypeOK, SessionOK
  <2>3. UNCHANGED <<crew, batch, count, status, attempts, wrong, rows, jobs, asked, deaths>>
        /\ refused' \in BOOLEAN
    BY <1>1, <1>3 DEF stored, IInv, TypeOK
  <2>4. "cancelled" \in BatchStatuses
    BY DEF BatchStatuses, BatchTerminal
  <2> HIDE DEF from, to
  <2> QED
    BY <1>1, <1>3, <2>1, <2>2, <2>3, <2>4, MovesWritten
<1> QED
  BY <1>1, <1>2, <1>3

--------------------------------------------------------------------------------
\* Calls to Telegram

LEMMA RowIs ==
  ASSUME NEW x, NEW at \in [Items -> Nat], NEW rs, Good(x, at, rs), InCall(x)
  PROVE  \E i \in Items :
           /\ DOMAIN x.known = {i} /\ ItemOf(x) = i
           /\ RowOf(x) = <<i, x.known[i].attempts, x.role>> /\ RowOf(x) \in AttemptRows
           /\ x.known[i] \in ItemRead
           /\ 1 <= x.known[i].attempts /\ x.known[i].attempts <= at[i]
<1>1. PICK i \in Items :
        /\ DOMAIN x.known = {i} /\ x.role \in Calls
        /\ 1 <= x.known[i].attempts /\ x.known[i].attempts <= at[i]
  BY DEF Good, CallInv
<1>2. ItemOf(x) = i
  BY <1>1 DEF ItemOf
<1>3. x.known[i] \in ItemRead
  BY <1>1 DEF Good, SessionOK, Partial
<1>4. x.known[i].attempts \in Nat \ {0}
  BY <1>1, <1>3 DEF ItemRead
<1>5. RowOf(x) = <<i, x.known[i].attempts, x.role>>
  BY <1>2, <1>4 DEF RowOf
<1> QED
  BY <1>1, <1>2, <1>3, <1>4, <1>5 DEF AttemptRows

LEMMA Recorded == ASSUME IInv, NEW s \in Sessions, Record(s) PROVE IInv'
<1>0. /\ Good(sess[s], attempts, rows) /\ InCall(sess[s]) /\ sess[s].pc = "loaded" /\ s \in crew
      /\ UNCHANGED <<crew, batch, count, status, attempts, wrong, rows>>
      /\ jobs' \in SUBSET (Items \X Nat) /\ asked' \in Nat /\ deaths' \in Nat
      /\ refused' \in BOOLEAN
  BY DEF Record, InCall, Good, stored, IInv, TypeOK, SessionInv
<1>1. CASE Finish(s)
  BY <1>0, <1>1, Finishes, QuietStep
<1>2. CASE Goto(s, "calling") /\ RowOf(sess[s]) \notin rows
  <2> DEFINE x == [sess[s] EXCEPT !.pc = "calling"]
  <2>1. DOMAIN sess' = Sessions /\ sess'[s] = x /\ \A t \in Sessions \ {s} : sess'[t] = sess[t]
    BY <1>2 DEF Goto, Be, IInv, TypeOK
  <2>2. x.pc = "calling" /\ x.role = sess[s].role /\ x.known = sess[s].known
        /\ x.base = sess[s].base /\ x.did = sess[s].did /\ x.tx = sess[s].tx
        /\ x.then = sess[s].then /\ x.item = sess[s].item
    BY <1>0 DEF Good, SessionOK
  <2> HIDE DEF x
  <2>3. RowOf(x) = RowOf(sess[s])
    BY <2>2 DEF RowOf, ItemOf
  <2>4. Good(x, attempts, rows)
    BY <1>0, <2>2 DEF Good, SessionOK, Phases, CallInv, InCall, HoldInv, WriteInv
  <2>5. SessionInv' /\ \A t \in Sessions : SessionOK(sess'[t])
    <3>1. /\ Good(sess'[s], attempts', rows') /\ crew' = crew
          /\ attempts' \in [Items -> Nat] /\ \A i \in Items : attempts[i] <= attempts'[i]
          /\ rows \subseteq rows' /\ IsFiniteSet(rows')
      BY <1>0, <2>1, <2>4 DEF IInv, TypeOK, RowInv
    <3> QED
      BY <1>0, <2>1, <3>1, OthersStay
  <2>6. Held(x) = {RowOf(sess[s])}
    BY <2>2, <2>3 DEF Held
  <2>7. Held(x) \cap rows = {}
    BY <1>2, <2>6
  <2>8. \A t \in Sessions \ {s} : Held(x) \cap Held(sess[t]) = {}
    BY <1>0, <2>6 DEF Record, Held, Inserted
  <2>9. Fresh'
    BY <1>0, <2>1, <2>7, <2>8 DEF IInv, Fresh
  <2>10. TypeOK'
    BY <1>0, <2>1, <2>5 DEF IInv, TypeOK
  <2>11. RowInv'
    BY <1>0 DEF IInv, RowInv
  <2> QED
    BY <2>5, <2>9, <2>10, <2>11 DEF IInv
<1> QED
  BY <1>1, <1>2 DEF Record

LEMMA OutcomeOK ==
  ASSUME NEW role \in Calls, NEW result \in Results[role], NEW x \in ItemRead
  PROVE  /\ Outcome(result, role, x) \in ItemStatuses
         /\ Outcome(result, role, x) = x.status \/ Outcome(result, role, x) # "starting"
         /\ result = "invalid" => role \in Secrets
  BY DEF Results, Calls, Secrets, Outcome, ItemStatuses, ItemTerminal, Waiting, ItemRead

LEMMA Answered == ASSUME IInv, NEW s \in Sessions, Answer(s) PROVE IInv'
<1>0. /\ Good(sess[s], attempts, rows) /\ InCall(sess[s]) /\ sess[s].pc = "calling" /\ s \in crew
      /\ UNCHANGED <<crew, batch, count, status, attempts, wrong, rows>>
      /\ jobs' \in SUBSET (Items \X Nat) /\ asked' \in Nat /\ deaths' \in Nat
      /\ refused' \in BOOLEAN
  BY DEF Answer, InCall, Good, stored, IInv, TypeOK, SessionInv
<1> DEFINE role == sess[s].role
           row == RowOf(sess[s])
<1>1. PICK i \in Items :
        /\ DOMAIN sess[s].known = {i} /\ ItemOf(sess[s]) = i
        /\ row = <<i, sess[s].known[i].attempts, role>> /\ row \in AttemptRows
        /\ sess[s].known[i] \in ItemRead
        /\ 1 <= sess[s].known[i].attempts /\ sess[s].known[i].attempts <= attempts[i]
  BY <1>0, RowIs DEF IInv, TypeOK
<1> DEFINE x == sess[s].known[i]
           from == [j \in {i} |-> x.status]
<1>2. role \in Calls /\ \A k \in Secrets : x.wrong[k] <= Cardinality(RowsOf(rows, i, k))
  BY <1>0, <1>1 DEF Good, CallInv
<1>3. PICK result \in Results[role] :
        LET to == [j \in {i} |-> Outcome(result, role, x)]
            m == Moves(Batch, from, to)
            errors == IF result = "invalid"
                      THEN [y \in {<<i, role>>} |-> x.wrong[role] + 1] ELSE Empty
            writes == [status |-> m.status, wrong |-> errors, count |-> m.count,
                       batch |-> m.batch, row |-> {row}]
        IN  Writing(s, writes, "asking") \/ Finish(s)
  BY <1>1 DEF Answer
<1> DEFINE to == [j \in {i} |-> Outcome(result, role, x)]
           m == Moves(Batch, from, to)
           errors == IF result = "invalid"
                     THEN [y \in {<<i, role>>} |-> x.wrong[role] + 1] ELSE Empty
           w == [status |-> m.status, wrong |-> errors, count |-> m.count, batch |-> m.batch,
                 row |-> {row}]
<1>4. CASE Finish(s)
  BY <1>0, <1>4, Finishes, QuietStep
<1>5. CASE Writing(s, w, "asking")
  <2>1. Batch \in [batch : BatchStatuses, count : Counts]
    BY DEF Batch, IInv, TypeOK
  <2>2. /\ Outcome(result, role, x) \in ItemStatuses
        /\ Outcome(result, role, x) = x.status \/ Outcome(result, role, x) # "starting"
        /\ result = "invalid" => role \in Secrets
    BY <1>1, <1>2, OutcomeOK
  <2>3. /\ WritesOK(m)
        /\ \A j \in DOMAIN m.status : j \in DOMAIN to /\ to[j] # from[j] /\ m.status[j] = to[j]
    BY <2>1, <2>2, MovesOK
  <2>6. /\ w.status = m.status /\ w.wrong = errors /\ w.count = m.count /\ w.batch = m.batch
        /\ w.row = {row}
    OBVIOUS
  <2>7. Partial(errors, Items \X Secrets, Nat)
    <3>1. CASE result = "invalid"
      <4>1. role \in Secrets /\ <<i, role>> \in Items \X Secrets
        BY <1>1, <2>2, <3>1
      <4>2. x.wrong[role] + 1 \in Nat
        BY <1>1, <4>1 DEF ItemRead
      <4>3. errors = [y \in {<<i, role>>} |-> x.wrong[role] + 1]
        BY <3>1
      <4> HIDE DEF errors
      <4> QED
        BY <4>1, <4>2, <4>3 DEF Partial
    <3>2. CASE result # "invalid"
      BY <3>2 DEF Partial, Empty
    <3> QED
      BY <3>1, <3>2
  <2> HIDE DEF m, w, errors
  <2>8. WritesOK(w)
    BY <1>1, <2>3, <2>6, <2>7 DEF WritesOK
  <2>9. \A j \in DOMAIN w.status :
          w.status[j] # "starting" /\ (w.status[j] \in Waiting => attempts[j] >= 1)
    BY <1>1, <2>2, <2>3, <2>6 DEF IInv, TypeOK, ItemRead
  <2>10. IsFiniteSet(w.row)
    BY <2>6, FS_Singleton
  <2>14. \A r \in w.row : r[2] <= attempts[r[1]]
    BY <1>1, <2>6
  <2>11. ASSUME NEW j \in Items, NEW k \in Secrets, <<j, k>> \in DOMAIN w.wrong
         PROVE  /\ w.wrong[<<j, k>>] <= Cardinality(RowsOf(rows, j, k)) + 1
                /\ \E r \in w.row : r[1] = j /\ r[3] = k
    <3>1. result = "invalid" /\ j = i /\ k = role /\ w.wrong[<<j, k>>] = x.wrong[role] + 1
      <4>1. <<j, k>> \in DOMAIN errors
        BY <2>6, <2>11
      <4>2. result = "invalid"
        BY <4>1 DEF errors, Empty
      <4>3. errors = [y \in {<<i, role>>} |-> x.wrong[role] + 1]
        BY <4>2 DEF errors
      <4> QED
        BY <2>6, <4>1, <4>2, <4>3
    <3>2. x.wrong[role] <= Cardinality(RowsOf(rows, i, role)) /\ x.wrong[role] \in Nat
      BY <1>1, <1>2, <3>1 DEF ItemRead
    <3>3. Cardinality(RowsOf(rows, i, role)) \in Nat
      BY RowsGrow DEF IInv, RowInv
    <3> QED
      BY <1>1, <2>6, <3>1, <3>2, <3>3
  <2>12. /\ DOMAIN sess' = Sessions /\ Good(sess'[s], attempts, rows)
         /\ \A t \in Sessions \ {s} : sess'[t] = sess[t]
         /\ Held(sess'[s]) = w.row
    BY <1>5, <2>8, <2>9, <2>10, <2>11, <2>14, Writes
  <2>13. Held(sess[s]) = {row}
    BY <1>0 DEF Held
  <2> QED
    BY <1>0, <2>6, <2>12, <2>13, QuietStep
<1> QED
  BY <1>3, <1>4, <1>5


--------------------------------------------------------------------------------
\* Requests about the batch, and the dispatcher

LEMMA Became ==
  ASSUME IInv, NEW s \in Sessions, NEW x, Be(s, x), Good(x, attempts, rows), Held(x) = {},
         s \in crew, UNCHANGED <<crew, batch, count, status, attempts, wrong, rows>>,
         jobs' \in SUBSET (Items \X Nat), UNCHANGED <<asked, deaths, refused>>
  PROVE  IInv'
<1>1. sess'[s] = x /\ DOMAIN sess' = Sessions /\ \A t \in Sessions \ {s} : sess'[t] = sess[t]
  BY DEF Be, IInv, TypeOK
<1> QED
  BY <1>1, QuietStep DEF IInv, TypeOK

LEMMA Resting ==
  ASSUME NEW pc \in {"expiring", "asking", "surfacing"}, NEW role \in {"none", "run"},
         NEW did \in Nat, NEW at, NEW rs
  PROVE  /\ Good([Idle EXCEPT !.pc = pc, !.role = role, !.did = did], at, rs)
         /\ Held([Idle EXCEPT !.pc = pc, !.role = role, !.did = did]) = {}
<1> DEFINE x == [Idle EXCEPT !.pc = pc, !.role = role, !.did = did]
<1>1. SessionOK(x)
  BY IdleOK DEF SessionOK, Idle, Phases, Roles
<1>2. CallInv(x, at, rs) /\ HoldInv(x) /\ WriteInv(x, at, rs) /\ Held(x) = {}
  BY DEF CallInv, InCall, HoldInv, WriteInv, Held, Idle
<1> QED
  BY <1>1, <1>2 DEF Good

LEMMA Controlled ==
  ASSUME IInv, NEW s \in Sessions, StartBatch(s) \/ PauseBatch(s)
  PROVE  IInv'
<1>0. /\ s \in crew /\ UNCHANGED <<crew, batch, count, status, attempts, wrong, rows>>
      /\ UNCHANGED <<jobs, asked, deaths, refused>>
  BY DEF StartBatch, PauseBatch, Free, stored
<1>1. CASE StartBatch(s)
  <2> DEFINE to == IF batch = "running" THEN "kept" ELSE "running"
             tx == [NoWrites EXCEPT !.batch = to]
             x == [Idle EXCEPT !.pc = "committing", !.role = "run", !.then = "asking", !.tx = tx]
  <2>1. Be(s, x)
    BY <1>1, Zenon DEF StartBatch
  <2>2. WritesOK(tx)
    BY DEF WritesOK, NoWrites, Partial, Empty, BatchStatuses
  <2>6. tx.row = {} /\ DOMAIN tx.status = {} /\ DOMAIN tx.wrong = {}
    BY DEF NoWrites, Empty
  <2> HIDE DEF tx
  <2>3. SessionOK(x)
    BY <2>2, IdleOK DEF SessionOK, Idle, Phases, Roles
  <2>4. x.pc = "committing" /\ x.tx = tx
    BY DEF Idle
  <2>5. CallInv(x, attempts, rows) /\ HoldInv(x) /\ WriteInv(x, attempts, rows) /\ Held(x) = {}
    BY <2>4, <2>6, FS_EmptySet DEF CallInv, InCall, HoldInv, WriteInv, Held
  <2> HIDE DEF x
  <2> QED
    BY <1>0, <2>1, <2>3, <2>5, Became DEF Good, IInv, TypeOK
<1>2. CASE PauseBatch(s)
  <2> DEFINE w == [NoWrites EXCEPT !.batch = "paused"]
  <2>1. Writing(s, w, "idle")
    BY <1>2 DEF PauseBatch
  <2>2. WritesOK(w)
    BY DEF WritesOK, NoWrites, Partial, Empty, BatchStatuses
  <2>3. w.row = {} /\ DOMAIN w.status = {} /\ DOMAIN w.wrong = {} /\ IsFiniteSet(w.row)
    BY FS_EmptySet DEF NoWrites, Empty
  <2> HIDE DEF w
  <2>4. /\ DOMAIN sess' = Sessions /\ Good(sess'[s], attempts, rows)
        /\ \A t \in Sessions \ {s} : sess'[t] = sess[t]
        /\ Held(sess'[s]) = {}
    BY <2>1, <2>2, <2>3, Writes
  <2> QED
    BY <1>0, <2>4, QuietStep DEF IInv, TypeOK
<1> QED
  BY <1>1, <1>2

LEMMA DispatchedOK ==
  ASSUME IInv, NEW s \in Sessions, sess[s].pc # "idle", Dispatched(s),
         UNCHANGED <<crew, batch, count, status, attempts, wrong, rows>>,
         UNCHANGED <<jobs, asked, deaths, refused>>
  PROVE  IInv'
<1>1. CASE Finish(s)
  BY <1>1, Finishes, QuietStep DEF IInv, TypeOK
<1>2. CASE Be(s, [Idle EXCEPT !.pc = "surfacing", !.role = "run", !.did = sess[s].did])
  <2>1. s \in crew /\ sess[s].did \in Nat /\ jobs' \in SUBSET (Items \X Nat)
    BY DEF IInv, SessionInv, TypeOK, SessionOK
  <2> QED
    BY <1>2, <2>1, Resting, Became
<1> QED
  BY <1>1, <1>2 DEF Dispatched

\* A session at a place of the dispatcher where it holds nothing.
LEMMA AtWork ==
  ASSUME IInv, NEW s \in Sessions, NEW x, SessionOK(x),
         x.pc \in {"asking", "claiming", "counting"}
  PROVE  Good(x, attempts, rows) /\ Held(x) = {}
  BY DEF Good, CallInv, InCall, HoldInv, WriteInv, Held

LEMMA Dispatching ==
  ASSUME IInv, NEW s \in Sessions, Ask(s) \/ Count(s) \/ Enqueue(s) \/ EnqueueFails(s)
  PROVE  IInv'
<1>0. /\ s \in crew /\ sess[s].pc # "idle" /\ SessionOK(sess[s])
      /\ UNCHANGED <<crew, batch, count, status, attempts, wrong, rows, asked, deaths, refused>>
  BY DEF Ask, Count, Enqueue, EnqueueFails, stored, IInv, TypeOK, SessionInv
<1>1. CASE Ask(s)
  <2>1. CASE Dispatched(s)
    BY <1>0, <1>1, <2>1, DispatchedOK DEF Ask, stored
  <2>2. CASE Be(s, [sess[s] EXCEPT !.pc = "claiming", !.base = Batch])
    <3> DEFINE x == [sess[s] EXCEPT !.pc = "claiming", !.base = Batch]
    <3>1. Batch \in [batch : BatchStatuses, count : Counts]
      BY DEF Batch, IInv, TypeOK
    <3>2. SessionOK(x) /\ x.pc = "claiming"
      BY <1>0, <3>1 DEF SessionOK, Phases
    <3> HIDE DEF x
    <3>3. Good(x, attempts, rows) /\ Held(x) = {}
      BY <3>2, AtWork
    <3> QED
      BY <1>0, <1>1, <2>2, <3>3, Became DEF Ask, stored, x, IInv, TypeOK
  <2> QED
    BY <1>1, <2>1, <2>2 DEF Ask
<1>2. CASE Count(s)
  <2>1. CASE Dispatched(s)
    BY <1>0, <1>2, <2>1, DispatchedOK DEF Count, stored
  <2>2. CASE Goto(s, "claiming")
    <3> DEFINE x == [sess[s] EXCEPT !.pc = "claiming"]
    <3>1. SessionOK(x) /\ x.pc = "claiming"
      BY <1>0 DEF SessionOK, Phases
    <3> HIDE DEF x
    <3>2. Good(x, attempts, rows) /\ Held(x) = {}
      BY <3>1, AtWork
    <3> QED
      BY <1>0, <1>2, <2>2, <3>2, Became DEF Count, stored, Goto, x, IInv, TypeOK
  <2> QED
    BY <1>2, <2>1, <2>2 DEF Count
<1>3. ASSUME sess[s].pc = "enqueueing"
      PROVE  /\ Claimed(s) \in Items \X Nat /\ sess[s].item \in Items
             /\ sess[s].known[sess[s].item] \in ItemRead
  <2>1. sess[s].item \in Items /\ sess[s].item \in DOMAIN sess[s].known
    BY <1>3 DEF IInv, SessionInv, HoldInv
  <2>2. sess[s].known[sess[s].item] \in ItemRead
    BY <1>0, <2>1 DEF SessionOK, Partial
  <2> QED
    BY <2>1, <2>2 DEF Claimed, ItemRead
<1>4. CASE Enqueue(s)
  <2> DEFINE x == [sess[s] EXCEPT !.pc = "counting", !.did = @ + 1, !.item = 0, !.known = Empty]
  <2>1. SessionOK(x) /\ x.pc = "counting"
    BY <1>0 DEF SessionOK, Phases, Partial, Empty
  <2>2. Be(s, x) /\ jobs' \in SUBSET (Items \X Nat)
    BY <1>3, <1>4 DEF Enqueue, IInv, TypeOK
  <2> HIDE DEF x
  <2>3. Good(x, attempts, rows) /\ Held(x) = {}
    BY <2>1, AtWork
  <2> QED
    BY <1>0, <2>2, <2>3, Became
<1>5. CASE EnqueueFails(s)
  <2> DEFINE known == [Loaded(Items) EXCEPT ![sess[s].item] = sess[s].known[sess[s].item]]
             x == [sess[s] EXCEPT !.pc = "refused", !.known = known]
  <2>0. sess[s].pc = "enqueueing" /\ Be(s, x) /\ jobs' \in SUBSET (Items \X Nat)
    BY <1>3, <1>5 DEF EnqueueFails, IInv, TypeOK
  <2>1. Loaded(Items) \in [Items -> ItemRead]
    BY DEF Loaded, ItemRead, IInv, TypeOK
  <2>2. known \in [Items -> ItemRead]
    BY <1>3, <2>0, <2>1
  <2> HIDE DEF known
  <2>3. /\ x.pc = "refused" /\ x.item = sess[s].item /\ x.known = known
        /\ x.role = sess[s].role /\ x.did = sess[s].did /\ x.base = sess[s].base
        /\ x.tx = sess[s].tx /\ x.then = sess[s].then
    BY <1>0 DEF SessionOK
  <2> HIDE DEF x
  <2>4. SessionOK(x)
    BY <1>0, <2>2, <2>3 DEF SessionOK, Phases, Partial
  <2>5. CallInv(x, attempts, rows) /\ HoldInv(x) /\ WriteInv(x, attempts, rows) /\ Held(x) = {}
    BY <1>3, <2>0, <2>2, <2>3 DEF CallInv, InCall, HoldInv, WriteInv, Held
  <2> QED
    BY <1>0, <2>0, <2>4, <2>5, Became DEF Good
<1> QED
  BY <1>1, <1>2, <1>4, <1>5

LEMMA ClaimedOK == ASSUME IInv, NEW s \in Sessions, Claim(s) PROVE IInv'
<1> DEFINE One(i) == [status |-> "starting", attempts |-> attempts[i] + 1,
                      wrong |-> [k \in Secrets |-> wrong[<<i, k>>]]]
<1>0. /\ s \in crew /\ sess[s].pc = "claiming" /\ SessionOK(sess[s])
      /\ UNCHANGED <<crew, batch, count, wrong, rows, jobs, asked, deaths, refused>>
  BY DEF Claim, IInv, TypeOK, SessionInv
<1>1. CASE Dispatched(s) /\ UNCHANGED <<status, attempts>>
  BY <1>0, <1>1, DispatchedOK
<1>2. CASE \E i \in Claimable(s) :
             /\ status' = [status EXCEPT ![i] = "starting"]
             /\ attempts' = [attempts EXCEPT ![i] = @ + 1]
             /\ Be(s, [sess[s] EXCEPT !.pc = "enqueueing", !.item = i,
                                       !.known = [j \in {i} |-> One(i)]])
  <2>1. PICK i \in Items :
          /\ status' = [status EXCEPT ![i] = "starting"]
          /\ attempts' = [attempts EXCEPT ![i] = @ + 1]
          /\ Be(s, [sess[s] EXCEPT !.pc = "enqueueing", !.item = i,
                                    !.known = [j \in {i} |-> One(i)]])
    BY <1>2 DEF Claimable
  <2> DEFINE one == One(i)
             known == [j \in {i} |-> one]
             x == [sess[s] EXCEPT !.pc = "enqueueing", !.item = i, !.known = known]
  <2>2. sess' = [sess EXCEPT ![s] = x]
    BY <2>1 DEF Be
  <2>3. one \in ItemRead /\ one.attempts >= 1
    BY DEF ItemRead, ItemStatuses, IInv, TypeOK
  <2> HIDE DEF one
  <2>4. Partial(known, Items, ItemRead) /\ i \in DOMAIN known /\ known[i].attempts >= 1
    BY <2>3 DEF Partial
  <2> HIDE DEF known
  <2>5. /\ x.pc = "enqueueing" /\ x.item = i /\ x.known = known
        /\ x.role = sess[s].role /\ x.did = sess[s].did /\ x.base = sess[s].base
        /\ x.tx = sess[s].tx /\ x.then = sess[s].then
    BY <1>0 DEF SessionOK
  <2>6. DOMAIN sess' = Sessions /\ sess'[s] = x /\ \A t \in Sessions \ {s} : sess'[t] = sess[t]
    BY <2>2 DEF IInv, TypeOK
  <2> HIDE DEF x
  <2>7. SessionOK(x)
    BY <1>0, <2>4, <2>5 DEF SessionOK, Phases
  <2>8. CallInv(x, attempts', rows') /\ HoldInv(x) /\ WriteInv(x, attempts', rows') /\ Held(x) = {}
    BY <2>4, <2>5 DEF CallInv, InCall, HoldInv, WriteInv, Held
  <2>9. /\ attempts' \in [Items -> Nat] /\ status' \in [Items -> ItemStatuses]
        /\ \A j \in Items : attempts[j] <= attempts'[j]
        /\ attempts'[i] >= 1
        /\ \A j \in Items \ {i} : status'[j] = status[j]
    BY <2>1 DEF IInv, TypeOK, ItemStatuses
  <2>10. SessionInv' /\ \A t \in Sessions : SessionOK(sess'[t])
    <3>1. /\ Good(sess'[s], attempts', rows') /\ crew' = crew
          /\ rows \subseteq rows' /\ IsFiniteSet(rows')
      BY <1>0, <2>6, <2>7, <2>8 DEF Good, IInv, RowInv
    <3> QED
      BY <1>0, <2>6, <2>9, <3>1, OthersStay
  <2>11. TypeOK'
    BY <1>0, <2>6, <2>9, <2>10 DEF IInv, TypeOK
  <2>12. Fresh'
    BY <1>0, <2>6, <2>8 DEF IInv, Fresh
  <2>13. RowInv'
    <3>1. \A r \in rows' : r[2] <= attempts'[r[1]]
      BY <1>0, <2>9 DEF IInv, RowInv, TypeOK, AttemptRows
    <3>2. \A j \in Items : status'[j] \in {"starting"} \cup Waiting => attempts'[j] >= 1
      BY <2>9 DEF IInv, RowInv, TypeOK
    <3> QED
      BY <1>0, <3>1, <3>2 DEF IInv, RowInv
  <2> QED
    BY <2>10, <2>11, <2>12, <2>13 DEF IInv
<1> QED
  BY <1>1, <1>2 DEF Claim

\* What a failed enqueue writes.
LEMMA FailOK ==
  ASSUME IInv, NEW s \in Sessions, sess[s].pc # "idle", NEW S \in SUBSET Items,
         NEW b \in [batch : BatchStatuses, count : Counts], NEW known,
         NEW then \in {"idle", "surfacing"}, Fail(s, S, b, known, then),
         UNCHANGED <<stored, deaths, refused>>
  PROVE  IInv'
<1> DEFINE from == [i \in S |-> known[i].status]
           to == [i \in S |-> "failed"]
           writes == Moves(b, from, to)
<1>1. \/ Writing(s, [writes EXCEPT !.batch = "failed"], then)
      \/ Writing(s, writes, then)
      \/ Finish(s)
  BY Zenon DEF Fail
<1>2. UNCHANGED <<crew, batch, count, status, attempts, wrong, rows, jobs, asked, deaths>>
      /\ refused' \in BOOLEAN /\ UNCHANGED refused
  BY DEF stored, IInv, TypeOK
<1>3. /\ DOMAIN to \subseteq Items
      /\ \A i \in DOMAIN to : to[i] \in ItemStatuses \ ({"starting"} \cup Waiting)
  BY DEF ItemStatuses, ItemTerminal, Waiting
<1>4. "failed" \in BatchStatuses
  BY DEF BatchStatuses, BatchTerminal
<1> HIDE DEF from, to
<1>5. CASE Finish(s)
  BY <1>2, <1>5, Finishes, QuietStep DEF IInv, TypeOK
<1>6. CASE Writing(s, writes, then)
  BY <1>2, <1>3, <1>6, MovesWritten
<1>7. CASE Writing(s, [writes EXCEPT !.batch = "failed"], then)
  BY <1>2, <1>3, <1>4, <1>7, MovesWritten
<1> QED
  BY <1>1, <1>5, <1>6, <1>7

LEMMA Unlaunched ==
  ASSUME IInv, NEW s \in Sessions, FailQueued(s) \/ Surface(s)
  PROVE  IInv'
<1>1. CASE FailQueued(s)
  <2> DEFINE x == sess[s]
             S == {x.item} \cup {i \in Items : x.known[i].status = "queued"}
             then == IF x.role = "run" THEN "surfacing" ELSE "idle"
  <2>1. Fail(s, S, x.base, x.known, then) /\ x.pc = "refused" /\ UNCHANGED <<stored, deaths, refused>>
    BY <1>1 DEF FailQueued
  <2>2. S \in SUBSET Items /\ x.base \in [batch : BatchStatuses, count : Counts]
    BY <2>1 DEF IInv, TypeOK, SessionOK, SessionInv, HoldInv
  <2>3. then \in {"idle", "surfacing"} /\ x.pc # "idle"
    BY <2>1
  <2> HIDE DEF S, then
  <2> QED
    BY <2>1, <2>2, <2>3, FailOK
<1>2. CASE Surface(s)
  <2> DEFINE open == {i \in Items : status[i] \notin ItemTerminal}
  <2>1. /\ sess[s].pc # "idle" /\ UNCHANGED <<stored, deaths, refused>>
        /\ Finish(s) \/ Fail(s, open, Batch, Loaded(Items), "idle")
    BY <1>2 DEF Surface
  <2>2. Batch \in [batch : BatchStatuses, count : Counts]
    BY DEF Batch, IInv, TypeOK
  <2>3. CASE Finish(s)
    BY <2>1, <2>3, Finishes, QuietStep DEF stored, IInv, TypeOK
  <2>4. CASE Fail(s, open, Batch, Loaded(Items), "idle")
    BY <2>1, <2>2, <2>4, FailOK
  <2> QED
    BY <2>1, <2>3, <2>4
<1> QED
  BY <1>1, <1>2

--------------------------------------------------------------------------------
\* Commits

LEMMA CommittedOK == ASSUME IInv, NEW s \in Sessions, Commit(s) PROVE IInv'
<1> DEFINE x == sess[s]
           tx == x.tx
<1>0. /\ x.pc = "committing" /\ s \in crew /\ SessionOK(x) /\ WritesOK(tx)
      /\ WriteInv(x, attempts, rows) /\ Held(x) = tx.row
      /\ UNCHANGED <<crew, attempts, jobs, asked, deaths, refused>>
  BY DEF Commit, IInv, TypeOK, SessionInv, SessionOK, Held
<1>1. /\ status' = Overlay(status, tx.status) /\ wrong' = Overlay(wrong, tx.wrong)
      /\ count' = Overlay(count, tx.count) /\ rows' = rows \cup tx.row
      /\ batch' = IF tx.batch = "kept" THEN batch ELSE tx.batch
  BY DEF Commit
<1>2. /\ status' \in [Items -> ItemStatuses] /\ wrong' \in [Items \X Secrets -> Nat]
      /\ count' \in Counts /\ batch' \in BatchStatuses /\ rows' \in SUBSET AttemptRows
  <2>1. status' \in [Items -> ItemStatuses]
    BY <1>0, <1>1 DEF Overlay, WritesOK, Partial, IInv, TypeOK
  <2>2. wrong' \in [Items \X Secrets -> Nat]
    BY <1>0, <1>1 DEF Overlay, WritesOK, Partial, IInv, TypeOK
  <2>3. count' \in Counts
    BY <1>0, <1>1 DEF Overlay, WritesOK, Partial, Counts, IInv, TypeOK
  <2>4. batch' \in BatchStatuses /\ rows' \in SUBSET AttemptRows
    BY <1>0, <1>1 DEF WritesOK, IInv, TypeOK
  <2> QED
    BY <2>1, <2>2, <2>3, <2>4
<1>3. rows \subseteq rows' /\ IsFiniteSet(rows')
  BY <1>0, <1>1, FS_Union DEF WriteInv, IInv, RowInv
<1>4. /\ DOMAIN sess' = Sessions /\ \A t \in Sessions \ {s} : sess'[t] = sess[t]
      /\ Good(sess'[s], attempts', rows') /\ Held(sess'[s]) = {}
  <2>1. CASE Finish(s)
    BY <2>1, IdleGood DEF Finish, Be, IInv, TypeOK
  <2>2. CASE /\ x.then # "idle"
             /\ Be(s, [Idle EXCEPT !.pc = x.then, !.role = x.role, !.did = x.did])
    <3>1. x.then \in {"expiring", "asking", "surfacing"} /\ x.did \in Nat
      BY <1>0, <2>2 DEF SessionOK
    <3>2. x.role \in {"none", "run"}
      BY <1>0 DEF IInv, SessionInv, WriteInv
    <3> QED
      BY <2>2, <3>1, <3>2, Resting DEF Be, IInv, TypeOK
  <2> QED
    BY <2>1, <2>2 DEF Commit
<1>5. SessionInv' /\ \A t \in Sessions : SessionOK(sess'[t])
  BY <1>0, <1>3, <1>4, OthersStay DEF IInv, TypeOK
<1>6. TypeOK'
  BY <1>0, <1>2, <1>4, <1>5 DEF IInv, TypeOK
<1>7. Fresh'
  <2>1. ASSUME NEW t \in Sessions PROVE Held(sess'[t]) \cap rows' = {}
    BY <1>0, <1>1, <1>4 DEF IInv, Fresh
  <2>2. ASSUME NEW t \in Sessions, NEW u \in Sessions \ {t}
        PROVE  Held(sess'[t]) \cap Held(sess'[u]) = {}
    BY <1>4 DEF IInv, Fresh
  <2> QED
    BY <2>1, <2>2 DEF Fresh
<1>8. RowInv'
  <2>1. \A r \in rows' : r[2] <= attempts'[r[1]]
    BY <1>0, <1>1 DEF WriteInv, IInv, RowInv
  <2>2. ASSUME NEW i \in Items, status'[i] \in {"starting"} \cup Waiting
        PROVE  attempts'[i] >= 1
    BY <1>0, <1>1, <2>2 DEF Overlay, WriteInv, IInv, RowInv, TypeOK
  <2>3. ASSUME NEW i \in Items, NEW k \in Secrets
        PROVE  wrong'[<<i, k>>] <= Cardinality(RowsOf(rows', i, k))
    <3>1. /\ Cardinality(RowsOf(rows, i, k)) \in Nat /\ Cardinality(RowsOf(rows', i, k)) \in Nat
          /\ Cardinality(RowsOf(rows, i, k)) <= Cardinality(RowsOf(rows', i, k))
      BY <1>3, RowsGrow
    <3>2. <<i, k>> \in DOMAIN wrong
      BY DEF IInv, TypeOK
    <3>3. CASE <<i, k>> \notin DOMAIN tx.wrong
      <4>1. wrong'[<<i, k>>] = wrong[<<i, k>>] /\ wrong[<<i, k>>] \in Nat
        BY <1>1, <3>2, <3>3 DEF Overlay, IInv, TypeOK
      <4> QED
        BY <3>1, <4>1 DEF IInv, RowInv
    <3>4. CASE <<i, k>> \in DOMAIN tx.wrong
      <4>1. wrong'[<<i, k>>] = tx.wrong[<<i, k>>]
        BY <1>1, <3>2, <3>4 DEF Overlay
      <4>2. PICK r \in tx.row : r[1] = i /\ r[3] = k
        BY <1>0, <3>4 DEF WriteInv
      <4>3. tx.wrong[<<i, k>>] <= Cardinality(RowsOf(rows, i, k)) + 1
        BY <1>0, <3>4 DEF WriteInv
      <4>4. r \notin rows
        BY <1>0, <4>2 DEF IInv, Fresh
      <4>5. IsFiniteSet(RowsOf(rows, i, k)) /\ r \notin RowsOf(rows, i, k)
        BY <4>4, FS_Subset DEF RowsOf, IInv, RowInv
      <4>6. /\ IsFiniteSet(RowsOf(rows, i, k) \cup {r})
            /\ Cardinality(RowsOf(rows, i, k) \cup {r}) = Cardinality(RowsOf(rows, i, k)) + 1
        BY <4>5, FS_AddElement
      <4>7. RowsOf(rows, i, k) \cup {r} \subseteq RowsOf(rows', i, k)
        BY <1>1, <4>2 DEF RowsOf
      <4>8. IsFiniteSet(RowsOf(rows', i, k))
        BY <1>3, FS_Subset DEF RowsOf
      <4>9. Cardinality(RowsOf(rows, i, k) \cup {r}) <= Cardinality(RowsOf(rows', i, k))
        BY <4>7, <4>8, FS_Subset
      <4>10. wrong'[<<i, k>>] \in Nat
        BY <1>2
      <4> QED
        BY <3>1, <4>1, <4>3, <4>6, <4>9, <4>10
    <3> QED
      BY <3>3, <3>4
  <2> QED
    BY <1>3, <2>1, <2>2, <2>3 DEF RowInv
<1> QED
  BY <1>5, <1>6, <1>7, <1>8 DEF IInv

--------------------------------------------------------------------------------
\* The inductive invariant

LEMMA Begins == ASSUME Init PROVE IInv
<1>1. \A s \in Sessions : sess[s] = Idle /\ DOMAIN sess = Sessions
  BY DEF Init
<1>2. batch \in BatchStatuses /\ count \in Counts
  BY DEF Init, BatchStatuses, Counts
<1>3. /\ status \in [Items -> ItemStatuses] /\ attempts \in [Items -> Nat]
      /\ wrong \in [Items \X Secrets -> Nat]
  BY DEF Init, ItemStatuses
<1>4. TypeOK
  BY <1>1, <1>2, <1>3, IdleOK DEF Init, TypeOK
<1>5. SessionInv /\ Fresh
  <2>1. \A s \in Sessions : Good(sess[s], attempts, rows) /\ Held(sess[s]) = {}
                             /\ sess[s].pc = "idle"
    BY <1>1, IdleGood
  <2> QED
    BY <2>1 DEF SessionInv, Fresh, Good
<1>6. RowInv
  <2>1. \A i \in Items : status[i] = "queued"
    BY DEF Init
  <2>2. \A i \in Items, k \in Secrets : wrong[<<i, k>>] = 0
    BY DEF Init
  <2>4. rows = {} /\ IsFiniteSet(rows) /\ Cardinality({}) = 0
    BY FS_EmptySet DEF Init
  <2>5. ASSUME NEW i \in Items, NEW k \in Secrets
        PROVE  wrong[<<i, k>>] <= Cardinality(RowsOf(rows, i, k))
    <3>1. RowsOf(rows, i, k) = {}
      BY <2>4 DEF RowsOf
    <3> QED
      BY <2>2, <2>4, <3>1
  <2> QED
    BY <2>1, <2>4, <2>5 DEF RowInv, Waiting
<1> QED
  BY <1>4, <1>5, <1>6 DEF IInv

LEMMA Recovering == ASSUME IInv, NEW s \in Sessions, Recover(s) PROVE IInv'
<1>1. ASSUME NEW S \in SUBSET Expired, Release(s, S) PROVE IInv'
  BY <1>1, Recovered DEF Expired
<1>2. ASSUME NEW S \in SUBSET WaitingInput, Expire(s, S) PROVE IInv'
  BY <1>2, Recovered DEF WaitingInput
<1> QED
  BY <1>1, <1>2 DEF Recover

LEMMA Inductive == ASSUME IInv, [Next]_vars PROVE IInv'
<1>1. CASE UNCHANGED vars
  BY <1>1 DEF vars, IInv, TypeOK, SessionInv, Fresh, RowInv
<1>2. CASE Next
  <2>1. PICK s \in Sessions :
          Work(s) \/ Asked(s) \/ TakeJob(s) \/ Recover(s) \/ EnqueueFails(s) \/ Dies(s)
    BY <1>2 DEF Next
  <2>2. CASE Work(s)
    BY <2>2, CommittedOK, Recorded, Answered, Moved, MovedAll, Dispatching, ClaimedOK, Unlaunched
    DEF Work
  <2>3. CASE Asked(s) \/ TakeJob(s)
    BY <2>3, Requested, Controlled DEF Asked
  <2>4. CASE Recover(s)
    BY <2>4, Recovering
  <2>5. CASE EnqueueFails(s) \/ Dies(s)
    BY <2>5, Dispatching, Died
  <2> QED
    BY <2>1, <2>2, <2>3, <2>4, <2>5
<1> QED
  BY <1>1, <1>2

\* Every variable of a batch keeps its type whatever sessions overlap and however they end.
THEOREM TypeCorrect == Spec => []TypeOK
<1>1. Init => IInv
  BY Begins
<1>2. IInv /\ [Next]_vars => IInv'
  BY Inductive
<1>3. IInv => TypeOK
  BY DEF IInv
<1> QED
  BY <1>1, <1>2, <1>3, PTL DEF Spec

\* The rows of an item's wrong codes are numbered by its attempts.
LEMMA RowsByAttempt ==
  ASSUME IInv, NEW i \in Items, NEW k \in Secrets
  PROVE  /\ Cardinality(RowsOf(rows, i, k)) \in Nat
         /\ Cardinality(RowsOf(rows, i, k)) <= attempts[i]
<1> DEFINE S == RowsOf(rows, i, k)
           f == [r \in S |-> r[2]]
<1>1. attempts[i] \in Nat /\ rows \subseteq AttemptRows
  BY DEF IInv, TypeOK
<1>2. IsFiniteSet(S) /\ Cardinality(S) \in Nat
  BY FS_Subset, FS_CardinalityType DEF RowsOf, IInv, RowInv
<1>3. IsFiniteSet(1..attempts[i]) /\ Cardinality(1..attempts[i]) = attempts[i]
  BY <1>1, FS_Interval
<1>4. f \in [S -> 1..attempts[i]]
  BY <1>1 DEF RowsOf, AttemptRows, IInv, RowInv
<1>5. \A r \in S, q \in S : f[r] = f[q] => r = q
  BY <1>1 DEF RowsOf, AttemptRows
<1> HIDE DEF S, f
<1>6. ~ (attempts[i] < Cardinality(S))
  <2> SUFFICES ASSUME attempts[i] < Cardinality(S) PROVE FALSE
    OBVIOUS
  <2>1. Cardinality(1..attempts[i]) < Cardinality(S)
    BY <1>3
  <2> DEFINE T == 1..attempts[i]
  <2> HIDE DEF T
  <2>2. IsFiniteSet(T) /\ Cardinality(T) < Cardinality(S) /\ f \in [S -> T]
    BY <1>3, <1>4, <2>1 DEF T
  <2>3. \E x, y \in S : x # y /\ f[x] = f[y]
    BY <1>2, <2>2, FS_PigeonHole, Zenon
  <2> QED
    BY <1>5, <2>3
<1> QED
  BY <1>1, <1>2, <1>6 DEF S

\* However sessions overlap, an attempt counts one wrong code and one wrong password at
\* most: the unique constraint of AuthAttempt, which each wrong answer is committed with.
THEOREM WrongCodesPerAttempt == Spec => []WrongPerAttempt
<1>1. Init => IInv
  BY Begins
<1>2. IInv /\ [Next]_vars => IInv'
  BY Inductive
<1>3. IInv => WrongPerAttempt
  <2> SUFFICES ASSUME IInv, NEW i \in Items, NEW k \in Secrets
      PROVE  wrong[<<i, k>>] <= attempts[i]
    BY DEF WrongPerAttempt
  <2>1. wrong[<<i, k>>] \in Nat /\ attempts[i] \in Nat
    BY DEF IInv, TypeOK
  <2>2. wrong[<<i, k>>] <= Cardinality(RowsOf(rows, i, k))
    BY DEF IInv, RowInv
  <2> QED
    BY <2>1, <2>2, RowsByAttempt
<1> QED
  BY <1>1, <1>2, <1>3, PTL DEF Spec

--------------------------------------------------------------------------------
\* The running limit

Claiming == {s \in Sessions : sess[s].pc = "claiming"}

LEMMA Counted ==
  ASSUME IInv
  PROVE  /\ IsFiniteSet(Running) /\ IsFiniteSet(Claiming) /\ IsFiniteSet(crew)
         /\ Cardinality(Running) \in Nat /\ Cardinality(Claiming) \in Nat
         /\ Cardinality(crew) \in Nat
         /\ Claiming \subseteq crew /\ Cardinality(Claiming) <= Cardinality(crew)
<1>1. IsFiniteSet(Running) /\ IsFiniteSet(Claiming) /\ IsFiniteSet(crew) /\ Claiming \subseteq crew
  BY ItemsAssumption, SessionsAssumption, FS_Subset
  DEF Running, Claiming, IInv, TypeOK, SessionInv
<1> QED
  BY <1>1, FS_CardinalityType, FS_Subset

\* A step after which no more items run and no more sessions are about to claim.
LEMMA NoMore ==
  ASSUME IInv, RunningLimit, Running' \subseteq Running, Claiming' \subseteq Claiming,
         UNCHANGED crew
  PROVE  RunningLimit'
<1>1. Cardinality(Running') <= Cardinality(Running) /\ Cardinality(Running') \in Nat
  BY Counted, FS_Subset, FS_CardinalityType
<1>2. Cardinality(Claiming') <= Cardinality(Claiming) /\ Cardinality(Claiming') \in Nat
  BY Counted, FS_Subset, FS_CardinalityType
<1>3. Cardinality(Running) + Cardinality(Claiming) <= MaxRunning + Cardinality(crew) - 1
  BY DEF RunningLimit, Claiming
<1>4. SUFFICES Cardinality(Running') + Cardinality(Claiming') <= MaxRunning + Cardinality(crew) - 1
  BY DEF RunningLimit, Claiming
<1>5. /\ Cardinality(Running) \in Nat /\ Cardinality(Claiming) \in Nat
      /\ Cardinality(crew) \in Nat /\ MaxRunning \in Nat
  BY Counted, LimitsAssumption
<1> QED
  BY <1>1, <1>2, <1>3, <1>5

LEMMA DispatchedElsewhere ==
  ASSUME IInv, NEW s \in Sessions, Dispatched(s)
  PROVE  Claiming' \subseteq Claiming
<1>1. \E x : x.pc # "claiming" /\ Be(s, x)
  <2>1. ASSUME NEW did
        PROVE  [Idle EXCEPT !.pc = "surfacing", !.role = "run", !.did = did].pc # "claiming"
    BY DEF Idle
  <2>2. Idle.pc # "claiming"
    BY DEF Idle
  <2> QED
    BY <2>1, <2>2, Zenon DEF Dispatched, Finish
<1> QED
  BY <1>1 DEF Claiming, Be, IInv, TypeOK

\* A dispatcher that has counted goes on to claim.
LEMMA Allows ==
  ASSUME IInv, NEW s \in Sessions, Ask(s) \/ Count(s), RunningLimit, IInv'
  PROVE  RunningLimit'
<1>1. Running' = Running /\ crew' = crew
  BY DEF Ask, Count, stored, Running
<1>2. CASE MayClaim(s)
  <2>1. Cardinality(Running) < MaxRunning
    BY <1>2 DEF MayClaim
  <2>2. Cardinality(Claiming') \in Nat /\ Cardinality(Claiming') <= Cardinality(crew')
    <3>1. IsFiniteSet(crew) /\ Claiming' \subseteq crew
      BY <1>1, Counted DEF Claiming, IInv, SessionInv
    <3> QED
      BY <1>1, <3>1, FS_Subset, FS_CardinalityType
  <2> QED
    BY <1>1, <2>1, <2>2, Counted, LimitsAssumption DEF RunningLimit, Claiming
<1>3. CASE ~ MayClaim(s)
  <2>1. Dispatched(s)
    BY <1>3 DEF Ask, Count
  <2>2. Claiming' \subseteq Claiming
    BY <2>1, DispatchedElsewhere
  <2> QED
    BY <1>1, <2>2, NoMore
<1> QED
  BY <1>2, <1>3

LEMMA Starts ==
  ASSUME IInv, NEW s \in Sessions, Claim(s), RunningLimit, IInv'
  PROVE  RunningLimit'
<1>0. sess[s].pc = "claiming" /\ crew' = crew
  BY DEF Claim
<1>1. CASE Dispatched(s) /\ UNCHANGED <<status, attempts>>
  <2>1. Claiming' \subseteq Claiming
    BY <1>1, DispatchedElsewhere
  <2>2. Running' = Running
    BY <1>1 DEF Running
  <2> QED
    BY <1>0, <2>1, <2>2, NoMore
<1>2. CASE ~ (Dispatched(s) /\ UNCHANGED <<status, attempts>>)
  <2>1. PICK i \in Items :
          /\ status[i] = "queued" /\ status' = [status EXCEPT ![i] = "starting"]
          /\ \E x : x.pc = "enqueueing" /\ Be(s, x)
    <3> DEFINE One(i) == [status |-> "starting", attempts |-> attempts[i] + 1,
                          wrong |-> [k \in Secrets |-> wrong[<<i, k>>]]]
    <3>1. PICK i \in Claimable(s) :
            /\ status' = [status EXCEPT ![i] = "starting"]
            /\ Be(s, [sess[s] EXCEPT !.pc = "enqueueing", !.item = i,
                                     !.known = [j \in {i} |-> One(i)]])
      BY <1>2 DEF Claim
    <3> HIDE DEF One
    <3>2. [sess[s] EXCEPT !.pc = "enqueueing", !.item = i, !.known = [j \in {i} |-> One(i)]].pc
            = "enqueueing"
      BY DEF IInv, TypeOK, SessionOK
    <3> QED
      BY <3>1, <3>2 DEF Claimable
  <2>2. Running' = Running \cup {i} /\ i \notin Running
    BY <2>1 DEF Running, IInv, TypeOK
  <2>3. Claiming' = Claiming \ {s} /\ s \in Claiming
    BY <1>0, <2>1 DEF Claiming, Be, IInv, TypeOK
  <2>4. Cardinality(Running') = Cardinality(Running) + 1
    BY <2>2, Counted, FS_AddElement
  <2>5. Cardinality(Claiming') = Cardinality(Claiming) - 1
    BY <2>3, Counted, FS_RemoveElement
  <2>6. RunningLimit = (Cardinality(Running) + Cardinality(Claiming)
                          <= MaxRunning + Cardinality(crew) - 1)
    BY DEF RunningLimit, Claiming
  <2>7. RunningLimit' = (Cardinality(Running') + Cardinality(Claiming')
                           <= MaxRunning + Cardinality(crew') - 1)
    BY DEF RunningLimit, Claiming
  <2> QED
    BY <1>0, <2>4, <2>5, <2>6, <2>7, Counted, LimitsAssumption
<1> QED
  BY <1>1, <1>2

\* A session that does something else is not about to claim after it.
LEMMA Elsewhere ==
  ASSUME IInv, NEW s \in Sessions,
         \/ Record(s) \/ Answer(s) \/ Move(s) \/ MoveAll(s) \/ Enqueue(s) \/ FailQueued(s)
         \/ Surface(s) \/ Asked(s) \/ TakeJob(s) \/ Recover(s) \/ EnqueueFails(s) \/ Dies(s)
  PROVE  Running' = Running /\ Claiming' \subseteq Claiming /\ crew' = crew
<1>1. UNCHANGED <<status, crew>>
  BY DEF Record, Answer, Move, MoveAll, Enqueue, FailQueued, Surface, Asked, TakeJob, Recover,
         EnqueueFails, Dies, Submit, StartBatch, PauseBatch, CancelBatch, CancelItem, Requeue,
         Release, Expire, stored
<1>2. \E x : x.pc # "claiming" /\ Be(s, x)
  <2>1. ASSUME Finish(s) PROVE \E x : x.pc # "claiming" /\ Be(s, x)
    BY <2>1 DEF Finish, Idle
  <2>2. ASSUME NEW role, NEW S, Read(s, role, S) PROVE \E x : x.pc # "claiming" /\ Be(s, x)
    BY <2>2 DEF Read, Idle
  <2>3. ASSUME NEW w, NEW then, Writing(s, w, then) PROVE \E x : x.pc # "claiming" /\ Be(s, x)
    BY <2>3 DEF Writing, Idle
  <2>4. ASSUME NEW S, NEW b, NEW known, NEW then, Fail(s, S, b, known, then)
        PROVE  \E x : x.pc # "claiming" /\ Be(s, x)
    BY <2>1, <2>3, <2>4, Zenon DEF Fail
  <2>5. CASE Record(s)
    <3>1. [sess[s] EXCEPT !.pc = "calling"].pc # "claiming"
      BY DEF IInv, TypeOK, SessionOK
    <3> QED
      BY <2>1, <2>5, <3>1 DEF Record, Goto
  <2>6. CASE Answer(s)
    BY <2>1, <2>3, <2>6, Zenon DEF Answer
  <2>7. CASE Move(s)
    BY <2>3, <2>7, Zenon DEF Move
  <2>8. CASE MoveAll(s)
    BY <2>1, <2>3, <2>8, Zenon DEF MoveAll
  <2>9. CASE FailQueued(s) \/ Surface(s)
    BY <2>1, <2>4, <2>9, Zenon DEF FailQueued, Surface
  <2>10. CASE Dies(s)
    BY <2>1, <2>10 DEF Dies
  <2>11. CASE Recover(s)
    BY <2>2, <2>11 DEF Recover, Release, Expire
  <2>12. CASE TakeJob(s)
    <3>1. [Idle EXCEPT !.pc = "asking"].pc # "claiming"
      BY DEF Idle
    <3> QED
      BY <2>2, <2>12, <3>1, Zenon DEF TakeJob
  <2>13. CASE Enqueue(s) \/ EnqueueFails(s)
    <3>1. ASSUME NEW known
          PROVE  [sess[s] EXCEPT !.pc = "refused", !.known = known].pc # "claiming"
      BY DEF IInv, TypeOK, SessionOK
    <3>2. [sess[s] EXCEPT !.pc = "counting", !.did = @ + 1, !.item = 0, !.known = Empty].pc
            # "claiming"
      BY DEF IInv, TypeOK, SessionOK
    <3> QED
      BY <2>13, <3>1, <3>2, Zenon DEF Enqueue, EnqueueFails
  <2>14. CASE Asked(s)
    <3>1. CASE StartBatch(s)
      <4>1. ASSUME NEW tx
            PROVE  [Idle EXCEPT !.pc = "committing", !.role = "run", !.then = "asking",
                                !.tx = tx].pc # "claiming"
        BY DEF Idle
      <4> QED
        BY <3>1, <4>1, Zenon DEF StartBatch
    <3>2. CASE PauseBatch(s)
      BY <2>3, <3>2, Zenon DEF PauseBatch
    <3> QED
      BY <2>2, <2>14, <3>1, <3>2, Zenon DEF Asked, Submit, CancelBatch, CancelItem, Requeue
  <2> QED
    BY <2>5, <2>6, <2>7, <2>8, <2>9, <2>10, <2>11, <2>12, <2>13, <2>14
<1>3. Claiming' \subseteq Claiming
  BY <1>2 DEF Claiming, Be, IInv, TypeOK
<1> QED
  BY <1>1, <1>3 DEF Running

LEMMA Commits ==
  ASSUME IInv, NEW s \in Sessions, Commit(s)
  PROVE  Running' \subseteq Running /\ Claiming' \subseteq Claiming /\ crew' = crew
<1>1. sess[s].pc = "committing" /\ status' = Overlay(status, sess[s].tx.status) /\ crew' = crew
  BY DEF Commit
<1>2. \A i \in DOMAIN sess[s].tx.status : sess[s].tx.status[i] # "starting"
  BY <1>1 DEF IInv, SessionInv, WriteInv
<1>3. Running' \subseteq Running
  BY <1>1, <1>2 DEF Overlay, Running, IInv, TypeOK
<1>4. \E x : x.pc # "claiming" /\ Be(s, x)
  <2>1. ASSUME NEW pc, NEW role, NEW did
        PROVE  [Idle EXCEPT !.pc = pc, !.role = role, !.did = did].pc = pc
    BY DEF Idle
  <2>2. Idle.pc # "claiming" /\ sess[s].then # "claiming"
    BY DEF Idle, IInv, TypeOK, SessionOK
  <2>3. [Idle EXCEPT !.pc = sess[s].then, !.role = sess[s].role, !.did = sess[s].did].pc
          # "claiming"
    BY <2>1, <2>2
  <2> QED
    BY <2>2, <2>3, Zenon DEF Commit, Finish
<1>5. Claiming' \subseteq Claiming
  BY <1>4 DEF Claiming, Be, IInv, TypeOK
<1> QED
  BY <1>1, <1>3, <1>5

\* Dispatchers count and claim in steps of their own: each of them that has counted claims
\* one item more, and no other step starts any.
THEOREM RunningLimitKept == Spec => []RunningLimit
<1>1. Init => IInv /\ RunningLimit
  <2> SUFFICES ASSUME Init PROVE RunningLimit
    BY Begins
  <2>1. Running = {} /\ Claiming = {}
    BY DEF Init, Running, Claiming, Idle
  <2>2. IsFiniteSet(crew) /\ crew # {}
    BY SessionsAssumption, FS_Subset DEF Init
  <2>3. Cardinality(crew) \in Nat /\ Cardinality(crew) # 0
    BY <2>2, FS_CardinalityType, FS_EmptySet
  <2>4. Cardinality(Running) = 0 /\ Cardinality(Claiming) = 0 /\ MaxRunning \in Nat
    BY <2>1, FS_EmptySet, LimitsAssumption
  <2>5. Cardinality(Running) + Cardinality(Claiming) <= MaxRunning + Cardinality(crew) - 1
    BY <2>3, <2>4
  <2> QED
    BY <2>5 DEF RunningLimit, Claiming
<1>2. IInv /\ RunningLimit /\ [Next]_vars => IInv' /\ RunningLimit'
  <2> SUFFICES ASSUME IInv, RunningLimit, [Next]_vars PROVE RunningLimit'
    BY Inductive
  <2>0. IInv'
    BY Inductive
  <2>1. CASE UNCHANGED vars
    BY <2>1 DEF vars, RunningLimit, Running
  <2>2. CASE Next
    <3>1. PICK s \in Sessions :
            Work(s) \/ Asked(s) \/ TakeJob(s) \/ Recover(s) \/ EnqueueFails(s) \/ Dies(s)
      BY <2>2 DEF Next
    <3>2. CASE Commit(s)
      BY <3>2, Commits, NoMore
    <3>3. CASE Ask(s) \/ Count(s)
      BY <2>0, <3>3, Allows
    <3>4. CASE Claim(s)
      BY <2>0, <3>4, Starts
    <3>5. CASE ~ (Commit(s) \/ Ask(s) \/ Count(s) \/ Claim(s))
      BY <3>1, <3>5, Elsewhere, NoMore DEF Work
    <3> QED
      BY <3>2, <3>3, <3>4, <3>5
  <2> QED
    BY <2>1, <2>2
<1> QED
  BY <1>1, <1>2, PTL DEF Spec

--------------------------------------------------------------------------------
\* One session alone: what it has read stays so until it writes

\* The items that ended with a status of the counter k.
EndedAs(st, k) == {i \in Items : st[i] \in ItemTerminal /\ CounterOf[st[i]] = k}
Exact(st, ct) == \A k \in Counters : ct[k] = Cardinality(EndedAs(st, k))
Active == {"starting"} \cup Waiting
Rests(b, st) == b \in BatchTerminal => \A i \in Items : st[i] \notin Active
Left(st, at, cap) == \A i \in Items : at[i] <= cap /\ (st[i] = "queued" => at[i] < cap)

\* A batch is over once all its items have ended, and not because somebody cancelled it.
AllEnd(st) == \A i \in Items : st[i] \in ItemTerminal
Settled(b, st) == b # "cancelled" /\ (AllEnd(st) => b \in BatchTerminal)
EndOf(b, st) ==
  IF b \in BatchTerminal \/ ~ AllEnd(st) THEN b
  ELSE IF \E i \in Items : st[i] = "authorized" THEN "completed" ELSE "failed"
Switches == {<<"pending", "running">>, <<"running", "paused">>, <<"paused", "running">>}
EndBy(w, b) == IF w.batch = "kept" THEN b ELSE w.batch

Current(known, st, at) ==
  \A i \in DOMAIN known : known[i].status = st[i] /\ known[i].attempts = at[i]

\* What the session is about to do is a legal move of the item as it is.
MayMove(role, from, at, cap) ==
  /\ role = "cancel_item" => "cancelled" \in ItemNext[from]
  /\ role = "requeue" => (from = "queued" \/ "queued" \in ItemNext[from]) /\ at < cap
  /\ role = "release" => from = "starting"
  /\ role = "expire" => from \in Waiting
  /\ role \in Calls => from \in Active

\* What it has written leaves the batch as it should be.
Balanced(w, b, ct, st, at, cap) ==
  /\ Exact(Overlay(st, w.status), Overlay(ct, w.count))
  /\ Rests(EndBy(w, b), Overlay(st, w.status))
  /\ \/ EndBy(w, b) = EndOf(b, Overlay(st, w.status))
     \/ DOMAIN w.status = {} /\ DOMAIN w.count = {} /\ <<b, EndBy(w, b)>> \in Switches
  /\ \A i \in DOMAIN w.status :
       /\ w.status[i] \in ItemNext[st[i]] \ {"starting"}
       /\ w.status[i] = "queued" => at[i] < cap

AloneSession(x, b, ct, st, at, cap) ==
  /\ x.pc \in {"loaded", "calling", "enqueueing", "refused"} => Current(x.known, st, at)
  /\ x.pc \in {"loaded", "calling"} =>
       \A i \in DOMAIN x.known : MayMove(x.role, st[i], at[i], cap)
  /\ x.pc = "loaded" /\ x.role = "cancel_batch" =>
       b \notin BatchTerminal /\ x.base = [batch |-> b, count |-> ct]
  /\ x.pc \in {"claiming", "enqueueing", "counting", "refused"} =>
       b = "running" /\ x.base = [batch |-> b, count |-> ct]
  /\ x.pc \in {"enqueueing", "refused"} => st[x.item] = "starting"
  /\ x.pc = "committing" => Balanced(x.tx, b, ct, st, at, cap)

Cap == MaxAttempts + asked

AloneInv ==
  Alone =>
    /\ Exact(status, count) /\ Left(status, attempts, Cap)
    /\ Rests(batch, status) /\ Settled(batch, status)
    /\ \A s \in Sessions : AloneSession(sess[s], batch, count, status, attempts, Cap)

LEMMA SoleSession ==
  ASSUME IInv, Alone, NEW s \in crew
  PROVE  s \in Sessions /\ \A t \in Sessions \ {s} : sess[t].pc = "idle"
<1>1. IsFiniteSet(crew) /\ crew \subseteq Sessions
  BY SessionsAssumption, FS_Subset DEF IInv, TypeOK
<1>2. PICK c : crew = {c}
  BY <1>1, FS_Singleton DEF Alone
<1> QED
  BY <1>1, <1>2 DEF IInv, SessionInv

LEMMA Unheld ==
  ASSUME NEW x, x.pc \in {"idle", "expiring", "asking", "surfacing"},
         NEW b, NEW ct, NEW st, NEW at, NEW cap
  PROVE  AloneSession(x, b, ct, st, at, cap)
  BY DEF AloneSession

\* A step that leaves the tables alone.
LEMMA AloneStep ==
  ASSUME IInv, AloneInv, NEW s \in Sessions, s \in crew,
         UNCHANGED <<crew, batch, count, status, attempts>>, asked' \in Nat, asked <= asked',
         \A t \in Sessions \ {s} : sess'[t] = sess[t],
         Alone => AloneSession(sess'[s], batch, count, status, attempts, Cap')
  PROVE  AloneInv'
<1> SUFFICES ASSUME Alone' PROVE AloneInv'
  BY DEF AloneInv
<1>1. Alone
  BY DEF Alone
<1>2. Cap \in Nat /\ Cap' \in Nat /\ Cap <= Cap'
  <2>1. MaxAttempts \in Nat
    BY LimitsAssumption
  <2>2. asked \in Nat
    BY DEF IInv, TypeOK
  <2>3. PICK n \in Nat : asked' = n
    OBVIOUS
  <2>4. Cap = MaxAttempts + asked /\ Cap' = MaxAttempts + n
    BY <2>3 DEF Cap
  <2> QED
    BY <2>1, <2>2, <2>3, <2>4
<1>3. Left(status, attempts, Cap')
  BY <1>1, <1>2 DEF AloneInv, Left, IInv, TypeOK
<1>4. \A t \in Sessions \ {s} : sess[t].pc = "idle"
  BY <1>1, SoleSession
<1>5. \A t \in Sessions : AloneSession(sess'[t], batch, count, status, attempts, Cap')
  BY <1>1, <1>4, Unheld
<1> QED
  BY <1>1, <1>3, <1>5 DEF AloneInv

LEMMA AloneFinish ==
  ASSUME IInv, NEW s \in Sessions, Finish(s), NEW b, NEW ct, NEW st, NEW at, NEW cap
  PROVE  AloneSession(sess'[s], b, ct, st, at, cap) /\ \A t \in Sessions \ {s} : sess'[t] = sess[t]
<1>1. sess'[s] = Idle /\ \A t \in Sessions \ {s} : sess'[t] = sess[t]
  BY DEF Finish, Be, IInv, TypeOK
<1>2. Idle.pc = "idle"
  BY DEF Idle
<1> QED
  BY <1>1, <1>2, Unheld

LEMMA AloneDispatched ==
  ASSUME IInv, NEW s \in Sessions, Dispatched(s), NEW b, NEW ct, NEW st, NEW at, NEW cap
  PROVE  AloneSession(sess'[s], b, ct, st, at, cap) /\ \A t \in Sessions \ {s} : sess'[t] = sess[t]
<1>1. CASE Finish(s)
  BY <1>1, AloneFinish
<1>2. CASE Be(s, [Idle EXCEPT !.pc = "surfacing", !.role = "run", !.did = sess[s].did])
  <2> DEFINE x == [Idle EXCEPT !.pc = "surfacing", !.role = "run", !.did = sess[s].did]
  <2>1. sess'[s] = x /\ \A t \in Sessions \ {s} : sess'[t] = sess[t]
    BY <1>2 DEF Be, IInv, TypeOK
  <2>2. x.pc = "surfacing"
    BY DEF Idle
  <2> HIDE DEF x
  <2> QED
    BY <2>1, <2>2, Unheld
<1> QED
  BY <1>1, <1>2 DEF Dispatched

LEMMA AloneRead ==
  ASSUME IInv, NEW s \in Sessions, NEW role, NEW S \in SUBSET Items, Read(s, role, S), NEW cap,
         role = "cancel_batch" => batch \notin BatchTerminal,
         \A i \in S : MayMove(role, status[i], attempts[i], cap)
  PROVE  /\ AloneSession(sess'[s], batch, count, status, attempts, cap)
         /\ \A t \in Sessions \ {s} : sess'[t] = sess[t]
<1> DEFINE base == IF role = "cancel_batch" THEN Batch ELSE NoBatch
           x == [pc |-> "loaded", role |-> role, item |-> 0, known |-> Loaded(S), base |-> base,
                 did |-> 0, tx |-> NoWrites, then |-> "idle"]
<1>1. sess'[s] = x /\ \A t \in Sessions \ {s} : sess'[t] = sess[t]
  BY DEF Read, Be, Idle, IInv, TypeOK
<1>2. Current(Loaded(S), status, attempts) /\ DOMAIN Loaded(S) = S
  BY DEF Current, Loaded
<1>3. role = "cancel_batch" => base = [batch |-> batch, count |-> count]
  BY DEF Batch
<1> HIDE DEF base
<1>4. AloneSession(x, batch, count, status, attempts, cap)
  BY <1>2, <1>3 DEF AloneSession
<1> QED
  BY <1>1, <1>4

LEMMA AloneWriting ==
  ASSUME IInv, NEW s \in Sessions, NEW w, NEW then, Writing(s, w, then), NEW cap,
         Balanced(w, batch, count, status, attempts, cap)
  PROVE  /\ AloneSession(sess'[s], batch, count, status, attempts, cap)
         /\ \A t \in Sessions \ {s} : sess'[t] = sess[t]
<1> DEFINE role == IF sess[s].role = "run" THEN "run" ELSE "none"
           x == [pc |-> "committing", role |-> role, item |-> 0, known |-> Empty,
                 base |-> NoBatch, did |-> sess[s].did, tx |-> w, then |-> then]
<1>1. sess'[s] = x /\ \A t \in Sessions \ {s} : sess'[t] = sess[t]
  BY DEF Writing, Be, Idle, IInv, TypeOK
<1>2. AloneSession(x, batch, count, status, attempts, cap)
  BY DEF AloneSession
<1> QED
  BY <1>1, <1>2

--------------------------------------------------------------------------------
\* The counters

LEMMA EndedFinite ==
  ASSUME NEW st, NEW k
  PROVE  IsFiniteSet(EndedAs(st, k)) /\ Cardinality(EndedAs(st, k)) \in Nat
<1>1. IsFiniteSet(EndedAs(st, k))
  BY ItemsAssumption, FS_Subset DEF EndedAs
<1> QED
  BY <1>1, FS_CardinalityType

\* Counters that are exact reach the total when every item has ended, and only then.
LEMMA AllEnded ==
  ASSUME NEW st \in [Items -> ItemStatuses], NEW ct, Exact(st, ct)
  PROVE  Ended(ct) <=> AllEnd(st)
<1> DEFINE A == EndedAs(st, "success")
           B == EndedAs(st, "failed")
           C == EndedAs(st, "cancelled")
           T == {i \in Items : st[i] \in ItemTerminal}
<1>1. /\ IsFiniteSet(A) /\ IsFiniteSet(B) /\ IsFiniteSet(C)
      /\ Cardinality(A) \in Nat /\ Cardinality(B) \in Nat /\ Cardinality(C) \in Nat
  BY EndedFinite
<1>2. ct.success = Cardinality(A) /\ ct.failed = Cardinality(B) /\ ct.cancelled = Cardinality(C)
  BY DEF Exact, Counters
<1>3. \A u \in ItemTerminal : CounterOf[u] \in {"success", "failed", "cancelled"}
  BY DEF ItemTerminal, CounterOf
<1>4. A \cap B = {} /\ (A \cup B) \cap C = {} /\ (A \cup B) \cup C = T
  BY <1>3 DEF EndedAs
<1> HIDE DEF A, B, C
<1>5. IsFiniteSet(A \cup B) /\ Cardinality(A \cup B) = Cardinality(A) + Cardinality(B)
  <2>1. Cardinality(A \cap B) = 0
    BY <1>4, FS_EmptySet
  <2>2. IsFiniteSet(A \cup B) /\
        Cardinality(A \cup B) = Cardinality(A) + Cardinality(B) - Cardinality(A \cap B)
    BY <1>1, FS_Union
  <2> QED
    BY <1>1, <2>1, <2>2
<1>6. Cardinality((A \cup B) \cup C) = Cardinality(A) + Cardinality(B) + Cardinality(C)
  <2>1. Cardinality((A \cup B) \cup C)
          = Cardinality(A \cup B) + Cardinality(C) - Cardinality((A \cup B) \cap C)
    BY <1>1, <1>5, FS_Union
  <2>2. Cardinality((A \cup B) \cap C) = 0
    BY <1>4, FS_EmptySet
  <2> QED
    BY <1>1, <1>5, <2>1, <2>2
<1>7. IsFiniteSet(Items) /\ T \in SUBSET Items /\ Total \in Nat
  BY ItemsAssumption, FS_CardinalityType DEF Total
<1>8. Ended(ct) <=> Cardinality(T) >= Total
  BY <1>1, <1>2, <1>4, <1>6 DEF Ended
<1>9. Cardinality(T) <= Cardinality(Items) /\ (Cardinality(Items) = Cardinality(T) => Items = T)
  BY <1>7, FS_Subset
<1>10. Cardinality(T) \in Nat /\ Cardinality(Items) \in Nat
  BY <1>7, FS_Subset, FS_CardinalityType
<1>11. Ended(ct) <=> Items = T
  BY <1>8, <1>9, <1>10 DEF Total
<1> QED
  BY <1>11 DEF AllEnd

\* What exact counters make of a batch is what its items make of it.
LEMMA VerdictExact ==
  ASSUME NEW st \in [Items -> ItemStatuses], NEW ct, Exact(st, ct), NEW b
  PROVE  Concluded(b, ct) = EndOf(b, st)
<1>1. Ended(ct) <=> AllEnd(st)
  BY AllEnded
<1>2. ct.success > 0 <=> \E i \in Items : st[i] = "authorized"
  <2>1. ct.success = Cardinality(EndedAs(st, "success"))
    BY DEF Exact, Counters
  <2>2. EndedAs(st, "success") # {} <=> \E i \in Items : st[i] = "authorized"
    BY DEF EndedAs, ItemTerminal, CounterOf
  <2>3. Cardinality(EndedAs(st, "success")) = 0 <=> EndedAs(st, "success") = {}
    BY EndedFinite, FS_EmptySet
  <2>4. Cardinality(EndedAs(st, "success")) \in Nat
    BY EndedFinite
  <2> QED
    BY <2>1, <2>2, <2>3, <2>4
<1> QED
  BY <1>1, <1>2 DEF Concluded, EndOf

\* Legal moves of items as they are keep exact counters exact.
LEMMA RecountExact ==
  ASSUME NEW st \in [Items -> ItemStatuses], NEW ct \in Counts, Exact(st, ct),
         NEW from, NEW to, DOMAIN to \subseteq Items,
         \A i \in DOMAIN to :
           from[i] = st[i] /\ to[i] \in ItemStatuses /\ (to[i] = st[i] \/ to[i] \in ItemNext[st[i]]),
         NEW after \in [Items -> ItemStatuses],
         \A i \in Items : after[i] = IF i \in DOMAIN to THEN to[i] ELSE st[i],
         NEW k \in Counters
  PROVE  Recounted(ct, from, to)[k] = Cardinality(EndedAs(after, k))
<1> DEFINE A == EndedAs(st, k)
           E == Entering(from, to, k)
           L == Leaving(from, to, k)
<1>1. E \cap A = {}
  BY DEF Entering, EndedAs
<1>2. L \subseteq A
  BY DEF Leaving, EndedAs
<1>3. EndedAs(after, k) = (A \ L) \cup E
  <2>1. ASSUME NEW i \in Items
        PROVE  i \in EndedAs(after, k) <=> i \in (A \ L) \cup E
    <3>1. CASE i \notin DOMAIN to
      BY <3>1 DEF EndedAs, Entering, Leaving
    <3>2. CASE i \in DOMAIN to
      <4>1. st[i] \in ItemTerminal => ItemNext[st[i]] \cap ItemTerminal = {}
        BY DEF ItemTerminal, ItemNext
      <4>2. after[i] = to[i] /\ from[i] = st[i]
        BY <3>2
      <4>3. CASE to[i] = st[i]
        BY <3>2, <4>2, <4>3 DEF EndedAs, Entering, Leaving
      <4>4. CASE to[i] \in ItemNext[st[i]]
        BY <3>2, <4>1, <4>2, <4>4 DEF EndedAs, Entering, Leaving
      <4> QED
        BY <3>2, <4>3, <4>4
    <3> QED
      BY <3>1, <3>2
  <2>2. E \subseteq Items /\ A \subseteq Items /\ EndedAs(after, k) \subseteq Items
    BY DEF Entering, EndedAs
  <2> QED
    BY <2>1, <2>2
<1>4. IsFiniteSet(A) /\ IsFiniteSet(E) /\ IsFiniteSet(L)
  BY ItemsAssumption, FS_Subset DEF EndedAs, Entering, Leaving
<1>5. Cardinality(A) \in Nat /\ Cardinality(E) \in Nat /\ Cardinality(L) \in Nat
  BY <1>4, FS_CardinalityType
<1>6. ct[k] = Cardinality(A)
  BY DEF Exact
<1>7. Recounted(ct, from, to)[k] =
        IF Cardinality(A) + Cardinality(E) > Cardinality(L)
        THEN Cardinality(A) + Cardinality(E) - Cardinality(L) ELSE 0
  <2>1. LET up == ct[k] + Cardinality(E)
            down == Cardinality(L)
        IN  Recounted(ct, from, to)[k] = IF up > down THEN up - down ELSE 0
    BY DEF Recounted
  <2> HIDE DEF A, E, L
  <2> QED
    BY <1>5, <1>6, <2>1
<1> HIDE DEF A, E, L
<1>8. Cardinality(L) <= Cardinality(A)
  BY <1>2, <1>4, FS_Subset
<1>9. IsFiniteSet(A \ L) /\ Cardinality(A \ L) = Cardinality(A) - Cardinality(L)
  <2>1. A \cap L = L
    BY <1>2
  <2> QED
    BY <1>4, <2>1, FS_Difference
<1>10. Cardinality((A \ L) \cup E) = Cardinality(A) - Cardinality(L) + Cardinality(E)
  <2>1. (A \ L) \cap E = {}
    BY <1>1
  <2>2. Cardinality((A \ L) \cup E) = Cardinality(A \ L) + Cardinality(E) - Cardinality((A \ L) \cap E)
    BY <1>4, <1>9, FS_Union
  <2> QED
    BY <1>5, <1>9, <2>1, <2>2, FS_EmptySet
<1> QED
  BY <1>3, <1>5, <1>7, <1>8, <1>10

\* Where the moves take the items.
LEMMA MovesTake ==
  ASSUME NEW st \in [Items -> ItemStatuses], NEW b, NEW from, NEW to, DOMAIN to \subseteq Items,
         \A i \in DOMAIN to : from[i] = st[i], NEW i \in Items
  PROVE  Overlay(st, Moves(b, from, to).status)[i] = IF i \in DOMAIN to THEN to[i] ELSE st[i]
<1> DEFINE moved == {j \in DOMAIN to : to[j] # from[j]}
<1>1. Moves(b, from, to).status = [j \in moved |-> to[j]]
  BY DEF Moves
<1> QED
  BY <1>1 DEF Overlay

LEMMA MovesBalance ==
  ASSUME NEW st \in [Items -> ItemStatuses], NEW ct \in Counts, NEW b \in BatchStatuses,
         NEW at, NEW cap, Exact(st, ct), Rests(b, st), Settled(b, st),
         NEW from, NEW to, DOMAIN to \subseteq Items,
         \A i \in DOMAIN to :
           /\ from[i] = st[i] /\ to[i] \in ItemStatuses
           /\ to[i] = st[i] \/ (to[i] \in ItemNext[st[i]] /\ to[i] # "starting")
           /\ to[i] = "queued" => at[i] < cap
  PROVE  /\ Balanced(Moves([batch |-> b, count |-> ct], from, to), b, ct, st, at, cap)
         /\ EndBy(Moves([batch |-> b, count |-> ct], from, to), b)
              = EndOf(b, Overlay(st, Moves([batch |-> b, count |-> ct], from, to).status))
<1> DEFINE m == Moves([batch |-> b, count |-> ct], from, to)
           c == Recounted(ct, from, to)
           moved == {i \in DOMAIN to : to[i] # from[i]}
           end == IF moved = {} THEN b ELSE Concluded(b, c)
           after == Overlay(st, m.status)
           counted == Overlay(ct, m.count)
<1>1. m = [status |-> [i \in moved |-> to[i]], wrong |-> Empty,
           count |-> [k \in {k \in Counters : c[k] # ct[k]} |-> c[k]],
           batch |-> IF end = b THEN "kept" ELSE end, row |-> {}]
  BY DEF Moves
<1> HIDE DEF m, end
<1>2. /\ m.status = [i \in moved |-> to[i]]
      /\ m.count = [k \in {k \in Counters : c[k] # ct[k]} |-> c[k]]
      /\ m.batch = IF end = b THEN "kept" ELSE end
  BY <1>1
<1>3. \A i \in Items : after[i] = IF i \in DOMAIN to THEN to[i] ELSE st[i]
  BY <1>2 DEF Overlay
<1>4. after \in [Items -> ItemStatuses]
  <2>1. after = [i \in Items |-> IF i \in DOMAIN m.status THEN m.status[i] ELSE st[i]]
    BY DEF Overlay
  <2> HIDE DEF after
  <2> QED
    BY <1>3, <2>1
<1>5. \A k \in Counters : counted[k] = c[k]
  BY <1>2 DEF Overlay, Counts
<1> HIDE DEF after, counted
<1>6. \A k \in Counters : c[k] = Cardinality(EndedAs(after, k))
  BY <1>3, <1>4, RecountExact
<1>7. Exact(after, counted) /\ Exact(after, c)
  BY <1>5, <1>6 DEF Exact
<1>8. EndBy(m, b) = end
  BY <1>2 DEF EndBy, end, Concluded, BatchStatuses, BatchTerminal
<1>9. EndBy(m, b) = EndOf(b, after)
  <2>1. CASE moved = {}
    <3>1. \A i \in Items : after[i] = st[i]
      BY <1>3, <2>1
    <3>2. EndOf(b, after) = b
      BY <3>1 DEF EndOf, Settled, AllEnd
    <3> QED
      BY <1>8, <2>1, <3>2 DEF end
  <2>2. CASE moved # {}
    <3>1. end = Concluded(b, c)
      BY <2>2 DEF end
    <3> QED
      BY <1>4, <1>7, <1>8, <3>1, VerdictExact
  <2> QED
    BY <2>1, <2>2
<1>10. Rests(EndBy(m, b), after)
  <2>1. CASE b \in BatchTerminal
    <3>1. EndBy(m, b) = b
      BY <1>9, <2>1 DEF EndOf
    <3>2. ASSUME NEW i \in Items PROVE after[i] \notin Active
      <4>1. st[i] \notin Active
        BY <2>1 DEF Rests
      <4>2. ASSUME NEW u \in ItemStatuses \ Active
            PROVE  ItemNext[u] \cap Waiting = {}
        BY DEF ItemStatuses, ItemTerminal, Active, Waiting, ItemNext
      <4> QED
        BY <1>3, <4>1, <4>2 DEF Active
    <3> QED
      BY <3>1, <3>2 DEF Rests
  <2>2. CASE AllEnd(after)
    BY <2>2 DEF Rests, AllEnd, Active, Waiting, ItemTerminal
  <2>3. CASE b \notin BatchTerminal /\ ~ AllEnd(after)
    BY <1>9, <2>3 DEF Rests, EndOf
  <2> QED
    BY <2>1, <2>2, <2>3
<1>11. \A i \in DOMAIN m.status :
         /\ m.status[i] \in ItemNext[st[i]] \ {"starting"}
         /\ m.status[i] = "queued" => at[i] < cap
  BY <1>2
<1>12. Balanced(m, b, ct, st, at, cap)
  BY <1>7, <1>9, <1>10, <1>11 DEF Balanced, after, counted
<1> QED
  BY <1>9, <1>12 DEF m, after

\* The same moves that end every item, with the batch failed by the session itself: the
\* table lets it say so only where the moves have failed the batch already.
LEMMA FailedAlready ==
  ASSUME NEW b, NEW m, NEW st, EndBy(m, b) = EndOf(b, st), AllEnd(st), b # "cancelled",
         NEW ct, NEW goal, Allowed([batch |-> b, count |-> ct], m, goal)
  PROVE  goal = EndBy(m, b) /\ goal \in {"completed", "failed"}
<1>1. EndBy(m, b) \in {"completed", "failed"}
  BY DEF EndOf, BatchTerminal
<1>2. BatchAfter([batch |-> b, count |-> ct], m) = EndBy(m, b)
  BY DEF BatchAfter, EndBy
<1>3. \A e \in {"completed", "failed"} : BatchNext[e] = {}
  BY DEF BatchNext
<1> QED
  BY <1>1, <1>2, <1>3 DEF Allowed

LEMMA EndedBalance ==
  ASSUME NEW st, NEW ct, NEW b, NEW at, NEW cap, NEW from, NEW to, b # "cancelled",
         LET m == Moves([batch |-> b, count |-> ct], from, to)
         IN  /\ Balanced(m, b, ct, st, at, cap)
             /\ EndBy(m, b) = EndOf(b, Overlay(st, m.status))
             /\ AllEnd(Overlay(st, m.status))
             /\ Allowed([batch |-> b, count |-> ct], m, "failed")
  PROVE  Balanced([Moves([batch |-> b, count |-> ct], from, to) EXCEPT !.batch = "failed"],
                  b, ct, st, at, cap)
<1> DEFINE m == Moves([batch |-> b, count |-> ct], from, to)
           w == [m EXCEPT !.batch = "failed"]
<1>1. m = [status |-> m.status, wrong |-> m.wrong, count |-> m.count, batch |-> m.batch,
           row |-> m.row]
  BY DEF Moves
<1>2. /\ Balanced(m, b, ct, st, at, cap)
      /\ EndBy(m, b) = EndOf(b, Overlay(st, m.status)) /\ AllEnd(Overlay(st, m.status))
      /\ Allowed([batch |-> b, count |-> ct], m, "failed")
  OBVIOUS
<1> HIDE DEF m
<1>3. w.status = m.status /\ w.count = m.count /\ w.batch = "failed"
  BY <1>1
<1> HIDE DEF w
<1>4. EndBy(m, b) = "failed"
  BY <1>2, FailedAlready
<1>5. EndBy(w, b) = "failed"
  BY <1>3 DEF EndBy
<1>6. Balanced(w, b, ct, st, at, cap)
  BY <1>2, <1>3, <1>4, <1>5 DEF Balanced
<1> QED
  BY <1>6 DEF w, m

--------------------------------------------------------------------------------
\* Steps that leave the tables alone

LEMMA AloneSame ==
  ASSUME IInv, AloneInv, NEW s \in Sessions, s \in crew, UNCHANGED stored,
         \A t \in Sessions \ {s} : sess'[t] = sess[t],
         Alone => AloneSession(sess'[s], batch, count, status, attempts, Cap)
  PROVE  AloneInv'
<1>1. /\ UNCHANGED <<crew, batch, count, status, attempts>> /\ asked' = asked /\ asked \in Nat
      /\ Cap' = Cap
  BY DEF stored, Cap, IInv, TypeOK
<1>2. asked' \in Nat /\ asked <= asked'
  BY <1>1
<1> QED
  BY <1>1, <1>2, AloneStep

LEMMA AloneRequested ==
  ASSUME IInv, AloneInv, NEW s \in Sessions,
         TakeJob(s) \/ Submit(s) \/ CancelBatch(s) \/ CancelItem(s) \/ Requeue(s)
  PROVE  AloneInv'
<1>0. s \in crew /\ UNCHANGED <<crew, batch, count, status, attempts>>
  BY DEF TakeJob, Submit, CancelBatch, CancelItem, Requeue, Free, stored
<1>1. CASE TakeJob(s)
  <2>0. asked' = asked /\ asked' \in Nat /\ asked <= asked' /\ Cap' = Cap
    BY <1>1 DEF TakeJob, Cap, IInv, TypeOK
  <2>1. PICK j \in jobs :
          IF status[j[1]] = "starting" THEN Read(s, "start", {j[1]})
          ELSE Be(s, [Idle EXCEPT !.pc = "asking"])
    BY <1>1 DEF TakeJob
  <2>2. j[1] \in Items
    BY DEF IInv, TypeOK
  <2>3. CASE status[j[1]] = "starting"
    <3>1. \A i \in {j[1]} : MayMove("start", status[i], attempts[i], Cap)
      BY <2>3 DEF MayMove, Active
    <3>2. Read(s, "start", {j[1]}) /\ {j[1]} \in SUBSET Items
      BY <2>1, <2>2, <2>3
    <3>3. /\ AloneSession(sess'[s], batch, count, status, attempts, Cap)
          /\ \A t \in Sessions \ {s} : sess'[t] = sess[t]
      BY <3>1, <3>2, AloneRead
    <3> QED
      BY <1>0, <2>0, <3>3, AloneStep
  <2>4. CASE status[j[1]] # "starting"
    <3> DEFINE x == [Idle EXCEPT !.pc = "asking"]
    <3>1. sess'[s] = x /\ \A t \in Sessions \ {s} : sess'[t] = sess[t]
      BY <2>1, <2>4 DEF Be, IInv, TypeOK
    <3>2. x.pc = "asking"
      BY DEF Idle
    <3> HIDE DEF x
    <3>3. AloneSession(x, batch, count, status, attempts, Cap)
      BY <3>2, Unheld
    <3> QED
      BY <1>0, <2>0, <3>1, <3>3, AloneStep
  <2> QED
    BY <2>3, <2>4
<1>2. CASE Submit(s)
  <2>1. PICK i \in Items : \/ status[i] = "waiting_code" /\ Read(s, "code", {i})
                           \/ status[i] = "waiting_2fa" /\ Read(s, "password", {i})
    BY <1>2 DEF Submit
  <2>2. PICK role \in Secrets : Read(s, role, {i}) /\ status[i] \in Waiting
    BY <2>1 DEF Secrets, Waiting
  <2>3. \A j \in {i} : MayMove(role, status[j], attempts[j], Cap)
    BY <2>2 DEF MayMove, Active, Secrets
  <2>4. role # "cancel_batch"
    BY DEF Secrets
  <2>5. /\ AloneSession(sess'[s], batch, count, status, attempts, Cap)
        /\ \A t \in Sessions \ {s} : sess'[t] = sess[t]
    BY <2>2, <2>3, <2>4, AloneRead
  <2> QED
    BY <1>0, <1>2, <2>5, AloneSame DEF Submit
<1>3. CASE CancelBatch(s)
  <2>1. \A i \in Items : MayMove("cancel_batch", status[i], attempts[i], Cap)
    BY DEF MayMove, Calls, Secrets
  <2>2. /\ AloneSession(sess'[s], batch, count, status, attempts, Cap)
        /\ \A t \in Sessions \ {s} : sess'[t] = sess[t]
    BY <1>3, <2>1, AloneRead DEF CancelBatch
  <2> QED
    BY <1>0, <1>3, <2>2, AloneSame DEF CancelBatch
<1>4. CASE CancelItem(s)
  <2>1. PICK i \in Items : "cancelled" \in ItemNext[status[i]] /\ Read(s, "cancel_item", {i})
    BY <1>4 DEF CancelItem
  <2>2. \A j \in {i} : MayMove("cancel_item", status[j], attempts[j], Cap)
    BY <2>1 DEF MayMove, Calls, Secrets
  <2>3. /\ AloneSession(sess'[s], batch, count, status, attempts, Cap)
        /\ \A t \in Sessions \ {s} : sess'[t] = sess[t]
    BY <2>1, <2>2, AloneRead
  <2> QED
    BY <1>0, <1>4, <2>3, AloneSame DEF CancelItem
<1>5. CASE Requeue(s)
  <2>1. PICK i \in Items :
          /\ status[i] = "queued" \/ "queued" \in ItemNext[status[i]]
          /\ Read(s, "requeue", {i})
    <3>1. \A u \in {"failed", "timed_out"} : "queued" \in ItemNext[u]
      BY DEF ItemNext
    <3> QED
      BY <1>5, <3>1 DEF Requeue
  <2>2. asked' = asked + 1 /\ asked \in Nat /\ MaxAttempts \in Nat
    BY <1>5, LimitsAssumption DEF Requeue, IInv, TypeOK
  <2>3. asked' \in Nat /\ asked <= asked' /\ Cap' = Cap + 1 /\ Cap \in Nat
    <3>1. Cap' = MaxAttempts + (asked + 1) /\ Cap = MaxAttempts + asked
      BY <2>2 DEF Cap
    <3> QED
      BY <2>2, <3>1
  <2>4. ASSUME Alone PROVE attempts[i] < Cap'
    <3>1. attempts[i] <= Cap /\ attempts[i] \in Nat
      BY <2>4 DEF AloneInv, Left, IInv, TypeOK
    <3> QED
      BY <2>3, <3>1
  <2>5. \A t \in Sessions \ {s} : sess'[t] = sess[t]
    BY <2>1 DEF Read, Be, IInv, TypeOK
  <2>6. ASSUME Alone PROVE AloneSession(sess'[s], batch, count, status, attempts, Cap')
    <3>1. \A j \in {i} : MayMove("requeue", status[j], attempts[j], Cap')
      BY <2>1, <2>4, <2>6 DEF MayMove, Calls, Secrets
    <3> QED
      BY <2>1, <3>1, AloneRead
  <2> QED
    BY <1>0, <2>3, <2>5, <2>6, AloneStep
<1> QED
  BY <1>1, <1>2, <1>3, <1>4, <1>5

LEMMA AloneRecovers ==
  ASSUME IInv, AloneInv, NEW s \in Sessions, Recover(s)
  PROVE  AloneInv'
<1>1. PICK S \in SUBSET Items, role \in {"release", "expire"} :
        /\ Read(s, role, S) /\ s \in crew /\ UNCHANGED stored
        /\ \A i \in S : role = "release" => status[i] = "starting"
        /\ \A i \in S : role = "expire" => status[i] \in Waiting
  <2>1. ASSUME NEW S \in SUBSET Expired, Release(s, S)
        PROVE  /\ Read(s, "release", S) /\ s \in crew /\ UNCHANGED stored /\ S \in SUBSET Items
               /\ \A i \in S : status[i] = "starting"
    BY <2>1 DEF Release, Expired, Free
  <2>2. ASSUME NEW S \in SUBSET WaitingInput, Expire(s, S)
        PROVE  /\ Read(s, "expire", S) /\ s \in crew /\ UNCHANGED stored /\ S \in SUBSET Items
               /\ \A i \in S : status[i] \in Waiting
    BY <2>2 DEF Expire, WaitingInput, IInv, SessionInv
  <2> QED
    BY <2>1, <2>2 DEF Recover
<1>2. \A i \in S : MayMove(role, status[i], attempts[i], Cap)
  BY <1>1 DEF MayMove, Calls, Secrets
<1> QED
  BY <1>1, <1>2, AloneRead, AloneSame

\* A write to the batch's status alone.
LEMMA BatchBalance ==
  ASSUME NEW st \in [Items -> ItemStatuses], NEW ct \in Counts, NEW b, NEW at, NEW cap,
         Exact(st, ct), Rests(b, st), Settled(b, st),
         NEW goal, goal = "kept" \/ <<b, goal>> \in Switches
  PROVE  Balanced([NoWrites EXCEPT !.batch = goal], b, ct, st, at, cap)
<1> DEFINE w == [NoWrites EXCEPT !.batch = goal]
<1>1. DOMAIN w.status = {} /\ DOMAIN w.count = {} /\ w.batch = goal
  BY DEF NoWrites, Empty
<1> HIDE DEF w
<1>2. Overlay(st, w.status) = st /\ Overlay(ct, w.count) = ct
  BY <1>1 DEF Overlay, Counts
<1>3. EndOf(b, st) = b
  BY DEF EndOf, Settled
<1>4. CASE goal = "kept"
  <2>1. EndBy(w, b) = b
    BY <1>1, <1>4 DEF EndBy
  <2> QED
    BY <1>1, <1>2, <1>3, <2>1 DEF Balanced, w
<1>5. CASE <<b, goal>> \in Switches
  <2>1. goal \in {"running", "paused"}
    BY <1>5 DEF Switches
  <2>2. EndBy(w, b) = goal /\ goal \notin BatchTerminal
    BY <1>1, <2>1 DEF EndBy, BatchTerminal
  <2> QED
    BY <1>1, <1>2, <1>5, <2>2 DEF Balanced, Rests, w
<1> QED
  BY <1>4, <1>5

LEMMA AloneControls ==
  ASSUME IInv, AloneInv, NEW s \in Sessions, StartBatch(s) \/ PauseBatch(s)
  PROVE  AloneInv'
<1>0. s \in crew /\ UNCHANGED stored
  BY DEF StartBatch, PauseBatch, Free
<1>1. ASSUME Alone, NEW goal, goal = "kept" \/ <<batch, goal>> \in Switches
      PROVE  Balanced([NoWrites EXCEPT !.batch = goal], batch, count, status, attempts, Cap)
  BY <1>1, BatchBalance DEF AloneInv, IInv, TypeOK
<1>2. batch \in BatchStatuses
  BY DEF IInv, TypeOK
<1>3. CASE StartBatch(s)
  <2> DEFINE goal == IF batch = "running" THEN "kept" ELSE "running"
             tx == [NoWrites EXCEPT !.batch = goal]
             x == [Idle EXCEPT !.pc = "committing", !.role = "run", !.then = "asking", !.tx = tx]
  <2>1. sess'[s] = x /\ \A t \in Sessions \ {s} : sess'[t] = sess[t]
    BY <1>3 DEF StartBatch, Be, IInv, TypeOK
  <2>2. goal = "kept" \/ <<batch, goal>> \in Switches
    BY <1>3, <1>2 DEF StartBatch, Switches, BatchNext, BatchStatuses, BatchTerminal
  <2>3. Alone => Balanced(tx, batch, count, status, attempts, Cap)
    BY <1>1, <2>2
  <2> HIDE DEF tx
  <2>4. x.pc = "committing" /\ x.tx = tx
    BY DEF Idle
  <2> HIDE DEF x
  <2>5. Alone => AloneSession(x, batch, count, status, attempts, Cap)
    BY <2>3, <2>4 DEF AloneSession
  <2> QED
    BY <1>0, <2>1, <2>5, AloneSame
<1>4. CASE PauseBatch(s)
  <2> DEFINE w == [NoWrites EXCEPT !.batch = "paused"]
  <2>1. Writing(s, w, "idle")
    BY <1>4 DEF PauseBatch
  <2>2. <<batch, "paused">> \in Switches
    BY <1>4, <1>2 DEF PauseBatch, Switches, BatchNext, BatchStatuses, BatchTerminal
  <2>3. Alone => Balanced(w, batch, count, status, attempts, Cap)
    BY <1>1, <2>2
  <2> HIDE DEF w
  <2>4. \A t \in Sessions \ {s} : sess'[t] = sess[t]
    BY <2>1 DEF Writing, Be, IInv, TypeOK
  <2>5. Alone => AloneSession(sess'[s], batch, count, status, attempts, Cap)
    BY <2>1, <2>3, AloneWriting
  <2> QED
    BY <1>0, <2>4, <2>5, AloneSame
<1> QED
  BY <1>3, <1>4

LEMMA AloneDies ==
  ASSUME IInv, AloneInv, NEW s \in Sessions, Dies(s)
  PROVE  AloneInv'
<1>1. s \in crew /\ Finish(s) /\ UNCHANGED stored
  BY DEF Dies, IInv, SessionInv
<1> QED
  BY <1>1, AloneFinish, AloneSame

--------------------------------------------------------------------------------
\* Answers of Telegram and moves of items

LEMMA AloneRecords ==
  ASSUME IInv, AloneInv, NEW s \in Sessions, Record(s)
  PROVE  AloneInv'
<1>0. /\ sess[s].pc = "loaded" /\ sess[s].role \in Calls /\ s \in crew /\ UNCHANGED stored
      /\ SessionOK(sess[s]) /\ Good(sess[s], attempts, rows)
  BY DEF Record, IInv, TypeOK, SessionInv, Good
<1>1. CASE Finish(s)
  BY <1>0, <1>1, AloneFinish, AloneSame
<1>2. CASE Goto(s, "calling")
  <2> DEFINE x == [sess[s] EXCEPT !.pc = "calling"]
  <2>1. sess'[s] = x /\ \A t \in Sessions \ {s} : sess'[t] = sess[t]
    BY <1>2 DEF Goto, Be, IInv, TypeOK
  <2>2. x.pc = "calling" /\ x.role = sess[s].role /\ x.known = sess[s].known
    BY <1>0 DEF SessionOK
  <2> HIDE DEF x
  <2>3. ASSUME Alone PROVE AloneSession(x, batch, count, status, attempts, Cap)
    <3>1. AloneSession(sess[s], batch, count, status, attempts, Cap)
      BY <2>3 DEF AloneInv
    <3> QED
      BY <1>0, <2>2, <3>1 DEF AloneSession
  <2> QED
    BY <1>0, <2>1, <2>3, AloneSame
<1> QED
  BY <1>1, <1>2 DEF Record

\* An outcome that the item may have is a legal move of it.
LEMMA OutcomeLegal ==
  ASSUME NEW role \in Calls, NEW result \in Results[role], NEW x \in ItemRead,
         x.status \in Active, NEW cap \in Nat, MaxAttempts <= cap,
         Outcome(result, role, x) = "queued"
  PROVE  x.attempts < cap
<1>1. result = "flood" /\ ~ (x.attempts >= MaxAttempts)
  BY DEF Results, Calls, Secrets, Outcome, Active, Waiting
<1> QED
  BY <1>1, LimitsAssumption DEF ItemRead

LEMMA AloneAnswers ==
  ASSUME IInv, AloneInv, NEW s \in Sessions, Answer(s)
  PROVE  AloneInv'
<1>0. /\ Good(sess[s], attempts, rows) /\ InCall(sess[s]) /\ sess[s].pc = "calling" /\ s \in crew
      /\ UNCHANGED stored
  BY DEF Answer, InCall, Good, IInv, TypeOK, SessionInv
<1> DEFINE role == sess[s].role
           row == RowOf(sess[s])
<1>1. PICK i \in Items :
        /\ DOMAIN sess[s].known = {i} /\ ItemOf(sess[s]) = i
        /\ sess[s].known[i] \in ItemRead
  BY <1>0, RowIs DEF IInv, TypeOK
<1> DEFINE x == sess[s].known[i]
           from == [j \in {i} |-> x.status]
<1>2. role \in Calls
  BY <1>0 DEF Good, CallInv
<1>3. PICK result \in Results[role] :
        LET to == [j \in {i} |-> Outcome(result, role, x)]
            m == Moves(Batch, from, to)
            errors == IF result = "invalid"
                      THEN [y \in {<<i, role>>} |-> x.wrong[role] + 1] ELSE Empty
            writes == [status |-> m.status, wrong |-> errors, count |-> m.count,
                       batch |-> m.batch, row |-> {row}]
        IN  (Legal(from, to) /\ Writing(s, writes, "asking")) \/ Finish(s)
  BY <1>1 DEF Answer
<1> DEFINE to == [j \in {i} |-> Outcome(result, role, x)]
           m == Moves(Batch, from, to)
           errors == IF result = "invalid"
                     THEN [y \in {<<i, role>>} |-> x.wrong[role] + 1] ELSE Empty
           w == [status |-> m.status, wrong |-> errors, count |-> m.count, batch |-> m.batch,
                 row |-> {row}]
<1>4. CASE Finish(s)
  BY <1>0, <1>4, AloneFinish, AloneSame
<1>5. CASE Legal(from, to) /\ Writing(s, w, "asking")
  <2>1. ASSUME Alone PROVE Balanced(w, batch, count, status, attempts, Cap)
    <3>1. AloneSession(sess[s], batch, count, status, attempts, Cap)
      BY <2>1 DEF AloneInv
    <3>2. x.status = status[i] /\ x.attempts = attempts[i] /\ status[i] \in Active
      BY <1>0, <1>1, <1>2, <3>1 DEF AloneSession, Current, MayMove
    <3>3. /\ Outcome(result, role, x) \in ItemStatuses
          /\ Outcome(result, role, x) = x.status \/ Outcome(result, role, x) # "starting"
      BY <1>1, <1>2, OutcomeOK
    <3>4. Cap \in Nat /\ MaxAttempts <= Cap
      BY LimitsAssumption DEF Cap, IInv, TypeOK
    <3>5. Outcome(result, role, x) = "queued" => attempts[i] < Cap
      BY <1>1, <1>2, <3>2, <3>4, OutcomeLegal
    <3>6. /\ DOMAIN to \subseteq Items
          /\ \A j \in DOMAIN to :
               /\ from[j] = status[j] /\ to[j] \in ItemStatuses
               /\ to[j] = status[j] \/ (to[j] \in ItemNext[status[j]] /\ to[j] # "starting")
               /\ to[j] = "queued" => attempts[j] < Cap
      BY <1>5, <3>2, <3>3, <3>5 DEF Legal
    <3>7. Exact(status, count) /\ Rests(batch, status) /\ Settled(batch, status)
      BY <2>1 DEF AloneInv
    <3>8. Batch = [batch |-> batch, count |-> count]
      BY DEF Batch
    <3> HIDE DEF from, to
    <3>9. Balanced(m, batch, count, status, attempts, Cap)
      BY <3>6, <3>7, <3>8, MovesBalance DEF IInv, TypeOK
    <3>10. w.status = m.status /\ w.count = m.count /\ w.batch = m.batch
      OBVIOUS
    <3> HIDE DEF m, w
    <3> QED
      BY <3>9, <3>10 DEF Balanced, EndBy
  <2>2. \A t \in Sessions \ {s} : sess'[t] = sess[t]
    BY <1>5 DEF Writing, Be, IInv, TypeOK
  <2> HIDE DEF w
  <2>3. Alone => AloneSession(sess'[s], batch, count, status, attempts, Cap)
    BY <1>5, <2>1, AloneWriting
  <2> QED
    BY <1>0, <2>2, <2>3, AloneSame
<1> QED
  BY <1>3, <1>4, <1>5

LEMMA AloneMoves ==
  ASSUME IInv, AloneInv, NEW s \in Sessions, Move(s)
  PROVE  AloneInv'
<1> DEFINE known == sess[s].known
           role == sess[s].role
           from == [i \in DOMAIN known |-> known[i].status]
           to == [i \in DOMAIN known |-> Goal(role, known[i])]
           then == CASE role = "cancel_item" -> "idle"
                     [] role = "release" -> "expiring"
                     [] OTHER -> "asking"
           w == Moves(Batch, from, to)
<1>1. /\ Writing(s, w, then) /\ sess[s].pc = "loaded" /\ s \in crew /\ UNCHANGED stored
      /\ role \in {"cancel_item", "requeue", "release", "expire"}
  BY DEF Move, IInv, SessionInv
<1>2. ASSUME Alone PROVE Balanced(w, batch, count, status, attempts, Cap)
  <2>1. AloneSession(sess[s], batch, count, status, attempts, Cap)
    BY <1>2 DEF AloneInv
  <2>2. \A i \in DOMAIN known :
          /\ i \in Items /\ known[i].status = status[i] /\ known[i].attempts = attempts[i]
          /\ MayMove(role, status[i], attempts[i], Cap)
    BY <1>1, <2>1 DEF AloneSession, Current, IInv, TypeOK, SessionOK, Partial
  <2>3. Cap \in Nat /\ MaxAttempts <= Cap /\ MaxAttempts \in Nat
    BY LimitsAssumption DEF Cap, IInv, TypeOK
  <2>4. ASSUME NEW i \in DOMAIN known
        PROVE  LET g == Goal(role, known[i])
               IN  /\ g \in ItemStatuses \ {"starting"}
                   /\ g = status[i] \/ g \in ItemNext[status[i]]
                   /\ g = "queued" => attempts[i] < Cap
    <3>0. attempts[i] \in Nat /\ status[i] \in ItemStatuses
      BY <2>2 DEF IInv, TypeOK
    <3>1. CASE role = "cancel_item"
      <4>1. Goal(role, known[i]) = "cancelled" /\ "cancelled" \in ItemNext[status[i]]
        BY <2>2, <3>1 DEF Goal, MayMove
      <4> QED
        BY <4>1 DEF ItemStatuses, ItemTerminal
    <3>2. CASE role = "requeue"
      <4>1. /\ Goal(role, known[i]) = "queued" /\ attempts[i] < Cap
            /\ status[i] = "queued" \/ "queued" \in ItemNext[status[i]]
        BY <2>2, <3>2 DEF Goal, MayMove
      <4> QED
        BY <4>1 DEF ItemStatuses
    <3>3. CASE role = "release"
      <4>1. /\ status[i] = "starting"
            /\ Goal(role, known[i]) = IF attempts[i] < MaxAttempts THEN "queued" ELSE "timed_out"
        BY <2>2, <3>3 DEF Goal, MayMove
      <4>2. "queued" \in ItemNext["starting"] /\ "timed_out" \in ItemNext["starting"]
        BY DEF ItemNext, ItemTerminal
      <4>3. attempts[i] < MaxAttempts => attempts[i] < Cap
        BY <2>3, <3>0
      <4> QED
        BY <4>1, <4>2, <4>3 DEF ItemStatuses, ItemTerminal
    <3>4. CASE role = "expire"
      <4>1. status[i] \in Waiting /\ Goal(role, known[i]) = "timed_out"
        BY <2>2, <3>4 DEF Goal, MayMove
      <4>2. \A u \in Waiting : "timed_out" \in ItemNext[u]
        BY DEF ItemNext, Waiting, ItemTerminal
      <4> QED
        BY <4>1, <4>2 DEF ItemStatuses, ItemTerminal
    <3> QED
      BY <1>1, <3>1, <3>2, <3>3, <3>4
  <2>5. /\ DOMAIN to \subseteq Items
        /\ \A i \in DOMAIN to :
             /\ from[i] = status[i] /\ to[i] \in ItemStatuses
             /\ to[i] = status[i] \/ (to[i] \in ItemNext[status[i]] /\ to[i] # "starting")
             /\ to[i] = "queued" => attempts[i] < Cap
    BY <2>2, <2>4
  <2>6. Exact(status, count) /\ Rests(batch, status) /\ Settled(batch, status)
    BY <1>2 DEF AloneInv
  <2>7. Batch = [batch |-> batch, count |-> count]
    BY DEF Batch
  <2> HIDE DEF from, to
  <2> QED
    BY <2>5, <2>6, <2>7, MovesBalance DEF IInv, TypeOK
<1> HIDE DEF from, to, then, w
<1>3. \A t \in Sessions \ {s} : sess'[t] = sess[t]
  BY <1>1 DEF Writing, Be, IInv, TypeOK
<1>4. Alone => AloneSession(sess'[s], batch, count, status, attempts, Cap)
  BY <1>1, <1>2, AloneWriting
<1> QED
  BY <1>1, <1>3, <1>4, AloneSame

LEMMA AloneMovesAll ==
  ASSUME IInv, AloneInv, NEW s \in Sessions, MoveAll(s)
  PROVE  AloneInv'
<1> DEFINE x == sess[s]
           open == {i \in Items : x.known[i].status \notin ItemTerminal}
           from == [i \in open |-> x.known[i].status]
           to == [i \in open |-> "cancelled"]
           m == Moves(x.base, from, to)
           w == [m EXCEPT !.batch = "cancelled"]
<1>1. /\ x.pc = "loaded" /\ x.role = "cancel_batch" /\ s \in crew /\ UNCHANGED stored
      /\ (Allowed(x.base, m, "cancelled") /\ Writing(s, w, "idle")) \/ Finish(s)
  BY DEF MoveAll, IInv, SessionInv
<1>2. CASE Finish(s)
  BY <1>1, <1>2, AloneFinish, AloneSame
<1>3. CASE Allowed(x.base, m, "cancelled") /\ Writing(s, w, "idle")
  <2>1. ASSUME Alone PROVE FALSE
    <3>1. AloneSession(x, batch, count, status, attempts, Cap) /\ HoldInv(x)
      BY <2>1 DEF AloneInv, IInv, SessionInv
    <3>2. DOMAIN x.known = Items
      BY <1>1, <3>1 DEF HoldInv
    <3>3. \A i \in Items : x.known[i].status = status[i]
      BY <1>1, <3>1, <3>2 DEF AloneSession, Current
    <3>4. x.base = [batch |-> batch, count |-> count]
      BY <1>1, <3>1 DEF AloneSession
    <3>5. \A u \in ItemStatuses \ ItemTerminal : "cancelled" \in ItemNext[u]
      BY DEF ItemStatuses, ItemTerminal, Waiting, ItemNext
    <3>6. \A i \in Items : status[i] \in ItemStatuses
      BY DEF IInv, TypeOK
    <3>7. /\ DOMAIN to \subseteq Items
          /\ \A i \in DOMAIN to :
               /\ from[i] = status[i] /\ to[i] \in ItemStatuses
               /\ to[i] = status[i] \/ (to[i] \in ItemNext[status[i]] /\ to[i] # "starting")
               /\ to[i] = "queued" => attempts[i] < Cap
      BY <3>3, <3>5, <3>6 DEF ItemStatuses, ItemTerminal
    <3>8. Exact(status, count) /\ Rests(batch, status) /\ Settled(batch, status)
      BY <2>1 DEF AloneInv
    <3>9. \A i \in Items : (IF i \in DOMAIN to THEN to[i] ELSE status[i]) \in ItemTerminal
      BY <3>3 DEF ItemTerminal
    <3> HIDE DEF from, to
    <3>10. m = Moves([batch |-> batch, count |-> count], from, to)
      BY <3>4
    <3>11. LET n == Moves([batch |-> batch, count |-> count], from, to)
           IN  /\ Balanced(n, batch, count, status, attempts, Cap)
               /\ EndBy(n, batch) = EndOf(batch, Overlay(status, n.status))
      BY <3>7, <3>8, MovesBalance DEF IInv, TypeOK
    <3>12. AllEnd(Overlay(status, m.status))
      BY <3>7, <3>9, MovesTake DEF AllEnd, IInv, TypeOK
    <3> HIDE DEF m
    <3>13. "cancelled" \in {"completed", "failed"}
      <4>1. EndBy(m, batch) = EndOf(batch, Overlay(status, m.status))
        BY <3>10, <3>11
      <4> QED
        BY <1>3, <3>4, <3>8, <3>12, <4>1, FailedAlready DEF Settled
    <3> QED
      BY <3>13
  <2> HIDE DEF w
  <2>2. \A t \in Sessions \ {s} : sess'[t] = sess[t]
    BY <1>3 DEF Writing, Be, IInv, TypeOK
  <2> QED
    BY <1>1, <2>1, <2>2, AloneSame
<1> QED
  BY <1>1, <1>2, <1>3

--------------------------------------------------------------------------------
\* The dispatcher

LEMMA AloneAsks ==
  ASSUME IInv, AloneInv, NEW s \in Sessions, Ask(s) \/ Count(s)
  PROVE  AloneInv'
<1>0. s \in crew /\ UNCHANGED stored /\ SessionOK(sess[s])
  BY DEF Ask, Count, IInv, SessionInv, TypeOK
<1>1. CASE Dispatched(s)
  BY <1>0, <1>1, AloneDispatched, AloneSame
<1>2. CASE Ask(s) /\ batch = "running" /\ Be(s, [sess[s] EXCEPT !.pc = "claiming", !.base = Batch])
  <2> DEFINE x == [sess[s] EXCEPT !.pc = "claiming", !.base = Batch]
  <2>1. sess'[s] = x /\ \A t \in Sessions \ {s} : sess'[t] = sess[t]
    BY <1>2 DEF Be, IInv, TypeOK
  <2>2. x.pc = "claiming" /\ x.base = [batch |-> batch, count |-> count]
    BY <1>0 DEF SessionOK, Batch
  <2> HIDE DEF x
  <2>3. AloneSession(x, batch, count, status, attempts, Cap)
    BY <1>2, <2>2 DEF AloneSession
  <2> QED
    BY <1>0, <2>1, <2>3, AloneSame
<1>3. CASE Count(s) /\ Goto(s, "claiming")
  <2> DEFINE x == [sess[s] EXCEPT !.pc = "claiming"]
  <2>1. sess'[s] = x /\ \A t \in Sessions \ {s} : sess'[t] = sess[t]
    BY <1>3 DEF Goto, Be, IInv, TypeOK
  <2>2. x.pc = "claiming" /\ x.base = sess[s].base /\ sess[s].pc = "counting"
    BY <1>0, <1>3 DEF SessionOK, Count
  <2> HIDE DEF x
  <2>3. ASSUME Alone PROVE AloneSession(x, batch, count, status, attempts, Cap)
    <3>1. AloneSession(sess[s], batch, count, status, attempts, Cap)
      BY <2>3 DEF AloneInv
    <3> QED
      BY <2>2, <3>1 DEF AloneSession
  <2> QED
    BY <1>0, <2>1, <2>3, AloneSame
<1> QED
  BY <1>1, <1>2, <1>3, Zenon DEF Ask, Count

LEMMA AloneEnqueues ==
  ASSUME IInv, AloneInv, NEW s \in Sessions, Enqueue(s) \/ EnqueueFails(s)
  PROVE  AloneInv'
<1>0. /\ sess[s].pc = "enqueueing" /\ s \in crew /\ SessionOK(sess[s]) /\ HoldInv(sess[s])
      /\ UNCHANGED <<crew, batch, count, status, attempts>>
      /\ asked' = asked /\ asked' \in Nat /\ asked <= asked' /\ Cap' = Cap
  BY DEF Enqueue, EnqueueFails, Cap, IInv, SessionInv, TypeOK
<1>1. Alone => AloneSession(sess[s], batch, count, status, attempts, Cap)
  BY DEF AloneInv
<1>2. CASE Enqueue(s)
  <2> DEFINE x == [sess[s] EXCEPT !.pc = "counting", !.did = @ + 1, !.item = 0, !.known = Empty]
  <2>1. sess'[s] = x /\ \A t \in Sessions \ {s} : sess'[t] = sess[t]
    BY <1>2 DEF Enqueue, Be, IInv, TypeOK
  <2>2. x.pc = "counting" /\ x.base = sess[s].base
    BY <1>0 DEF SessionOK
  <2> HIDE DEF x
  <2>3. Alone => AloneSession(x, batch, count, status, attempts, Cap)
    BY <1>0, <1>1, <2>2 DEF AloneSession
  <2> QED
    BY <1>0, <2>1, <2>3, AloneStep
<1>3. CASE EnqueueFails(s)
  <2> DEFINE known == [Loaded(Items) EXCEPT ![sess[s].item] = sess[s].known[sess[s].item]]
             x == [sess[s] EXCEPT !.pc = "refused", !.known = known]
  <2>1. sess'[s] = x /\ \A t \in Sessions \ {s} : sess'[t] = sess[t]
    BY <1>3 DEF EnqueueFails, Be, IInv, TypeOK
  <2>2. /\ x.pc = "refused" /\ x.base = sess[s].base /\ x.item = sess[s].item
        /\ x.known = known
    BY <1>0 DEF SessionOK
  <2>3. sess[s].item \in Items /\ sess[s].item \in DOMAIN sess[s].known
    BY <1>0 DEF HoldInv
  <2>4. /\ DOMAIN known = Items
        /\ \A i \in Items : known[i] = IF i = sess[s].item THEN sess[s].known[i] ELSE Loaded(Items)[i]
    BY <2>3 DEF Loaded
  <2> HIDE DEF known, x
  <2>5. ASSUME Alone PROVE Current(known, status, attempts)
    <3>1. /\ sess[s].known[sess[s].item].status = status[sess[s].item]
          /\ sess[s].known[sess[s].item].attempts = attempts[sess[s].item]
      BY <1>0, <1>1, <2>3, <2>5 DEF AloneSession, Current
    <3>2. \A i \in Items : /\ Loaded(Items)[i].status = status[i]
                           /\ Loaded(Items)[i].attempts = attempts[i]
      BY DEF Loaded
    <3> QED
      BY <2>4, <3>1, <3>2 DEF Current
  <2>6. Alone => AloneSession(x, batch, count, status, attempts, Cap)
    BY <1>0, <1>1, <2>2, <2>5 DEF AloneSession
  <2> QED
    BY <1>0, <2>1, <2>6, AloneStep
<1> QED
  BY <1>2, <1>3

LEMMA AloneClaims ==
  ASSUME IInv, AloneInv, NEW s \in Sessions, Claim(s)
  PROVE  AloneInv'
<1> DEFINE One(i) == [status |-> "starting", attempts |-> attempts[i] + 1,
                      wrong |-> [k \in Secrets |-> wrong[<<i, k>>]]]
<1>0. /\ s \in crew /\ sess[s].pc = "claiming" /\ SessionOK(sess[s])
      /\ crew' = crew /\ batch' = batch /\ count' = count
  BY DEF Claim, IInv, TypeOK, SessionInv
<1>1. asked' = asked /\ asked' \in Nat /\ asked <= asked' /\ Cap' = Cap
  <2>1. asked' = asked /\ asked \in Nat
    BY DEF Claim, IInv, TypeOK
  <2> QED
    BY <2>1 DEF Cap
<1>2. CASE Dispatched(s) /\ UNCHANGED <<status, attempts>>
  BY <1>0, <1>1, <1>2, AloneDispatched, AloneStep
<1>3. CASE ~ (Dispatched(s) /\ UNCHANGED <<status, attempts>>)
  <2>1. PICK i \in Claimable(s) :
          /\ status' = [status EXCEPT ![i] = "starting"]
          /\ attempts' = [attempts EXCEPT ![i] = @ + 1]
          /\ Be(s, [sess[s] EXCEPT !.pc = "enqueueing", !.item = i,
                                    !.known = [j \in {i} |-> One(i)]])
    BY <1>3 DEF Claim
  <2>2. i \in Items /\ status[i] = "queued" /\ attempts[i] \in Nat
    BY DEF Claimable, IInv, TypeOK
  <2> DEFINE known == [j \in {i} |-> One(i)]
             x == [sess[s] EXCEPT !.pc = "enqueueing", !.item = i, !.known = known]
  <2>3. sess'[s] = x /\ \A t \in Sessions \ {s} : sess'[t] = sess[t]
    BY <2>1 DEF Be, IInv, TypeOK
  <2>4. DOMAIN known = {i} /\ known[i].status = "starting" /\ known[i].attempts = attempts[i] + 1
    OBVIOUS
  <2> HIDE DEF known
  <2>5. x.pc = "enqueueing" /\ x.item = i /\ x.known = known /\ x.base = sess[s].base
    BY <1>0 DEF SessionOK
  <2> HIDE DEF x
  <2>6. /\ status'[i] = "starting" /\ \A j \in Items \ {i} : status'[j] = status[j]
        /\ attempts'[i] = attempts[i] + 1 /\ \A j \in Items \ {i} : attempts'[j] = attempts[j]
    BY <2>1, <2>2 DEF IInv, TypeOK
  <2> SUFFICES ASSUME Alone' PROVE AloneInv'
    BY DEF AloneInv
  <2>7. Alone
    BY <1>0 DEF Alone
  <2>8. AloneSession(sess[s], batch, count, status, attempts, Cap) /\ Left(status, attempts, Cap)
        /\ Exact(status, count)
    BY <2>7 DEF AloneInv
  <2>9. batch = "running" /\ sess[s].base = [batch |-> batch, count |-> count]
    BY <1>0, <2>8 DEF AloneSession
  <2>10. Exact(status', count')
    <3>1. \A k \in Counters : EndedAs(status', k) = EndedAs(status, k)
      BY <2>2, <2>6 DEF EndedAs, ItemTerminal
    <3> QED
      BY <1>0, <2>8, <3>1 DEF Exact
  <2>11. Rests(batch', status')
    BY <1>0, <2>9 DEF Rests, BatchTerminal
  <2>12. Settled(batch', status')
    <3>1. status'[i] \notin ItemTerminal
      BY <2>6 DEF ItemTerminal
    <3> QED
      BY <1>0, <2>2, <2>9, <3>1 DEF Settled, AllEnd
  <2>13. Left(status', attempts', Cap')
    <3>1. Cap \in Nat
      BY LimitsAssumption DEF Cap, IInv, TypeOK
    <3>2. attempts[i] + 1 <= Cap
      BY <2>2, <2>8, <3>1 DEF Left
    <3> QED
      BY <1>1, <2>6, <2>8, <3>2 DEF Left
  <2>14. AloneSession(x, batch', count', status', attempts', Cap')
    <3>1. Current(known, status', attempts')
      BY <2>4, <2>6 DEF Current
    <3> QED
      BY <1>0, <1>1, <2>5, <2>6, <2>9, <3>1 DEF AloneSession
  <2>15. \A t \in Sessions : AloneSession(sess'[t], batch', count', status', attempts', Cap')
    <3>1. \A t \in Sessions \ {s} : sess[t].pc = "idle"
      BY <1>0, <2>7, SoleSession
    <3> QED
      BY <2>3, <2>14, <3>1, Unheld
  <2> QED
    BY <2>10, <2>11, <2>12, <2>13, <2>15 DEF AloneInv
<1> QED
  BY <1>2, <1>3

LEMMA AloneFails ==
  ASSUME IInv, AloneInv, NEW s \in Sessions, s \in crew, UNCHANGED stored,
         NEW S \in SUBSET Items, NEW b, NEW known, NEW then, Fail(s, S, b, known, then),
         DOMAIN known = Items,
         Alone => /\ b = [batch |-> batch, count |-> count]
                  /\ Current(known, status, attempts)
                  /\ \A i \in S : status[i] \notin ItemTerminal
                  /\ \A i \in Items \ S : status[i] # "queued"
  PROVE  AloneInv'
<1> DEFINE from == [i \in S |-> known[i].status]
           to == [i \in S |-> "failed"]
           m == Moves(b, from, to)
           w == [m EXCEPT !.batch = "failed"]
<1>1. \/ Under(known) \subseteq S /\ Allowed(b, m, "failed") /\ Writing(s, w, then)
      \/ Writing(s, m, then)
      \/ Finish(s)
  BY Zenon DEF Fail
<1>2. ASSUME Alone
      PROVE  /\ Balanced(m, batch, count, status, attempts, Cap)
             /\ Under(known) \subseteq S /\ Allowed(b, m, "failed") =>
                  Balanced(w, batch, count, status, attempts, Cap)
  <2>1. \A i \in Items : known[i].status = status[i]
    BY <1>2 DEF Current
  <2>2. b = [batch |-> batch, count |-> count]
    BY <1>2
  <2>3. \A u \in ItemStatuses \ ItemTerminal : "failed" \in ItemNext[u]
    BY DEF ItemStatuses, ItemTerminal, Waiting, ItemNext
  <2>4. \A i \in Items : status[i] \in ItemStatuses
    BY DEF IInv, TypeOK
  <2>5. /\ DOMAIN to \subseteq Items
        /\ \A i \in DOMAIN to :
             /\ from[i] = status[i] /\ to[i] \in ItemStatuses
             /\ to[i] = status[i] \/ (to[i] \in ItemNext[status[i]] /\ to[i] # "starting")
             /\ to[i] = "queued" => attempts[i] < Cap
    BY <1>2, <2>1, <2>3, <2>4 DEF ItemStatuses, ItemTerminal
  <2>6. Exact(status, count) /\ Rests(batch, status) /\ Settled(batch, status)
    BY <1>2 DEF AloneInv
  <2>7. Under(known) \subseteq S =>
          \A i \in Items : (IF i \in DOMAIN to THEN to[i] ELSE status[i]) \in ItemTerminal
    BY <1>2, <2>1, <2>4 DEF Under, ItemStatuses, ItemTerminal
  <2> HIDE DEF from, to
  <2>8. LET n == Moves([batch |-> batch, count |-> count], from, to)
        IN  /\ Balanced(n, batch, count, status, attempts, Cap)
            /\ EndBy(n, batch) = EndOf(batch, Overlay(status, n.status))
    BY <2>5, <2>6, MovesBalance DEF IInv, TypeOK
  <2>9. /\ Balanced(m, batch, count, status, attempts, Cap)
        /\ EndBy(m, batch) = EndOf(batch, Overlay(status, m.status))
    BY <2>2, <2>8
  <2>10. Under(known) \subseteq S /\ Allowed(b, m, "failed") =>
          Balanced(w, batch, count, status, attempts, Cap)
    <3> SUFFICES ASSUME Under(known) \subseteq S, Allowed(b, m, "failed")
        PROVE  Balanced(w, batch, count, status, attempts, Cap)
      OBVIOUS
    <3>1. AllEnd(Overlay(status, m.status))
      BY <2>5, <2>7, MovesTake DEF AllEnd, IInv, TypeOK
    <3>2. m = Moves([batch |-> batch, count |-> count], from, to)
      BY <2>2
    <3>3. batch # "cancelled"
      BY <2>6 DEF Settled
    <3> HIDE DEF m
    <3> QED
      BY <2>2, <2>9, <3>1, <3>2, <3>3, EndedBalance
  <2> QED
    BY <2>9, <2>10
<1>3. CASE Finish(s)
  BY <1>3, AloneFinish, AloneSame
<1> HIDE DEF m, w
<1>4. ASSUME NEW v, Writing(s, v, then), Alone => Balanced(v, batch, count, status, attempts, Cap)
      PROVE  AloneInv'
  <2>1. \A t \in Sessions \ {s} : sess'[t] = sess[t]
    BY <1>4 DEF Writing, Be, IInv, TypeOK
  <2>2. Alone => AloneSession(sess'[s], batch, count, status, attempts, Cap)
    BY <1>4, AloneWriting
  <2> QED
    BY <2>1, <2>2, AloneSame
<1> QED
  BY <1>1, <1>2, <1>3, <1>4

LEMMA AloneUnlaunched ==
  ASSUME IInv, AloneInv, NEW s \in Sessions, FailQueued(s) \/ Surface(s)
  PROVE  AloneInv'
<1>0. s \in crew /\ UNCHANGED stored
  BY DEF FailQueued, Surface, IInv, SessionInv
<1>1. CASE FailQueued(s)
  <2> DEFINE x == sess[s]
             S == {x.item} \cup {i \in Items : x.known[i].status = "queued"}
             then == IF x.role = "run" THEN "surfacing" ELSE "idle"
  <2>1. Fail(s, S, x.base, x.known, then) /\ x.pc = "refused"
    BY <1>1 DEF FailQueued
  <2>2. DOMAIN x.known = Items /\ x.item \in Items
    BY <2>1 DEF IInv, SessionInv, HoldInv
  <2>3. ASSUME Alone
        PROVE  /\ x.base = [batch |-> batch, count |-> count]
               /\ Current(x.known, status, attempts)
               /\ \A i \in S : status[i] \notin ItemTerminal
               /\ \A i \in Items \ S : status[i] # "queued"
    <3>1. AloneSession(x, batch, count, status, attempts, Cap)
      BY <2>3 DEF AloneInv
    <3>2. /\ Current(x.known, status, attempts) /\ status[x.item] = "starting"
          /\ x.base = [batch |-> batch, count |-> count]
      BY <2>1, <3>1 DEF AloneSession
    <3> QED
      BY <2>2, <3>2 DEF Current, ItemTerminal
  <2>4. S \in SUBSET Items
    BY <2>2
  <2> HIDE DEF S, then
  <2> QED
    BY <1>0, <2>1, <2>2, <2>3, <2>4, AloneFails
<1>2. CASE Surface(s)
  <2> DEFINE open == {i \in Items : status[i] \notin ItemTerminal}
  <2>1. Finish(s) \/ Fail(s, open, Batch, Loaded(Items), "idle")
    BY <1>2 DEF Surface
  <2>2. DOMAIN Loaded(Items) = Items /\ Current(Loaded(Items), status, attempts)
    BY DEF Loaded, Current
  <2>3. Batch = [batch |-> batch, count |-> count] /\ open \in SUBSET Items
    BY DEF Batch
  <2>4. /\ \A i \in open : status[i] \notin ItemTerminal
        /\ \A i \in Items \ open : status[i] # "queued"
    BY DEF ItemTerminal
  <2>5. CASE Finish(s)
    BY <1>0, <2>5, AloneFinish, AloneSame
  <2> HIDE DEF open
  <2>6. CASE Fail(s, open, Batch, Loaded(Items), "idle")
    BY <1>0, <2>2, <2>3, <2>4, <2>6, AloneFails
  <2> QED
    BY <2>1, <2>5, <2>6
<1> QED
  BY <1>1, <1>2

--------------------------------------------------------------------------------
\* Commits, and the invariant

LEMMA AloneCommits ==
  ASSUME IInv, AloneInv, NEW s \in Sessions, Commit(s)
  PROVE  AloneInv'
<1> DEFINE w == sess[s].tx
<1>0. /\ sess[s].pc = "committing" /\ s \in crew /\ SessionOK(sess[s])
      /\ crew' = crew /\ attempts' = attempts /\ Cap' = Cap
      /\ status' = Overlay(status, w.status) /\ count' = Overlay(count, w.count)
      /\ batch' = IF w.batch = "kept" THEN batch ELSE w.batch
  BY DEF Commit, Cap, IInv, TypeOK, SessionInv
<1> SUFFICES ASSUME Alone' PROVE AloneInv'
  BY DEF AloneInv
<1>1. Alone
  BY <1>0 DEF Alone
<1>2. /\ AloneSession(sess[s], batch, count, status, attempts, Cap)
      /\ Left(status, attempts, Cap)
  BY <1>1 DEF AloneInv
<1>3. Balanced(w, batch, count, status, attempts, Cap)
  BY <1>0, <1>2 DEF AloneSession
<1> HIDE DEF w
<1>4. Exact(status', count') /\ Rests(batch', status')
  BY <1>0, <1>3 DEF Balanced, EndBy
<1>5. Settled(batch', status')
  <2>1. Settled(batch, status) /\ batch' = EndBy(w, batch)
    BY <1>0, <1>1 DEF AloneInv, EndBy
  <2>2. CASE EndBy(w, batch) = EndOf(batch, status')
    BY <2>1, <2>2 DEF EndOf, Settled, BatchTerminal
  <2>3. CASE DOMAIN w.status = {} /\ <<batch, EndBy(w, batch)>> \in Switches
    <3>1. AllEnd(status') => AllEnd(status)
      BY <1>0, <2>3 DEF AllEnd, Overlay, IInv, TypeOK
    <3> QED
      BY <2>1, <2>3, <3>1 DEF Settled, Switches, BatchTerminal
  <2> QED
    BY <1>0, <1>3, <2>2, <2>3 DEF Balanced
<1>6. Left(status', attempts', Cap')
  BY <1>0, <1>2, <1>3 DEF Balanced, Left, Overlay, IInv, TypeOK
<1>7. /\ sess'[s].pc \in {"idle", "expiring", "asking", "surfacing"}
      /\ \A t \in Sessions \ {s} : sess'[t] = sess[t]
  <2>1. CASE Finish(s)
    BY <2>1 DEF Finish, Be, Idle, IInv, TypeOK
  <2>2. CASE Be(s, [Idle EXCEPT !.pc = sess[s].then, !.role = sess[s].role, !.did = sess[s].did])
    BY <1>0, <2>2 DEF Be, Idle, SessionOK, IInv, TypeOK
  <2> QED
    BY <2>1, <2>2 DEF Commit
<1>8. \A t \in Sessions \ {s} : sess[t].pc = "idle"
  BY <1>0, <1>1, SoleSession
<1>9. \A t \in Sessions : sess'[t].pc \in {"idle", "expiring", "asking", "surfacing"}
  BY <1>7, <1>8
<1>10. \A t \in Sessions : AloneSession(sess'[t], batch', count', status', attempts', Cap')
  BY <1>9, Unheld
<1> QED
  BY <1>4, <1>5, <1>6, <1>10 DEF AloneInv

LEMMA AloneBegins == ASSUME Init PROVE AloneInv
<1>1. \A i \in Items : status[i] = "queued" /\ attempts[i] = 0
  BY DEF Init
<1>2. \A s \in Sessions : sess[s].pc = "idle"
  BY DEF Init, Idle
<1>3. Exact(status, count)
  <2>1. \A k \in Counters : EndedAs(status, k) = {} /\ count[k] = 0
    BY <1>1 DEF EndedAs, ItemTerminal, Init
  <2> QED
    BY <2>1, FS_EmptySet DEF Exact
<1>4. Rests(batch, status)
  BY DEF Rests, Init, BatchTerminal
<1>5. Settled(batch, status)
  BY <1>1, ItemsAssumption DEF Settled, AllEnd, ItemTerminal, Init
<1>6. Left(status, attempts, Cap)
  BY <1>1, LimitsAssumption DEF Left, Cap, Init
<1>7. \A s \in Sessions : AloneSession(sess[s], batch, count, status, attempts, Cap)
  BY <1>2, Unheld
<1> QED
  BY <1>3, <1>4, <1>5, <1>6, <1>7 DEF AloneInv

LEMMA AloneInductive == ASSUME IInv, AloneInv, [Next]_vars PROVE AloneInv'
<1>1. CASE UNCHANGED vars
  BY <1>1 DEF vars, AloneInv, Alone, Cap
<1>2. CASE Next
  <2>1. PICK s \in Sessions :
          Work(s) \/ Asked(s) \/ TakeJob(s) \/ Recover(s) \/ EnqueueFails(s) \/ Dies(s)
    BY <1>2 DEF Next
  <2>2. CASE Work(s)
    BY <2>2, AloneCommits, AloneRecords, AloneAnswers, AloneMoves, AloneMovesAll, AloneAsks,
       AloneClaims, AloneEnqueues, AloneUnlaunched
    DEF Work
  <2>3. CASE Asked(s) \/ TakeJob(s)
    BY <2>3, AloneRequested, AloneControls DEF Asked
  <2>4. CASE Recover(s)
    BY <2>4, AloneRecovers
  <2>5. CASE EnqueueFails(s) \/ Dies(s)
    BY <2>5, AloneEnqueues, AloneDies
  <2> QED
    BY <2>1, <2>2, <2>3, <2>4, <2>5
<1> QED
  BY <1>1, <1>2

\* While no two sessions overlap, the counters of the batch say how its items ended: what
\* a session counts up and down it has read since the last commit, and none goes below zero.
THEOREM CountersKept == Spec => []CountersExact
<1>1. Init => IInv /\ AloneInv
  BY Begins, AloneBegins
<1>2. IInv /\ AloneInv /\ [Next]_vars => IInv' /\ AloneInv'
  BY Inductive, AloneInductive
<1>3. AloneInv => CountersExact
  BY DEF AloneInv, CountersExact, Exact, EndedAs
<1> QED
  BY <1>1, <1>2, <1>3, PTL DEF Spec

\* An item alone with its sessions is started MAX_ATTEMPTS times and once more for each
\* time users ask for it: only a claim counts an attempt, and who queues the item again
\* has seen that one is left, or was asked to.
THEOREM AttemptsKept == Spec => []AttemptsBounded
<1>1. Init => IInv /\ AloneInv
  BY Begins, AloneBegins
<1>2. IInv /\ AloneInv /\ [Next]_vars => IInv' /\ AloneInv'
  BY Inductive, AloneInductive
<1>3. AloneInv => AttemptsBounded
  BY DEF AloneInv, AttemptsBounded, Left, Cap
<1> QED
  BY <1>1, <1>2, <1>3, PTL DEF Spec

\* A finished batch rests: what ends it ends what is under way, or has seen that nothing is.
THEOREM FinishedBatchRests == Spec => []FinishedRests
<1>1. Init => IInv /\ AloneInv
  BY Begins, AloneBegins
<1>2. IInv /\ AloneInv /\ [Next]_vars => IInv' /\ AloneInv'
  BY Inductive, AloneInductive
<1>3. AloneInv => FinishedRests
  BY DEF AloneInv, FinishedRests, Rests, Active, Running, WaitingInput
<1> QED
  BY <1>1, <1>2, <1>3, PTL DEF Spec

\* A step of one session alone leaves authorised and cancelled items as they are.
LEMMA EndsStay ==
  ASSUME IInv, AloneInv, Alone, [Next]_vars, NEW i \in Items,
         status[i] \in {"authorized", "cancelled"}
  PROVE  status'[i] = status[i]
<1>1. CASE UNCHANGED vars
  BY <1>1 DEF vars
<1>2. CASE Next
  <2>1. PICK s \in Sessions :
          Work(s) \/ Asked(s) \/ TakeJob(s) \/ Recover(s) \/ EnqueueFails(s) \/ Dies(s)
    BY <1>2 DEF Next
  <2>2. CASE Commit(s)
    <3>1. sess[s].pc = "committing" /\ status' = Overlay(status, sess[s].tx.status)
      BY <2>2 DEF Commit
    <3>2. Balanced(sess[s].tx, batch, count, status, attempts, Cap)
      BY <3>1 DEF AloneInv, AloneSession
    <3>3. ItemNext[status[i]] = {}
      BY DEF ItemNext
    <3>4. i \notin DOMAIN sess[s].tx.status
      BY <3>2, <3>3 DEF Balanced
    <3> QED
      BY <3>1, <3>4 DEF Overlay, IInv, TypeOK
  <2>3. CASE Claim(s)
    <3>1. \A j \in Claimable(s) : j # i
      BY DEF Claimable
    <3> QED
      BY <2>3, <3>1 DEF Claim, IInv, TypeOK
  <2>4. CASE ~ (Commit(s) \/ Claim(s))
    <3>1. UNCHANGED status
      BY <2>1, <2>4
      DEF Work, Record, Answer, Move, MoveAll, Ask, Count, Enqueue, FailQueued, Surface, Asked,
          TakeJob, Recover, EnqueueFails, Dies, Submit, StartBatch, PauseBatch, CancelBatch,
          CancelItem, Requeue, Release, Expire, stored
    <3> QED
      BY <3>1
  <2> QED
    BY <2>2, <2>3, <2>4
<1> QED
  BY <1>1, <1>2

\* What one session alone commits are legal moves of the items as they are, and the table
\* lets no authorised and no cancelled item go.
THEOREM EndsAreKept == Spec => EndsKept
<1>1. Init => IInv /\ AloneInv
  BY Begins, AloneBegins
<1>2. IInv /\ AloneInv /\ [Next]_vars => IInv' /\ AloneInv'
  BY Inductive, AloneInductive
<1>3. IInv /\ AloneInv /\ [Next]_vars =>
        [Alone => \A i \in Items :
           status[i] \in {"authorized", "cancelled"} => status'[i] = status[i]]_vars
  BY EndsStay
<1> QED
  BY <1>1, <1>2, <1>3, PTL DEF Spec, EndsKept

--------------------------------------------------------------------------------
\* The ledger that the batch is to its user

LEMMA LedgerTables ==
  /\ DOMAIN ItemNext = ItemStatuses /\ DOMAIN CounterOf = ItemTerminal
  /\ {CounterOf[u] : u \in DOMAIN CounterOf} = Counters
<1>1. DOMAIN ItemNext = ItemStatuses
  BY DEF ItemNext, ItemStatuses, Waiting, ItemTerminal
<1>2. DOMAIN CounterOf = ItemTerminal
  BY DEF CounterOf, ItemTerminal
<1>3. {CounterOf[u] : u \in ItemTerminal} = Counters
  BY DEF CounterOf, ItemTerminal, Counters
<1> QED
  BY <1>1, <1>2, <1>3

\* Exact counters are the ledger's.
LEMMA LedgerTally ==
  ASSUME NEW st, NEW ct \in Counts, Exact(st, ct)
  PROVE  ct = Ledger!Tally(st)
<1> DEFINE In(k) == {i \in Items : st[i] \in DOMAIN CounterOf /\ CounterOf[st[i]] = k}
<1>1. \A k \in Counters : In(k) = EndedAs(st, k)
  BY LedgerTables DEF EndedAs
<1>2. Ledger!Tally(st) = [k \in Counters |-> Cardinality(In(k))]
  <2>1. \A k \in Counters : Ledger!Cardinality(In(k)) = Cardinality(In(k))
    BY DEF Ledger!Cardinality, Cardinality
  <2> QED
    BY <2>1, LedgerTables DEF Ledger!Tally
<1> HIDE DEF In
<1>3. \A k \in Counters : ct[k] = Cardinality(In(k))
  BY <1>1 DEF Exact
<1> QED
  BY <1>2, <1>3 DEF Counts

LEMMA LedgerCommits ==
  ASSUME IInv, IInv', AloneInv, AloneInv', Alone, Alone', NEW s \in Sessions, Commit(s)
  PROVE  Ledger!Next
<1> DEFINE w == sess[s].tx
<1>1. /\ sess[s].pc = "committing"
      /\ status' = Overlay(status, w.status) /\ count' = Overlay(count, w.count)
      /\ batch' = EndBy(w, batch)
  BY DEF Commit, EndBy
<1>2. /\ Balanced(w, batch, count, status, attempts, Cap) /\ Settled(batch, status)
      /\ Exact(status', count') /\ Rests(batch', status')
  BY <1>1 DEF AloneInv, AloneSession
<1>3. /\ status \in [Items -> ItemStatuses] /\ status' \in [Items -> ItemStatuses]
      /\ count \in Counts /\ count' \in Counts /\ batch \in BatchStatuses
  BY DEF IInv, TypeOK
<1> HIDE DEF w
<1>4. CASE DOMAIN w.status = {} /\ DOMAIN w.count = {} /\ <<batch, EndBy(w, batch)>> \in Switches
  <2>1. status' = status
    BY <1>1, <1>3, <1>4 DEF Overlay
  <2>2. count' = count
    BY <1>1, <1>3, <1>4 DEF Overlay, Counts
  <2> QED
    BY <1>1, <1>4, <2>1, <2>2 DEF Ledger!Next, Ledger!Switch, Switches
<1>5. CASE EndBy(w, batch) = EndOf(batch, status')
  <2>1. status' \in [Items -> DOMAIN ItemNext]
    BY <1>3, LedgerTables
  <2>2. \A i \in Items : status'[i] # status[i] => status'[i] \in ItemNext[status[i]] \ {"starting"}
    BY <1>1, <1>2, <1>3 DEF Balanced, Overlay
  <2>3. count' = Ledger!Tally(status')
    BY <1>2, <1>3, LedgerTally
  <2>4. batch \in BatchTerminal <=> batch \in {"completed", "failed"}
    BY <1>2 DEF Settled, BatchTerminal
  <2>5. batch' = IF batch \in Ledger!Over \/ ~ Ledger!AllEnded(status') THEN batch
                 ELSE IF \E i \in Items : status'[i] = "authorized" THEN "completed" ELSE "failed"
    BY <1>1, <1>5, <2>4, LedgerTables DEF EndOf, AllEnd, Ledger!Over, Ledger!AllEnded
  <2>6. batch \in Ledger!Over => \A i \in Items : status'[i] \in {"queued"} \cup DOMAIN CounterOf
    <3> SUFFICES ASSUME batch \in Ledger!Over, NEW i \in Items
        PROVE  status'[i] \in {"queued"} \cup DOMAIN CounterOf
      OBVIOUS
    <3>1. batch' = batch /\ batch \in BatchTerminal
      BY <2>4, <2>5 DEF Ledger!Over
    <3>2. status'[i] \in ItemStatuses \ Active
      BY <1>2, <1>3, <3>1 DEF Rests
    <3> QED
      BY <3>2, LedgerTables DEF ItemStatuses, Active
  <2>7. \A i \in Items : status[i] \in {"authorized", "cancelled"} => status'[i] = status[i]
    BY <2>2 DEF ItemNext
  <2> QED
    BY <2>1, <2>2, <2>3, <2>5, <2>6, <2>7 DEF Ledger!Next, Ledger!Go
<1> QED
  BY <1>1, <1>2, <1>4, <1>5 DEF Balanced

LEMMA LedgerStarts ==
  ASSUME IInv, AloneInv, Alone, NEW s \in Sessions, Claim(s)
  PROVE  Ledger!Next \/ UNCHANGED <<status, batch, count>>
<1>1. sess[s].pc = "claiming" /\ batch' = batch /\ count' = count
  BY DEF Claim
<1>2. batch = "running"
  BY <1>1 DEF AloneInv, AloneSession
<1>3. CASE UNCHANGED status
  BY <1>1, <1>3
<1>4. CASE ~ UNCHANGED status
  <2>1. PICK i \in Claimable(s) : status' = [status EXCEPT ![i] = "starting"]
    BY <1>4 DEF Claim
  <2>2. i \in Items /\ status[i] = "queued"
    BY DEF Claimable
  <2> QED
    BY <1>1, <1>2, <2>1, <2>2 DEF Ledger!Next, Ledger!Start
<1> QED
  BY <1>3, <1>4

LEMMA CrewStays == ASSUME [Next]_vars PROVE crew' = crew
<1>1. CASE UNCHANGED vars
  BY <1>1 DEF vars
<1>2. CASE Next
  <2>1. PICK s \in Sessions :
          Work(s) \/ Asked(s) \/ TakeJob(s) \/ Recover(s) \/ EnqueueFails(s) \/ Dies(s)
    BY <1>2 DEF Next
  <2> QED
    BY <2>1
    DEF Work, Commit, Claim, Record, Answer, Move, MoveAll, Ask, Count, Enqueue, FailQueued,
        Surface, Asked, TakeJob, Recover, EnqueueFails, Dies, Submit, StartBatch, PauseBatch,
        CancelBatch, CancelItem, Requeue, Release, Expire, stored
<1> QED
  BY <1>1, <1>2

LEMMA LedgerStep ==
  ASSUME IInv, IInv', AloneInv, AloneInv', Alone, Alone', [Next]_vars
  PROVE  [Ledger!Next]_(Ledger!vars)
<1> SUFFICES Ledger!Next \/ UNCHANGED <<status, batch, count>>
  BY DEF Ledger!vars
<1>1. CASE UNCHANGED vars
  BY <1>1 DEF vars
<1>2. CASE Next
  <2>1. PICK s \in Sessions :
          Work(s) \/ Asked(s) \/ TakeJob(s) \/ Recover(s) \/ EnqueueFails(s) \/ Dies(s)
    BY <1>2 DEF Next
  <2>2. CASE Commit(s)
    BY <2>2, LedgerCommits
  <2>3. CASE Claim(s)
    BY <2>3, LedgerStarts
  <2>4. CASE ~ (Commit(s) \/ Claim(s))
    BY <2>1, <2>4
    DEF Work, Record, Answer, Move, MoveAll, Ask, Count, Enqueue, FailQueued, Surface, Asked,
        TakeJob, Recover, EnqueueFails, Dies, Submit, StartBatch, PauseBatch, CancelBatch,
        CancelItem, Requeue, Release, Expire, stored
  <2> QED
    BY <2>2, <2>3, <2>4
<1> QED
  BY <1>1, <1>2

LEMMA LedgerBegins == ASSUME Init, AloneInv, Alone PROVE Ledger!Init
<1>1. Exact(status, count) /\ count \in Counts
  BY Begins DEF AloneInv, IInv, TypeOK
<1>2. count = Ledger!Tally(status)
  BY <1>1, LedgerTally
<1> QED
  BY <1>2 DEF Init, Ledger!Init

\* The batch of one session alone is a ledger: a commit is a switch of the batch or lets
\* its items go on, a claim starts an item, and no other step shows. Requests, answers,
\* refusals of the queue, deaths and the recovery bring about nothing else, and it ends in
\* the commit in which the last of its items does.
THEOREM LedgerIsKept == Spec /\ Alone => KeepsLedger
<1>1. Init /\ Alone => IInv /\ AloneInv /\ Ledger!Init
  BY Begins, AloneBegins, LedgerBegins
<1>2. IInv /\ AloneInv /\ Alone /\ [Next]_vars => IInv' /\ AloneInv' /\ Alone'
  <2>1. [Next]_vars => crew' = crew
    BY CrewStays
  <2> QED
    BY <2>1, Inductive, AloneInductive DEF Alone
<1>3. IInv /\ AloneInv /\ Alone /\ [Next]_vars /\ IInv' /\ AloneInv' /\ Alone' =>
        [Ledger!Next]_(Ledger!vars)
  BY LedgerStep
<1> QED
  BY <1>1, <1>2, <1>3, PTL DEF Spec, KeepsLedger, Ledger!Spec

================================================================================
