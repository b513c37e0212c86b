--------------------------- MODULE WarmupDispatch ---------------------------
(***************************************************************************)
(* Live warmup: sessions of accounts, each with a plan of actions per day,  *)
(* and the jobs that carry them out (backend/app/modules/warmup).           *)
(*                                                                         *)
(* A tick finds the sessions that are due.  Without stagger it works on all *)
(* of them in one transaction; with stagger it gives each a job of its own, *)
(* for a little later.  The work on a session is a window of a few actions  *)
(* at Telegram; what was done is known to the row only from the commit on.  *)
(* Requests of operators and the status monitor write the same rows.        *)
(***************************************************************************)
EXTENDS Naturals, FiniteSets

CONSTANTS
  Warmups,        \* live sessions, each of an account of its own
  Workers,        \* processes that consume warmup_dispatch_jobs
  Requests,       \* requests and monitor runs that may overlap
  Actions,        \* action types of the plans
  Limits,         \* daily_action_limits_json: 1-based day -> action -> times
  Duration,       \* duration_days
  MaxDay,         \* the CHECK constraint on current_day (30)
  PerWindow,      \* MAX_ACTIONS_PER_MICRO_SESSION (3)
  Threshold,      \* warmup_max_consecutive_failures
  Rejected,       \* the accounts for which pre-production refuses to start
  Answers,        \* how an action may end, see Act
  StaggerModes,   \* may dispatch_stagger_enabled() be TRUE, FALSE
  MaxFaults,      \* bound on deaths and on answers that come too late
  MaxAsked,       \* bound on requests
  None

ASSUME DaysAssumption ==
  /\ Duration \in Nat \ {0}
  /\ MaxDay \in Nat
  /\ Duration <= MaxDay
ASSUME LimitsAssumption ==
  /\ DOMAIN Limits \subseteq Nat
  /\ \A n \in DOMAIN Limits : Limits[n] \in [Actions -> Nat]
ASSUME BoundsAssumption ==
  /\ Threshold \in Nat \ {0}
  /\ PerWindow \in Nat
  /\ MaxFaults \in Nat
  /\ MaxAsked \in Nat
ASSUME SetsAssumption ==
  /\ Answers \subseteq {"ok", "failed", "flood", "skipped", "late"}
  /\ StaggerModes \subseteq BOOLEAN
  /\ StaggerModes # {}
  /\ None \notin Warmups

VARIABLES
  row,      \* the committed rows of warmup_session
  claim,    \* the accounts whose isolation claim exists
  told,     \* history: what was done at Telegram, by session, day and action
  job,      \* per session: is its RQ job scheduled, queued
  cyclic,   \* the sessions whose strategy has a cycle_config
  enq,      \* sessions just created whose enqueue is about to fail
  stagger,  \* dispatch_stagger_enabled()
  phase,    \* per worker: idle, staggering, working
  todo,     \* per worker: rows loaded and not yet looked at
  cur,      \* per worker: the session whose window is open
  mine,     \* per worker: the rows as its database session has them
  cols,     \* per worker and row: the columns it writes
  left,     \* per worker: actions selected and not yet tried
  good,     \* per worker: actions done in this window
  bad,      \* per worker: actions that failed in this window
  flood,    \* per worker: did one of them name a time to wait
  req,      \* requests between their SELECT and their UPDATE
  asked,    \* number of requests so far
  faults    \* history: windows lost and answers that came too late

worker == <<phase, todo, cur, mine, cols, left, good, bad, flood>>
vars == <<row, claim, told, job, cyclic, enq, stagger, worker, req, asked, faults>>

Days == 0 .. MaxDay
Slots == Days \X Actions
Statuses == {"none", "cold_soak", "scheduled", "active", "paused_manual",
             "paused_risk", "completed", "failed", "deleted"}
Running == {"scheduled", "active"}
Ended == {"completed", "failed", "deleted"}
Columns == {"status", "day", "counts", "fails", "next", "updated_at"}

\* next_micro_session_at: NULL, over, the cursor of the staggered job, later.
Nexts == {"null", "past", "cursor", "later"}
Rows == [status : Statuses, day : Days, counts : [Slots -> Nat],
         fails : Nat, next : Nexts]
Fresh == [status |-> "none", day |-> 0, counts |-> [k \in Slots |-> 0],
          fails |-> 0, next |-> "later"]

\* The plan of a 0-based day, by its 1-based key or else by the day itself.
PlanOf(d) ==
  IF d + 1 \in DOMAIN Limits THEN Limits[d + 1]
  ELSE IF d \in DOMAIN Limits THEN Limits[d]
  ELSE [x \in Actions |-> 0]

Pending(r) == {x \in Actions : r.counts[<<r.day, x>>] < PlanOf(r.day)[x]}

\* Changed form: a next time that is NULL is never due.
DueByTime(r) == r.status \in Running \cup {"cold_soak"} /\ r.next = "past"

\* A cold soak that is over is due whatever cursor its row has.
Due(r) ==
  \/ r.status \in Running /\ r.next \in {"null", "past"}
  \/ r.status = "cold_soak" /\ r.next # "later"

(***************************************************************************)
(* Rows and locks.  An UPDATE holds the row until its transaction ends.     *)
(***************************************************************************)
Updated(w, s) == phase[w] = "working" /\ cols[w][s] # {}
Unlocked(w, s) == \A v \in Workers \ {w} : ~Updated(v, s)

\* Changed form: the counters are altered in place, which no UPDATE notices.
ChangedInPlace(old, new) ==
  (IF new.status # old.status THEN {"status"} ELSE {})
    \cup (IF new.day # old.day THEN {"day"} ELSE {})
    \cup (IF new.fails # old.fails THEN {"fails"} ELSE {})
    \cup (IF new.next # old.next THEN {"next"} ELSE {})

Changed(old, new) ==
  (IF new.status # old.status THEN {"status"} ELSE {})
    \cup (IF new.day # old.day THEN {"day"} ELSE {})
    \cup (IF new.counts # old.counts THEN {"counts"} ELSE {})
    \cup (IF new.fails # old.fails THEN {"fails"} ELSE {})
    \cup (IF new.next # old.next THEN {"next"} ELSE {})

Merged(r, m, cs) ==
  [status |-> IF "status" \in cs THEN m.status ELSE r.status,
   day    |-> IF "day" \in cs THEN m.day ELSE r.day,
   counts |-> IF "counts" \in cs THEN m.counts ELSE r.counts,
   fails  |-> IF "fails" \in cs THEN m.fails ELSE r.fails,
   next   |-> IF "next" \in cs THEN m.next ELSE r.next]

NoRequest == [op |-> "none", on |-> None, fails |-> 0]

Init ==
  /\ row = [s \in Warmups |-> Fresh]
  /\ claim = {}
  /\ told = [s \in Warmups |-> [k \in Slots |-> 0]]
  /\ job = [s \in Warmups |-> {}]
  /\ cyclic = {}
  /\ enq = {}
  /\ stagger \in StaggerModes
  /\ phase = [w \in Workers |-> "idle"]
  /\ todo = [w \in Workers |-> {}]
  /\ cur = [w \in Workers |-> None]
  /\ mine = [w \in Workers |-> [s \in Warmups |-> Fresh]]
  /\ cols = [w \in Workers |-> [s \in Warmups |-> {}]]
  /\ left = [w \in Workers |-> {}]
  /\ good = [w \in Workers |-> {}]
  /\ bad = [w \in Workers |-> {}]
  /\ flood = [w \in Workers |-> FALSE]
  /\ req = [r \in Requests |-> NoRequest]
  /\ asked = 0
  /\ faults = 0

(***************************************************************************)
(* Creation, time, and the queue.                                          *)
(***************************************************************************)
Create(s) ==
  /\ row[s].status = "none"
  /\ row' = [row EXCEPT ![s].status = "cold_soak"]
  /\ claim' = claim \cup {s}
  /\ cyclic' \in {cyclic, cyclic \cup {s}}
  /\ enq' \in {enq, enq \cup {s}}
  /\ UNCHANGED <<told, job, stagger, worker, req, asked, faults>>

\* The tick cannot be enqueued: the request fails the session it committed.
EnqueueFails(s) ==
  /\ s \in enq
  /\ \A w \in Workers : ~Updated(w, s)
  /\ enq' = enq \ {s}
  /\ IF row[s].status = "deleted"
       THEN UNCHANGED <<row, claim>>
       ELSE /\ row' = [row EXCEPT ![s].status = "failed"]
            /\ claim' = claim \ {s}
  /\ UNCHANGED <<told, job, cyclic, stagger, worker, req, asked, faults>>

\* A cold soak lasts hours, longer than the request that began it.
TimeComes(s) ==
  /\ row[s].status \notin Ended \cup {"none"}
  /\ row[s].next \in {"cursor", "later"}
  /\ s \notin enq
  /\ row' = [row EXCEPT ![s].next = "past"]
  /\ UNCHANGED <<claim, told, job, cyclic, enq, stagger, worker, req, asked, faults>>

\* The RQ scheduler moves a job whose cursor has passed to the queue.
Promote(s) ==
  /\ "scheduled" \in job[s]
  /\ row[s].next # "cursor"
  /\ job' = [job EXCEPT ![s] = {"queued"}]
  /\ UNCHANGED <<row, claim, told, cyclic, enq, stagger, worker, req, asked, faults>>

(***************************************************************************)
(* Beginning of a transaction of a worker.                                 *)
(***************************************************************************)
Begin(w, ss, kind) ==
  /\ phase' = [phase EXCEPT ![w] = kind]
  /\ todo' = [todo EXCEPT ![w] = ss]
  /\ mine' = [mine EXCEPT ![w] = [s \in Warmups |-> IF s \in ss THEN row[s] ELSE Fresh]]
  /\ UNCHANGED <<cur, cols, left, good, bad, flood>>

Tick(w) ==
  LET ss == {s \in Warmups : Due(row[s])}
  IN /\ phase[w] = "idle"
     /\ ss # {}
     /\ Begin(w, ss, IF stagger THEN "staggering" ELSE "working")
     /\ UNCHANGED <<row, claim, told, job, cyclic, enq, stagger, req, asked, faults>>

TakeJob(w, s) ==
  /\ phase[w] = "idle"
  /\ "queued" \in job[s]
  /\ job' = [job EXCEPT ![s] = @ \ {"queued"}]
  /\ IF Due(row[s]) THEN Begin(w, {s}, "working") ELSE UNCHANGED worker
  /\ UNCHANGED <<row, claim, told, cyclic, enq, stagger, req, asked, faults>>

\* The end of a transaction, whatever became of it.
Reset(w) ==
  /\ phase' = [phase EXCEPT ![w] = "idle"]
  /\ todo' = [todo EXCEPT ![w] = {}]
  /\ cur' = [cur EXCEPT ![w] = None]
  /\ mine' = [mine EXCEPT ![w] = [s \in Warmups |-> Fresh]]
  /\ cols' = [cols EXCEPT ![w] = [s \in Warmups |-> {}]]
  /\ left' = [left EXCEPT ![w] = {}]
  /\ good' = [good EXCEPT ![w] = {}]
  /\ bad' = [bad EXCEPT ![w] = {}]
  /\ flood' = [flood EXCEPT ![w] = FALSE]

(***************************************************************************)
(* Stagger: a job for each session, and its cursor as the row's next time.  *)
(***************************************************************************)
EnqueueAt(w, s) ==
  /\ phase[w] = "staggering"
  /\ s \in todo[w]
  /\ todo' = [todo EXCEPT ![w] = @ \ {s}]
  /\ job' = [job EXCEPT ![s] = @ \cup {"scheduled"}]
  /\ mine' = [mine EXCEPT ![w][s].next = "cursor"]
  /\ cols' = [cols EXCEPT ![w][s] = {"next"}]
  /\ UNCHANGED <<row, claim, told, cyclic, enq, stagger, phase, cur, left, good, bad,
                 flood, req, asked, faults>>

\* Redis refuses one of them: the rows are rolled back, the jobs stay.
EnqueueRefused(w) ==
  /\ phase[w] = "staggering"
  /\ todo[w] # {}
  /\ Reset(w)
  /\ UNCHANGED <<row, claim, told, job, cyclic, enq, stagger, req, asked, faults>>

(***************************************************************************)
(* The work on one session, up to its flush.                               *)
(***************************************************************************)
Flush(w, s, new) ==
  /\ Unlocked(w, s)
  /\ row[s].status # "deleted"
  /\ mine' = [mine EXCEPT ![w][s] = new]
  /\ cols' = [cols EXCEPT ![w][s] =
                @ \cup Changed(mine[w][s], new) \cup {"updated_at"}
                  \cup (IF bad[w] # {} THEN {"counts"} ELSE {})]

\* The row as it leaves the cold soak, if that is where it was.
Soaked(r) ==
  IF r.status = "cold_soak" THEN [r EXCEPT !.status = "scheduled", !.next = "past"] ELSE r

Looks(w, s) ==
  /\ phase[w] = "working"
  /\ cur[w] = None
  /\ s \in todo[w]
  /\ todo' = [todo EXCEPT ![w] = @ \ {s}]
  /\ UNCHANGED <<row, told, claim, job, cyclic, enq, stagger, phase, bad, req, asked,
                 faults>>

\* Quiet hours, an inactive hour of the cycle, an adapter that is not there.
Postpone(w, s) ==
  /\ Looks(w, s)
  /\ Flush(w, s, [Soaked(mine[w][s]) EXCEPT !.next = "later"])
  /\ UNCHANGED <<cur, left, good, flood>>

\* The safety gate pauses the session.
GateBlocks(w, s) ==
  /\ Looks(w, s)
  /\ Flush(w, s, [Soaked(mine[w][s]) EXCEPT !.status = "paused_risk", !.next = "null"])
  /\ UNCHANGED <<cur, left, good, flood>>

\* A cyclic session ends with its last cycle, whatever was done.
CyclesEnd(w, s) ==
  /\ s \in cyclic \ Rejected
  /\ Looks(w, s)
  /\ Flush(w, s, [Soaked(mine[w][s]) EXCEPT !.status = "completed", !.next = "null"])
  /\ UNCHANGED <<cur, left, good, flood>>

\* The window opens with some of the pending actions; of a cyclic session the
\* row is touched first (schedule_next_cycle).
OpenWindow(w, s, xs) ==
  /\ Looks(w, s)
  /\ xs \subseteq Pending(mine[w][s])
  /\ Cardinality(xs) <= PerWindow
  /\ IF mine[w][s].status = "cold_soak" \/ s \in cyclic
       THEN Flush(w, s, Soaked(mine[w][s]))
       ELSE UNCHANGED <<mine, cols>>
  /\ cur' = [cur EXCEPT ![w] = s]
  /\ left' = [left EXCEPT ![w] = xs]
  /\ UNCHANGED <<good, flood>>

\* One action at Telegram.  "late" is done and reported as failed.
Act(w, x, answer) ==
  /\ cur[w] # None
  /\ x \in left[w]
  /\ answer = "late" => faults < MaxFaults
  /\ left' = [left EXCEPT ![w] = @ \ {x}]
  /\ good' = [good EXCEPT ![w] = IF answer = "ok" THEN @ \cup {x} ELSE @]
  /\ bad' = [bad EXCEPT ![w] =
               IF answer \in {"failed", "flood", "late"} THEN @ \cup {x} ELSE @]
  /\ flood' = [flood EXCEPT ![w] = @ \/ answer = "flood"]
  /\ told' = IF answer \in {"ok", "late"}
               THEN [told EXCEPT ![cur[w]][<<mine[w][cur[w]].day, x>>] = @ + 1]
               ELSE told
  /\ faults' = IF answer = "late" THEN faults + 1 ELSE faults
  /\ UNCHANGED <<row, claim, job, cyclic, enq, stagger, phase, todo, cur, mine, cols, req,
                 asked>>

(***************************************************************************)
(* The end of a window: counters, breaker, day.                            *)
(***************************************************************************)
\* Changed form: the counters hold what is left to do.
CountedDown(w) ==
  LET r == mine[w][cur[w]]
  IN [r EXCEPT !.counts = [k \in Slots |-> IF k[1] = r.day /\ k[2] \in good[w]
                                             THEN r.counts[k] - 1 ELSE r.counts[k]]]

\* Counters and status after the actions.
Counted(w) ==
  LET r == mine[w][cur[w]]
  IN [status |-> IF good[w] # {} THEN "active" ELSE r.status,
      day    |-> r.day,
      counts |-> [k \in Slots |-> IF k[1] = r.day /\ k[2] \in good[w]
                                    THEN r.counts[k] + 1 ELSE r.counts[k]],
      fails  |-> IF good[w] # {} THEN 0 ELSE IF bad[w] # {} THEN r.fails + 1 ELSE r.fails,
      next   |-> "later"]

AllFailed(w) == good[w] = {} /\ bad[w] # {}
Trips(w) == AllFailed(w) /\ Counted(w).fails >= Threshold
\* Changed form: an action that failed is over as well.
DayOverIfTried(w) == Pending(Counted(w)) \ bad[w] = {}
DayOver(w) == Pending(Counted(w)) = {}
EndsDay(w) == ~Trips(w) /\ ~(AllFailed(w) /\ flood[w]) /\ DayOver(w)
Completes(w) == EndsDay(w) /\ mine[w][cur[w]].day + 1 >= Duration

\* All that was selected has been tried.
Tried(w) == phase[w] = "working" /\ cur[w] # None /\ left[w] = {}

Closes(w, new) ==
  /\ Flush(w, cur[w], new)
  /\ cur' = [cur EXCEPT ![w] = None]
  /\ good' = [good EXCEPT ![w] = {}]
  /\ bad' = [bad EXCEPT ![w] = {}]
  /\ flood' = [flood EXCEPT ![w] = FALSE]
  /\ UNCHANGED <<row, claim, told, job, cyclic, enq, stagger, phase, todo, left, req, asked,
                 faults>>

\* The circuit breaker: too many windows in a row in which everything failed.
TripBreaker(w) ==
  /\ Tried(w)
  /\ Trips(w)
  /\ Closes(w, [Counted(w) EXCEPT !.status = "paused_risk", !.next = "null"])

CloseWindow(w) ==
  /\ Tried(w)
  /\ ~Trips(w)
  /\ ~EndsDay(w)
  /\ Closes(w, Counted(w))

EndDay(w) ==
  /\ Tried(w)
  /\ EndsDay(w)
  /\ ~Completes(w)
  /\ Closes(w, [Counted(w) EXCEPT !.day = @ + 1])

Complete(w) ==
  /\ Tried(w)
  /\ Completes(w)
  /\ cur[w] \notin Rejected
  /\ mine[w][cur[w]].day < MaxDay
  /\ Closes(w, [Counted(w) EXCEPT !.status = "completed", !.day = @ + 1, !.next = "null"])

(***************************************************************************)
(* The end of a transaction.                                               *)
(***************************************************************************)
\* Changed form: the end of the cycles forgets the claim.
FinishedByPlan(w) == {s \in Warmups \ cyclic : mine[w][s].status = "completed"}
Finished(w) == {s \in Warmups : "status" \in cols[w][s] /\ mine[w][s].status = "completed"}

Commit(w) ==
  /\ phase[w] # "idle"
  /\ todo[w] = {}
  /\ cur[w] = None
  /\ \A s \in Warmups : cols[w][s] # {} => Unlocked(w, s) /\ row[s].status # "deleted"
  /\ row' = [s \in Warmups |-> Merged(row[s], mine[w][s], cols[w][s])]
  /\ claim' = claim \ Finished(w)
  /\ Reset(w)
  /\ UNCHANGED <<told, job, cyclic, enq, stagger, req, asked, faults>>

\* Something raises: a row that was deleted, a pre-production that refuses to
\* start, the constraint on current_day, a row that stays locked too long.
\* Everything of the transaction is rolled back but what Telegram has seen.
Breaks(w) ==
  \/ \E s \in todo[w] : row[s].status = "deleted" \/ ~Unlocked(w, s)
  \/ \E s \in Warmups : cols[w][s] # {} /\ (row[s].status = "deleted" \/ ~Unlocked(w, s))
  \/ \E s \in todo[w] \cap cyclic : cur[w] = None /\ s \in Rejected
  \/ /\ Tried(w)
     /\ \/ row[cur[w]].status = "deleted"
        \/ ~Unlocked(w, cur[w])
        \/ Completes(w) /\ (cur[w] \in Rejected \/ mine[w][cur[w]].day >= MaxDay)

Raise(w) ==
  /\ phase[w] # "idle"
  /\ Breaks(w)
  /\ faults' = faults + 1
  /\ Reset(w)
  /\ UNCHANGED <<row, claim, told, job, cyclic, enq, stagger, req, asked>>

Die(w) ==
  /\ phase[w] # "idle"
  /\ faults < MaxFaults
  /\ faults' = faults + 1
  /\ Reset(w)
  /\ UNCHANGED <<row, claim, told, job, cyclic, enq, stagger, req, asked>>

(***************************************************************************)
(* Requests and the status monitor: a SELECT, a check, an UPDATE.           *)
(***************************************************************************)
May(op, r) ==
  CASE op \in {"pause", "monitor"} -> r.status \in Running
    [] op = "resume" -> r.status \in {"paused_manual", "paused_risk"}
    [] op = "delete" -> r.status \notin {"none", "deleted"}

Ask(q, op, s) ==
  /\ req[q] = NoRequest
  /\ asked < MaxAsked
  /\ May(op, row[s])
  /\ asked' = asked + 1
  /\ req' = [req EXCEPT ![q] = [op |-> op, on |-> s, fails |-> row[s].fails]]
  /\ UNCHANGED <<row, claim, told, job, cyclic, enq, stagger, worker, faults>>

\* What the UPDATE of a request makes of the row as it is by now.
Written(op, seen, r) ==
  CASE op = "pause"   -> [r EXCEPT !.status = "paused_manual"]
    [] op = "monitor" -> [r EXCEPT !.status = "paused_risk", !.next = "null"]
    [] op = "resume"  -> [r EXCEPT !.status = "scheduled",
                                   !.fails = IF seen = 0 THEN @ ELSE 0]
    [] op = "delete"  -> [r EXCEPT !.status = "deleted"]

Land(q) ==
  LET s == req[q].on
  IN /\ req[q] # NoRequest
     /\ \A w \in Workers : ~Updated(w, s)
     /\ req' = [req EXCEPT ![q] = NoRequest]
     /\ IF row[s].status = "deleted"
          THEN UNCHANGED <<row, claim>>
          ELSE /\ row' = [row EXCEPT ![s] = Written(req[q].op, req[q].fails, @)]
               /\ claim' = IF req[q].op = "delete" THEN claim \ {s} ELSE claim
     /\ UNCHANGED <<told, job, cyclic, enq, stagger, worker, asked, faults>>

-----------------------------------------------------------------------------
Look(w) ==
  \E s \in Warmups : \/ Postpone(w, s)
                     \/ GateBlocks(w, s)
                     \/ CyclesEnd(w, s)
                     \/ \E xs \in SUBSET Actions : OpenWindow(w, s, xs)

Close(w) == TripBreaker(w) \/ CloseWindow(w) \/ EndDay(w) \/ Complete(w)

Work(w) ==
  \/ \E s \in Warmups : EnqueueAt(w, s)
  \/ Look(w)
  \/ \E x \in Actions, answer \in Answers : Act(w, x, answer)
  \/ Close(w)
  \/ Commit(w)
  \/ Raise(w)

Next ==
  \/ \E s \in Warmups : Create(s) \/ EnqueueFails(s) \/ TimeComes(s) \/ Promote(s)
  \/ \E w \in Workers :
       \/ Tick(w)
       \/ \E s \in Warmups : TakeJob(w, s)
       \/ Work(w)
       \/ EnqueueRefused(w)
       \/ Die(w)
  \/ \E q \in Requests :
       \/ \E op \in {"pause", "resume", "delete", "monitor"}, s \in Warmups : Ask(q, op, s)
       \/ Land(q)

\* The scheduler loop repeats the tick; workers go on unless they die; time
\* passes; and of the windows that could be opened with an action, some are:
\* quiet hours end, and the selection leaves every action out with 0.15^n only.
Fairness ==
  /\ \A s \in Warmups : WF_vars(TimeComes(s)) /\ WF_vars(EnqueueFails(s))
  /\ \A w \in Workers :
       /\ WF_vars(Tick(w))
       /\ WF_vars(Work(w))
       /\ \A s \in Warmups :
            SF_vars(\E xs \in SUBSET Actions \ {{}} : OpenWindow(w, s, xs))

Spec == Init /\ [][Next]_vars /\ Fairness

-----------------------------------------------------------------------------
RequestRows ==
  [op : {"pause", "resume", "delete", "monitor"}, on : Warmups, fails : Nat] \cup {NoRequest}

\* Every variable keeps its type (models.py, the CHECK constraints of the row).
TypeOK ==
  /\ row \in [Warmups -> Rows]
  /\ claim \subseteq Warmups
  /\ told \in [Warmups -> [Slots -> Nat]]
  /\ job \in [Warmups -> SUBSET {"scheduled", "queued"}]
  /\ cyclic \subseteq Warmups
  /\ enq \subseteq Warmups
  /\ stagger \in BOOLEAN
  /\ phase \in [Workers -> {"idle", "staggering", "working"}]
  /\ todo \in [Workers -> SUBSET Warmups]
  /\ cur \in [Workers -> Warmups \cup {None}]
  /\ mine \in [Workers -> [Warmups -> Rows]]
  /\ cols \in [Workers -> [Warmups -> SUBSET Columns]]
  /\ left \in [Workers -> SUBSET Actions]
  /\ good \in [Workers -> SUBSET Actions]
  /\ bad \in [Workers -> SUBSET Actions]
  /\ flood \in [Workers -> BOOLEAN]
  /\ req \in [Requests -> RequestRows]
  /\ asked \in Nat
  /\ faults \in Nat

\* At Telegram a day's limit of an action is exceeded by no more than the
\* windows that were lost and the answers that came late: a transaction loses at
\* most one action of a kind (one commit per tick, dispatcher.py:216-228).
DayLimit ==
  \A s \in Warmups : \A k \in Slots : told[s][k] <= PlanOf(k[1])[k[2]] + faults

\* A session that is COMPLETED has done at Telegram all that the plan says of
\* all its days, whoever wrote which column of its row over what
\* (dispatch_processor.py:251-270); only cyclic sessions end by the calendar.
CompletedMeansWarmed ==
  \A s \in Warmups \ cyclic :
    row[s].status = "completed" =>
      \A k \in Slots : k[1] < Duration => PlanOf(k[1])[k[2]] <= told[s][k]

\* The progress of a session, its day and the counters of each day, never goes back,
\* whoever writes the row, and whatever a transaction had loaded of it before
\* (one commit per tick, dispatcher.py:216-228; commands.py:208 and 250).
ProgressKept ==
  [][\A s \in Warmups :
       /\ row'[s].day >= row[s].day
       /\ \A k \in Slots : row'[s].counts[k] >= row[s].counts[k]]_vars

\* An account whose session has ended is not isolated any more, by whichever of
\* the four ways it ended: a claim left behind would refuse every other use and
\* every later warmup (isolation.py:86-105, commands.py:174-186 and 321-343).
ClaimReturned == \A s \in claim : row[s].status \notin Ended

\* What dispatch_schedule.py:45-49 says of correctly seeded limits: the day's own
\* key is there whenever a day's plan is looked up.  A pause that loaded ACTIVE
\* and lands over COMPLETED lets the session be resumed beyond its last day.
FallbackNeverMatches ==
  \A w \in Workers : cur[w] # None => mine[w][cur[w]].day + 1 \in DOMAIN Limits

\* What isolation.py:3-7 says: the account of a session that is dispatched is
\* isolated.  The same late pause brings a session back without its claim.
IsolationHeld == \A s \in Warmups : row[s].status \in Running => s \in claim

\* Without stagger, a session that is dispatched comes to an end or is paused.
SessionSettles ==
  \A s \in Warmups :
    (~stagger /\ row[s].status \in Running \cup {"cold_soak"})
      ~> row[s].status \in Ended \cup {"paused_manual", "paused_risk"}
=============================================================================
