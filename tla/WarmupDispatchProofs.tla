------------------------- MODULE WarmupDispatchProofs -------------------------
(***************************************************************************)
(* Theorems about WarmupDispatch for any sessions, workers, requests,       *)
(* plans and faults: type correctness, CompletedMeansWarmed, ClaimReturned, *)
(* and, for one worker, DayLimit and ProgressKept.                          *)
(*                                                                         *)
(* A commit writes some columns of a row over whatever others wrote, so the *)
(* invariants speak of each column by itself: what is counted, the day, and *)
(* the status COMPLETED are each covered by what Telegram has seen. With    *)
(* one worker, a row keeps the day and counters that were loaded of it.     *)
(***************************************************************************)
EXTENDS WarmupDispatch, TLAPS

-----------------------------------------------------------------------------
\* Rows with some columns changed

LEMMA PlanType == ASSUME NEW d \in Nat PROVE PlanOf(d) \in [Actions -> Nat]
  BY LimitsAssumption DEF PlanOf

LEMMA StatusColumn ==
  ASSUME NEW r \in Rows, NEW a \in Statuses, NEW q,
         q = [r EXCEPT !.status = a]
  PROVE  q \in Rows /\ q.status = a /\ q.day = r.day /\ q.counts = r.counts
  BY DEF Rows

LEMMA NextColumn ==
  ASSUME NEW r \in Rows, NEW b \in Nexts, NEW q,
         q = [r EXCEPT !.next = b]
  PROVE  q \in Rows /\ q.status = r.status /\ q.day = r.day /\ q.counts = r.counts
  BY DEF Rows

LEMMA DayColumn ==
  ASSUME NEW r \in Rows, NEW d \in Days, NEW q,
         q = [r EXCEPT !.day = d]
  PROVE  q \in Rows /\ q.status = r.status /\ q.day = d /\ q.counts = r.counts
  BY DEF Rows

LEMMA FreshType == Fresh \in Rows
  BY DaysAssumption DEF Fresh, Rows, Statuses, Days, Nexts

LEMMA SoakedType ==
  ASSUME NEW r \in Rows
  PROVE  /\ Soaked(r) \in Rows
         /\ Soaked(r).status \in {r.status, "scheduled"}
         /\ Soaked(r).day = r.day /\ Soaked(r).counts = r.counts
<1>1. "scheduled" \in Statuses /\ "past" \in Nexts
  BY DEF Statuses, Nexts
<1>2. CASE r.status = "cold_soak"
  <2>1. Soaked(r) = [r EXCEPT !.status = "scheduled", !.next = "past"]
    BY <1>2 DEF Soaked
  <2> QED
    BY <1>1, <2>1 DEF Rows
<1>3. CASE r.status # "cold_soak"
  BY <1>3 DEF Soaked
<1> QED
  BY <1>2, <1>3

LEMMA MergedType ==
  ASSUME NEW r \in Rows, NEW m \in Rows, NEW cs
  PROVE  /\ Merged(r, m, cs) \in Rows
         /\ Merged(r, m, cs).status = IF "status" \in cs THEN m.status ELSE r.status
         /\ Merged(r, m, cs).day = IF "day" \in cs THEN m.day ELSE r.day
         /\ Merged(r, m, cs).counts = IF "counts" \in cs THEN m.counts ELSE r.counts
<1> DEFINE a == IF "status" \in cs THEN m.status ELSE r.status
           d == IF "day" \in cs THEN m.day ELSE r.day
           c == IF "counts" \in cs THEN m.counts ELSE r.counts
           f == IF "fails" \in cs THEN m.fails ELSE r.fails
           b == IF "next" \in cs THEN m.next ELSE r.next
<1>1. Merged(r, m, cs) = [status |-> a, day |-> d, counts |-> c, fails |-> f, next |-> b]
  BY DEF Merged
<1>2. a \in Statuses /\ d \in Days /\ c \in [Slots -> Nat] /\ f \in Nat /\ b \in Nexts
  BY DEF Rows
<1> HIDE DEF a, d, c, f, b
<1>3. Merged(r, m, cs) \in Rows
  BY <1>1, <1>2 DEF Rows
<1> QED
  BY <1>1, <1>3 DEF a, d, c

LEMMA WrittenType ==
  ASSUME NEW r \in Rows, NEW op \in {"pause", "resume", "delete", "monitor"}, NEW seen \in Nat
  PROVE  /\ Written(op, seen, r) \in Rows
         /\ Written(op, seen, r).status # "completed"
         /\ op # "delete" => Written(op, seen, r).status \notin Ended
         /\ Written(op, seen, r).day = r.day /\ Written(op, seen, r).counts = r.counts
<1>1. CASE op = "pause"
  <2>1. "paused_manual" \in Statuses /\ Written(op, seen, r) = [r EXCEPT !.status = "paused_manual"]
    BY <1>1 DEF Written, Statuses
  <2> QED
    BY <1>1, <2>1, StatusColumn DEF Ended
<1>2. CASE op = "monitor"
  <2>1. /\ "paused_risk" \in Statuses /\ "null" \in Nexts
        /\ Written(op, seen, r) = [r EXCEPT !.status = "paused_risk", !.next = "null"]
    BY <1>2 DEF Written, Statuses, Nexts
  <2>2. /\ Written(op, seen, r) \in Rows /\ Written(op, seen, r).status = "paused_risk"
        /\ Written(op, seen, r).day = r.day /\ Written(op, seen, r).counts = r.counts
    BY <2>1 DEF Rows
  <2> QED
    BY <2>2 DEF Ended
<1>3. CASE op = "resume"
  <2> DEFINE n == IF seen = 0 THEN r.fails ELSE 0
  <2>1. Written(op, seen, r) = [status |-> "scheduled", day |-> r.day, counts |-> r.counts,
                                fails |-> n, next |-> r.next]
    BY <1>3 DEF Written, Rows
  <2> QED
    BY <2>1 DEF Rows, Statuses, Ended
<1>4. CASE op = "delete"
  <2>1. "deleted" \in Statuses /\ Written(op, seen, r) = [r EXCEPT !.status = "deleted"]
    BY <1>4 DEF Written, Statuses
  <2> QED
    BY <1>4, <2>1, StatusColumn
<1> QED
  BY <1>1, <1>2, <1>3, <1>4

LEMMA CountedType ==
  ASSUME NEW w \in Workers, cur[w] \in Warmups, mine[w][cur[w]] \in Rows
  PROVE  /\ Counted(w) \in Rows
         /\ Counted(w).status \in {mine[w][cur[w]].status, "active"}
         /\ Counted(w).day = mine[w][cur[w]].day
         /\ \A k \in Slots :
              Counted(w).counts[k] =
                mine[w][cur[w]].counts[k]
                  + (IF k[1] = mine[w][cur[w]].day /\ k[2] \in good[w] THEN 1 ELSE 0)
<1> DEFINE r == mine[w][cur[w]]
           c == [k \in Slots |-> IF k[1] = r.day /\ k[2] \in good[w]
                                   THEN r.counts[k] + 1 ELSE r.counts[k]]
           f == IF good[w] # {} THEN 0 ELSE IF bad[w] # {} THEN r.fails + 1 ELSE r.fails
<1>1. Counted(w) = [status |-> IF good[w] # {} THEN "active" ELSE r.status, day |-> r.day,
                    counts |-> c, fails |-> f, next |-> "later"]
  BY DEF Counted
<1>2. c \in [Slots -> Nat] /\ f \in Nat
  BY DEF Rows
<1>3. \A k \in Slots : c[k] = r.counts[k] + (IF k[1] = r.day /\ k[2] \in good[w] THEN 1 ELSE 0)
  BY DEF Rows
<1> HIDE DEF c, f
<1> QED
  BY <1>1, <1>2, <1>3 DEF Rows, Statuses, Nexts

-----------------------------------------------------------------------------
\* What the work on a session writes

\* Short of a window: neither the day nor the counters, and the status
\* COMPLETED only for a cyclic session.
Short(w, s, new) ==
  /\ new \in Rows
  /\ new.day = mine[w][s].day /\ new.counts = mine[w][s].counts
  /\ \/ new.status \in {mine[w][s].status, "scheduled", "paused_risk"}
     \/ s \in cyclic /\ new.status = "completed"

LEMMA LookWrites ==
  ASSUME TypeOK, NEW w \in Workers, NEW s \in Warmups,
         Postpone(w, s) \/ GateBlocks(w, s) \/ CyclesEnd(w, s)
  PROVE  \E new \in Rows : Flush(w, s, new) /\ Short(w, s, new)
<1> DEFINE r == mine[w][s]
<1>1. r \in Rows
  BY DEF TypeOK
<1>2. /\ Soaked(r) \in Rows /\ Soaked(r).status \in {r.status, "scheduled"}
      /\ Soaked(r).day = r.day /\ Soaked(r).counts = r.counts
  BY <1>1, SoakedType
<1>3. CASE Postpone(w, s)
  <2> DEFINE new == [Soaked(r) EXCEPT !.next = "later"]
  <2>1. new \in Rows /\ new.status = Soaked(r).status /\ new.day = r.day /\ new.counts = r.counts
    BY <1>2 DEF Rows, Nexts
  <2>2. Flush(w, s, new)
    BY <1>3 DEF Postpone
  <2> QED
    BY <1>2, <2>1, <2>2 DEF Short
<1>4. CASE GateBlocks(w, s)
  <2> DEFINE new == [Soaked(r) EXCEPT !.status = "paused_risk", !.next = "null"]
  <2>1. new \in Rows /\ new.status = "paused_risk" /\ new.day = r.day /\ new.counts = r.counts
    BY <1>2 DEF Rows, Nexts, Statuses
  <2>2. Flush(w, s, new)
    BY <1>4 DEF GateBlocks
  <2> QED
    BY <2>1, <2>2 DEF Short
<1>5. CASE CyclesEnd(w, s)
  <2> DEFINE new == [Soaked(r) EXCEPT !.status = "completed", !.next = "null"]
  <2>1. new \in Rows /\ new.status = "completed" /\ new.day = r.day /\ new.counts = r.counts
    BY <1>2 DEF Rows, Nexts, Statuses
  <2>2. Flush(w, s, new) /\ s \in cyclic
    BY <1>5 DEF CyclesEnd
  <2> QED
    BY <2>1, <2>2 DEF Short
<1> QED
  BY <1>3, <1>4, <1>5

LEMMA OpenWrites ==
  ASSUME TypeOK, NEW w \in Workers, NEW s \in Warmups, NEW xs, OpenWindow(w, s, xs)
  PROVE  \/ \E new \in Rows : Flush(w, s, new) /\ Short(w, s, new)
         \/ UNCHANGED <<mine, cols>>
<1>1. mine[w][s] \in Rows
  BY DEF TypeOK
<1>2. Short(w, s, Soaked(mine[w][s]))
  BY <1>1, SoakedType DEF Short
<1> QED
  BY <1>2 DEF OpenWindow, Short

\* The end of a window: the counters, and one day more only if it is over.
Ending(w, new) ==
  /\ new \in Rows
  /\ new.counts = Counted(w).counts
  /\ \/ new.day = mine[w][cur[w]].day
     \/ DayOver(w) /\ new.day = mine[w][cur[w]].day + 1
  /\ \/ new.status \in {mine[w][cur[w]].status, "active", "paused_risk"}
     \/ new.status = "completed" /\ DayOver(w) /\ new.day >= Duration
          /\ new.day = mine[w][cur[w]].day + 1

LEMMA CloseWrites ==
  ASSUME TypeOK, NEW w \in Workers, Close(w)
  PROVE  \E new \in Rows : Closes(w, new) /\ Ending(w, new)
<1> DEFINE r == mine[w][cur[w]]
           c == Counted(w)
<1>1. cur[w] \in Warmups /\ r \in Rows
  BY DEF TypeOK, Close, TripBreaker, CloseWindow, EndDay, Complete, Tried
<1>2. c \in Rows /\ c.status \in {r.status, "active"} /\ c.day = r.day
  BY <1>1, CountedType
<1>3. r.day \in Nat /\ r.day \in Days
  BY <1>1 DEF Rows, Days
<1>4. CASE TripBreaker(w)
  <2> DEFINE new == [c EXCEPT !.status = "paused_risk", !.next = "null"]
  <2> HIDE DEF c
  <2>1. new \in Rows /\ new.status = "paused_risk" /\ new.day = r.day /\ new.counts = c.counts
    BY <1>2 DEF Rows, Nexts, Statuses
  <2>2. Closes(w, new)
    BY <1>4 DEF TripBreaker, c
  <2> QED
    BY <2>1, <2>2 DEF Ending, c
<1>5. CASE CloseWindow(w)
  BY <1>2, <1>5 DEF CloseWindow, Ending
<1>6. CASE EndDay(w)
  <2> DEFINE new == [c EXCEPT !.day = @ + 1]
  <2>1. DayOver(w) /\ r.day + 1 \in Days
    BY <1>3, <1>6, DaysAssumption DEF EndDay, EndsDay, Completes, Days
  <2> HIDE DEF c
  <2>2. new \in Rows /\ new.status = c.status /\ new.day = r.day + 1 /\ new.counts = c.counts
    BY <1>2, <2>1 DEF Rows
  <2>3. Closes(w, new)
    BY <1>6 DEF EndDay, c
  <2> QED
    BY <1>2, <2>1, <2>2, <2>3 DEF Ending, c
<1>7. CASE Complete(w)
  <2> DEFINE new == [c EXCEPT !.status = "completed", !.day = @ + 1, !.next = "null"]
  <2>1. DayOver(w) /\ r.day + 1 \in Days /\ r.day + 1 >= Duration
    BY <1>3, <1>7, DaysAssumption DEF Complete, EndsDay, Completes, Days
  <2> HIDE DEF c
  <2>2. new \in Rows /\ new.status = "completed" /\ new.day = r.day + 1 /\ new.counts = c.counts
    BY <1>2, <2>1 DEF Rows, Nexts, Statuses
  <2>3. Closes(w, new)
    BY <1>7 DEF Complete, c
  <2> QED
    BY <2>1, <2>2, <2>3 DEF Ending, c
<1> QED
  BY <1>4, <1>5, <1>6, <1>7 DEF Close

-----------------------------------------------------------------------------
\* Type correctness

LEMMA FlushType ==
  ASSUME TypeOK, NEW w \in Workers, NEW s \in Warmups, NEW new \in Rows, Flush(w, s, new)
  PROVE  /\ mine' \in [Workers -> [Warmups -> Rows]]
         /\ cols' \in [Workers -> [Warmups -> SUBSET Columns]]
<1>1. mine' \in [Workers -> [Warmups -> Rows]]
  BY DEF TypeOK, Flush
<1>2. Changed(mine[w][s], new) \subseteq Columns
  BY DEF Changed, Columns
<1>3. (IF bad[w] # {} THEN {"counts"} ELSE {}) \subseteq Columns /\ {"updated_at"} \subseteq Columns
  BY DEF Columns
<1> DEFINE more == Changed(mine[w][s], new) \cup {"updated_at"}
                     \cup (IF bad[w] # {} THEN {"counts"} ELSE {})
<1>4. more \subseteq Columns
  BY <1>2, <1>3
<1>5. cols' = [cols EXCEPT ![w][s] = @ \cup more]
  BY DEF Flush, TypeOK
<1> HIDE DEF more
<1>6. cols' \in [Workers -> [Warmups -> SUBSET Columns]]
  BY <1>4, <1>5 DEF TypeOK
<1> QED
  BY <1>1, <1>6

LEMMA ResetType ==
  ASSUME TypeOK, NEW w \in Workers, Reset(w)
  PROVE  /\ phase' \in [Workers -> {"idle", "staggering", "working"}]
         /\ todo' \in [Workers -> SUBSET Warmups]
         /\ cur' \in [Workers -> Warmups \cup {None}]
         /\ mine' \in [Workers -> [Warmups -> Rows]]
         /\ cols' \in [Workers -> [Warmups -> SUBSET Columns]]
         /\ left' \in [Workers -> SUBSET Actions]
         /\ good' \in [Workers -> SUBSET Actions]
         /\ bad' \in [Workers -> SUBSET Actions]
         /\ flood' \in [Workers -> BOOLEAN]
  BY FreshType DEF TypeOK, Reset

LEMMA BeginType ==
  ASSUME TypeOK, NEW w \in Workers, NEW ss \in SUBSET Warmups,
         NEW kind \in {"staggering", "working"}, Begin(w, ss, kind)
  PROVE  /\ phase' \in [Workers -> {"idle", "staggering", "working"}]
         /\ todo' \in [Workers -> SUBSET Warmups]
         /\ mine' \in [Workers -> [Warmups -> Rows]]
<1>1. [s \in Warmups |-> IF s \in ss THEN row[s] ELSE Fresh] \in [Warmups -> Rows]
  BY FreshType DEF TypeOK
<1> QED
  BY <1>1 DEF TypeOK, Begin

LEMMA TypeInit == Init => TypeOK
  BY FreshType, BoundsAssumption, SetsAssumption
  DEF Init, TypeOK, NoRequest, RequestRows, Slots, Days

LEMMA TypeNext == TypeOK /\ [Next]_vars => TypeOK'
<1> SUFFICES ASSUME TypeOK, [Next]_vars PROVE TypeOK'
  OBVIOUS
<1>1. ASSUME NEW s \in Warmups, Create(s) PROVE TypeOK'
  <2>1. row[s] \in Rows /\ "cold_soak" \in Statuses
    BY DEF TypeOK, Statuses
  <2>2. [row[s] EXCEPT !.status = "cold_soak"] \in Rows
    BY <2>1 DEF Rows
  <2> QED
    BY <1>1, <2>2 DEF TypeOK, Create, worker
<1>2. ASSUME NEW s \in Warmups, EnqueueFails(s) PROVE TypeOK'
  <2>1. row[s] \in Rows /\ "failed" \in Statuses
    BY DEF TypeOK, Statuses
  <2>2. [row[s] EXCEPT !.status = "failed"] \in Rows
    BY <2>1 DEF Rows
  <2> QED
    BY <1>2, <2>2 DEF TypeOK, EnqueueFails, worker
<1>3. ASSUME NEW s \in Warmups, TimeComes(s) PROVE TypeOK'
  <2>1. row[s] \in Rows /\ "past" \in Nexts
    BY DEF TypeOK, Nexts
  <2>2. [row[s] EXCEPT !.next = "past"] \in Rows
    BY <2>1 DEF Rows
  <2> QED
    BY <1>3, <2>2 DEF TypeOK, TimeComes, worker
<1>4. ASSUME NEW s \in Warmups, Promote(s) PROVE TypeOK'
  BY <1>4 DEF TypeOK, Promote, worker
<1>5. ASSUME NEW w \in Workers, Tick(w) PROVE TypeOK'
  BY <1>5, BeginType DEF TypeOK, Tick, Begin
<1>6. ASSUME NEW w \in Workers, NEW s \in Warmups, TakeJob(w, s) PROVE TypeOK'
  <2>1. job' \in [Warmups -> SUBSET {"scheduled", "queued"}]
    BY <1>6 DEF TypeOK, TakeJob
  <2>2. CASE Begin(w, {s}, "working")
    <3>1. /\ phase' \in [Workers -> {"idle", "staggering", "working"}]
          /\ todo' \in [Workers -> SUBSET Warmups]
          /\ mine' \in [Workers -> [Warmups -> Rows]]
      BY <2>2, BeginType
    <3> QED
      BY <1>6, <2>1, <2>2, <3>1 DEF TypeOK, TakeJob, Begin
  <2>3. CASE UNCHANGED worker
    BY <1>6, <2>1, <2>3 DEF TypeOK, TakeJob, worker
  <2> QED
    BY <1>6, <2>2, <2>3 DEF TakeJob
<1>7. ASSUME NEW w \in Workers, NEW s \in Warmups, EnqueueAt(w, s) PROVE TypeOK'
  <2>0. mine[w][s] \in Rows /\ "cursor" \in Nexts
    BY DEF TypeOK, Nexts
  <2>1. [mine[w][s] EXCEPT !.next = "cursor"] \in Rows
    BY <2>0 DEF Rows
  <2>2. mine' \in [Workers -> [Warmups -> Rows]]
    BY <1>7, <2>1 DEF TypeOK, EnqueueAt
  <2>3. cols' \in [Workers -> [Warmups -> SUBSET Columns]]
    BY <1>7 DEF TypeOK, EnqueueAt, Columns
  <2> QED
    BY <1>7, <2>2, <2>3 DEF TypeOK, EnqueueAt
<1>8. ASSUME NEW w \in Workers, EnqueueRefused(w) PROVE TypeOK'
  BY <1>8, ResetType DEF TypeOK, EnqueueRefused
<1>9. ASSUME NEW w \in Workers, NEW s \in Warmups,
             Postpone(w, s) \/ GateBlocks(w, s) \/ CyclesEnd(w, s)
      PROVE TypeOK'
  <2>1. PICK new \in Rows : Flush(w, s, new)
    BY <1>9, LookWrites
  <2>2. /\ mine' \in [Workers -> [Warmups -> Rows]]
        /\ cols' \in [Workers -> [Warmups -> SUBSET Columns]]
    BY <2>1, FlushType
  <2>3. Looks(w, s) /\ UNCHANGED <<cur, left, good, flood>>
    BY <1>9 DEF Postpone, GateBlocks, CyclesEnd
  <2> QED
    BY <2>2, <2>3 DEF TypeOK, Looks
<1>10. ASSUME NEW w \in Workers, NEW s \in Warmups, NEW xs \in SUBSET Actions,
              OpenWindow(w, s, xs)
       PROVE TypeOK'
  <2>1. /\ mine' \in [Workers -> [Warmups -> Rows]]
        /\ cols' \in [Workers -> [Warmups -> SUBSET Columns]]
    <3>1. CASE UNCHANGED <<mine, cols>>
      BY <3>1 DEF TypeOK
    <3>2. ASSUME NEW new \in Rows, Flush(w, s, new)
          PROVE  /\ mine' \in [Workers -> [Warmups -> Rows]]
                 /\ cols' \in [Workers -> [Warmups -> SUBSET Columns]]
      BY <3>2, FlushType
    <3> QED
      BY <1>10, <3>1, <3>2, OpenWrites
  <2> QED
    BY <1>10, <2>1 DEF TypeOK, OpenWindow, Looks
<1>11. ASSUME NEW w \in Workers, NEW x \in Actions, NEW answer \in Answers, Act(w, x, answer)
       PROVE TypeOK'
  <2>1. cur[w] \in Warmups /\ <<mine[w][cur[w]].day, x>> \in Slots
    BY <1>11 DEF TypeOK, Act, Rows, Slots
  <2>2. told' \in [Warmups -> [Slots -> Nat]]
    BY <1>11, <2>1 DEF TypeOK, Act
  <2>3. faults' \in Nat
    BY <1>11 DEF TypeOK, Act
  <2>4. flood' \in [Workers -> BOOLEAN]
    <3>1. (flood[w] \/ answer = "flood") \in BOOLEAN
      OBVIOUS
    <3> QED
      BY <1>11, <3>1, Zenon DEF TypeOK, Act
  <2> QED
    BY <1>11, <2>2, <2>3, <2>4 DEF TypeOK, Act
<1>12. ASSUME NEW w \in Workers, Close(w) PROVE TypeOK'
  <2>1. PICK new \in Rows : Closes(w, new) /\ Ending(w, new)
    BY <1>12, CloseWrites
  <2>2. cur[w] \in Warmups
    BY <1>12 DEF TypeOK, Close, TripBreaker, CloseWindow, EndDay, Complete, Tried
  <2> QED
    BY <2>1, <2>2, FlushType DEF TypeOK, Closes
<1>13. ASSUME NEW w \in Workers, Commit(w) PROVE TypeOK'
  <2>1. row' \in [Warmups -> Rows]
    BY <1>13, MergedType DEF TypeOK, Commit
  <2> QED
    BY <1>13, <2>1, ResetType DEF TypeOK, Commit
<1>14. ASSUME NEW w \in Workers, Raise(w) \/ Die(w) PROVE TypeOK'
  BY <1>14, ResetType DEF TypeOK, Raise, Die
<1>15. ASSUME NEW q \in Requests, NEW op \in {"pause", "resume", "delete", "monitor"},
              NEW s \in Warmups, Ask(q, op, s)
       PROVE TypeOK'
  <2>1. [op |-> op, on |-> s, fails |-> row[s].fails] \in RequestRows
    BY DEF TypeOK, Rows, RequestRows
  <2> QED
    BY <1>15, <2>1 DEF TypeOK, Ask, worker
<1>16. ASSUME NEW q \in Requests, Land(q) PROVE TypeOK'
  <2> DEFINE s == req[q].on
  <2>1. req[q] \in RequestRows /\ NoRequest \in RequestRows
    BY SetsAssumption DEF TypeOK, RequestRows, NoRequest
  <2>2. req' \in [Requests -> RequestRows]
    BY <1>16, <2>1 DEF TypeOK, Land
  <2>3. claim' \subseteq Warmups /\ row' \in [Warmups -> Rows]
    <3>1. CASE row' = row
      BY <1>16, <3>1 DEF TypeOK, Land
    <3>2. CASE row' # row
      <4>1. /\ s \in Warmups /\ row[s] \in Rows
            /\ req[q].op \in {"pause", "resume", "delete", "monitor"} /\ req[q].fails \in Nat
        BY <1>16, <2>1 DEF TypeOK, Land, RequestRows
      <4>2. Written(req[q].op, req[q].fails, row[s]) \in Rows
        BY <4>1, WrittenType
      <4>3. row' = [row EXCEPT ![s] = Written(req[q].op, req[q].fails, row[s])]
        BY <1>16, <3>2 DEF Land
      <4> QED
        BY <1>16, <4>2, <4>3 DEF TypeOK, Land
    <3> QED
      BY <3>1, <3>2
  <2> QED
    BY <1>16, <2>2, <2>3 DEF TypeOK, Land, worker
<1>17. CASE UNCHANGED vars
  BY <1>17 DEF TypeOK, vars, worker
<1> QED
  BY <1>1, <1>2, <1>3, <1>4, <1>5, <1>6, <1>7, <1>8, <1>9, <1>10, <1>11, <1>12, <1>13,
     <1>14, <1>15, <1>16, <1>17
  DEF Next, Work, Look

\* Every variable keeps its type, for any sessions, workers, requests and plans.
THEOREM TypeCorrect == Spec => []TypeOK
  BY TypeInit, TypeNext, PTL DEF Spec

-----------------------------------------------------------------------------
\* Transactions: only one that is at work has a window open.

Shape ==
  \A w \in Workers :
    /\ phase[w] # "working" => cur[w] = None
    /\ cur[w] = None => good[w] = {} /\ bad[w] = {} /\ left[w] = {}

LEMMA ShapeInit == Init => Shape
  BY DEF Init, Shape

LEMMA ShapeNext == TypeOK /\ Shape /\ [Next]_vars => Shape'
<1> SUFFICES ASSUME TypeOK, Shape, [Next]_vars PROVE Shape'
  OBVIOUS
<1>1. ASSUME NEW s \in Warmups, Create(s) \/ EnqueueFails(s) \/ TimeComes(s) \/ Promote(s)
      PROVE  Shape'
  BY <1>1 DEF Shape, Create, EnqueueFails, TimeComes, Promote, worker
<1>2. ASSUME NEW w \in Workers, NEW ss, NEW kind, phase[w] = "idle", Begin(w, ss, kind)
      PROVE  Shape'
  BY <1>2 DEF Shape, TypeOK, Begin
<1>3. ASSUME NEW w \in Workers, Reset(w) PROVE Shape'
  BY <1>3 DEF Shape, TypeOK, Reset
<1>4. ASSUME NEW w \in Workers, NEW s \in Warmups, EnqueueAt(w, s) PROVE Shape'
  BY <1>4 DEF Shape, TypeOK, EnqueueAt
<1>5. ASSUME NEW w \in Workers, Look(w) PROVE Shape'
  BY <1>5, SetsAssumption
  DEF Shape, TypeOK, Look, Looks, Postpone, GateBlocks, CyclesEnd, OpenWindow
<1>6. ASSUME NEW w \in Workers, NEW x \in Actions, NEW answer \in Answers, Act(w, x, answer)
      PROVE  Shape'
  BY <1>6 DEF Shape, TypeOK, Act
<1>7. ASSUME NEW w \in Workers, Close(w) PROVE Shape'
  <2>1. PICK new \in Rows : Closes(w, new)
    BY <1>7, CloseWrites
  <2>2. left[w] = {}
    BY <1>7 DEF Close, TripBreaker, CloseWindow, EndDay, Complete, Tried
  <2> QED
    BY <2>1, <2>2 DEF Shape, TypeOK, Closes
<1>8. ASSUME NEW q \in Requests, Land(q) \/ \E op, s : Ask(q, op, s) PROVE Shape'
  BY <1>8 DEF Shape, Land, Ask, worker
<1>9. CASE UNCHANGED vars
  BY <1>9 DEF Shape, vars, worker
<1>10. ASSUME NEW w \in Workers, Tick(w) PROVE Shape'
  BY <1>2, <1>10 DEF Tick
<1>11. ASSUME NEW w \in Workers, NEW s \in Warmups, TakeJob(w, s) PROVE Shape'
  <2>1. CASE Begin(w, {s}, "working")
    BY <1>2, <1>11, <2>1 DEF TakeJob
  <2>2. CASE UNCHANGED worker
    BY <2>2 DEF Shape, worker
  <2> QED
    BY <1>11, <2>1, <2>2 DEF TakeJob
<1>12. ASSUME NEW w \in Workers, EnqueueRefused(w) \/ Commit(w) \/ Raise(w) \/ Die(w)
       PROVE  Shape'
  BY <1>3, <1>12 DEF EnqueueRefused, Commit, Raise, Die
<1> QED
  BY <1>1, <1>4, <1>5, <1>6, <1>7, <1>8, <1>9, <1>10, <1>11, <1>12 DEF Next, Work

-----------------------------------------------------------------------------
\* What a row claims is covered by what Telegram has seen.

Met(seen, d) == \A k \in Slots : k[1] < d => PlanOf(k[1])[k[2]] <= seen[k]

Covered(seen, exempt, s, r) ==
  /\ \A k \in Slots : r.counts[k] <= seen[k]
  /\ Met(seen, r.day)
  /\ r.status = "completed" /\ s \notin exempt => Met(seen, Duration)

Opened(seen, r, done) == \A x \in done : r.counts[<<r.day, x>>] + 1 <= seen[<<r.day, x>>]

\* The columns of the rows, and of what workers hold of them.
RowsCovered == \A s \in Warmups : Covered(told[s], cyclic, s, row[s])
MineCovered == \A w \in Workers, s \in Warmups : Covered(told[s], cyclic, s, mine[w][s])
WindowCovered ==
  \A w \in Workers : cur[w] # None => Opened(told[cur[w]], mine[w][cur[w]], good[w])

LEMMA SlotPlan == ASSUME NEW k \in Slots PROVE k[1] \in Nat /\ PlanOf(k[1])[k[2]] \in Nat
<1>1. k[1] \in Nat /\ k[2] \in Actions
  BY DaysAssumption DEF Slots, Days
<1> QED
  BY <1>1, PlanType

LEMMA MetGrows ==
  ASSUME NEW seen \in [Slots -> Nat], NEW now \in [Slots -> Nat],
         \A k \in Slots : seen[k] <= now[k], NEW d \in Nat, NEW e \in Nat, e <= d, Met(seen, d)
  PROVE  Met(now, e)
<1> SUFFICES ASSUME NEW k \in Slots, k[1] < e PROVE PlanOf(k[1])[k[2]] <= now[k]
  BY DEF Met
<1>1. k[1] \in Nat /\ PlanOf(k[1])[k[2]] \in Nat /\ seen[k] \in Nat /\ now[k] \in Nat
  BY SlotPlan
<1>2. PlanOf(k[1])[k[2]] <= seen[k]
  BY <1>1 DEF Met
<1> QED
  BY <1>1, <1>2

LEMMA CoveredStays ==
  ASSUME NEW seen \in [Slots -> Nat], NEW now \in [Slots -> Nat],
         \A k \in Slots : seen[k] <= now[k],
         NEW old, NEW exempt, old \subseteq exempt, NEW s, NEW r \in Rows,
         Covered(seen, old, s, r)
  PROVE  Covered(now, exempt, s, r)
<1>1. \A k \in Slots : r.counts[k] <= now[k]
  <2> SUFFICES ASSUME NEW k \in Slots PROVE r.counts[k] <= now[k]
    OBVIOUS
  <2>1. r.counts[k] \in Nat /\ seen[k] \in Nat /\ now[k] \in Nat /\ r.counts[k] <= seen[k]
    BY DEF Covered, Rows
  <2> QED
    BY <2>1
<1>2. r.day \in Nat /\ Duration \in Nat
  BY DaysAssumption DEF Rows, Days
<1>3. Met(now, r.day)
  BY <1>2, MetGrows DEF Covered
<1>4. r.status = "completed" /\ s \notin exempt => Met(now, Duration)
  BY <1>2, MetGrows DEF Covered
<1> QED
  BY <1>1, <1>3, <1>4 DEF Covered

LEMMA FreshCovered ==
  ASSUME NEW seen \in [Slots -> Nat], NEW exempt, NEW s
  PROVE  Covered(seen, exempt, s, Fresh)
  BY SlotPlan DEF Covered, Fresh, Met

\* A row of some columns of one row and some of another.
LEMMA MergedCovered ==
  ASSUME NEW seen, NEW exempt, NEW s, NEW r \in Rows, NEW m \in Rows, NEW cs,
         Covered(seen, exempt, s, r), Covered(seen, exempt, s, m)
  PROVE  Covered(seen, exempt, s, Merged(r, m, cs))
<1> DEFINE q == Merged(r, m, cs)
<1>1. /\ q.status \in {r.status, m.status} /\ q.day \in {r.day, m.day}
      /\ q.counts \in {r.counts, m.counts}
  BY MergedType
<1> HIDE DEF q
<1> QED
  BY <1>1 DEF Covered, q

\* A row whose day and counters stay and whose status is not made COMPLETED.
LEMMA StatusCovered ==
  ASSUME NEW seen, NEW exempt, NEW s, NEW r, NEW q, Covered(seen, exempt, s, r),
         q.day = r.day, q.counts = r.counts,
         q.status # "completed" \/ q.status = r.status \/ s \in exempt
  PROVE  Covered(seen, exempt, s, q)
  BY DEF Covered

LEMMA EndingCovered ==
  ASSUME TypeOK, MineCovered, WindowCovered, NEW w \in Workers, cur[w] \in Warmups,
         NEW new \in Rows, Ending(w, new)
  PROVE  Covered(told[cur[w]], cyclic, cur[w], new)
<1> DEFINE s == cur[w]
           r == mine[w][s]
           seen == told[s]
<1>1. r \in Rows /\ seen \in [Slots -> Nat] /\ good[w] \subseteq Actions /\ cur[w] # None
  BY SetsAssumption DEF TypeOK
<1>2. Covered(seen, cyclic, s, r) /\ Opened(seen, r, good[w])
  BY <1>1 DEF MineCovered, WindowCovered
<1>3. /\ Counted(w) \in Rows /\ Counted(w).day = r.day
      /\ \A k \in Slots :
           Counted(w).counts[k]
             = r.counts[k] + (IF k[1] = r.day /\ k[2] \in good[w] THEN 1 ELSE 0)
  BY <1>1, CountedType
<1>4. \A k \in Slots : new.counts[k] <= seen[k]
  <2> SUFFICES ASSUME NEW k \in Slots PROVE Counted(w).counts[k] <= seen[k]
    BY DEF Ending
  <2>1. CASE k[1] = r.day /\ k[2] \in good[w]
    <3>1. k = <<r.day, k[2]>>
      BY <2>1 DEF Slots
    <3> QED
      BY <1>2, <1>3, <2>1, <3>1 DEF Opened
  <2>2. CASE ~(k[1] = r.day /\ k[2] \in good[w])
    <3>1. r.counts[k] \in Nat /\ r.counts[k] <= seen[k]
      BY <1>1, <1>2 DEF Rows, Covered
    <3> QED
      BY <1>3, <2>2, <3>1
  <2> QED
    BY <2>1, <2>2
<1>5. r.day \in Nat /\ Met(seen, r.day)
  BY <1>1, <1>2 DEF Covered, Rows, Days
<1>6. ASSUME DayOver(w) PROVE Met(seen, r.day + 1)
  <2> SUFFICES ASSUME NEW k \in Slots, k[1] < r.day + 1 PROVE PlanOf(k[1])[k[2]] <= seen[k]
    BY DEF Met
  <2>1. k[1] \in Nat /\ PlanOf(k[1])[k[2]] \in Nat /\ k[2] \in Actions /\ seen[k] \in Nat
    BY <1>1, SlotPlan DEF Slots
  <2>2. CASE k[1] < r.day
    BY <1>5, <2>2 DEF Met
  <2>3. CASE k[1] = r.day
    <3>1. k = <<r.day, k[2]>>
      BY <2>3 DEF Slots
    <3>2. ~(Counted(w).counts[k] < PlanOf(k[1])[k[2]])
      BY <1>3, <1>6, <2>1, <2>3, <3>1 DEF DayOver, Pending
    <3>3. Counted(w).counts[k] \in Nat /\ Counted(w).counts[k] <= seen[k]
      BY <1>3, <1>4 DEF Ending, Rows
    <3> QED
      BY <2>1, <3>2, <3>3
  <2> QED
    BY <1>5, <2>1, <2>2, <2>3
<1>7. Met(seen, new.day)
  BY <1>5, <1>6 DEF Ending
<1>8. new.status = "completed" /\ s \notin cyclic => Met(seen, Duration)
  <2>1. CASE DayOver(w) /\ new.day >= Duration
    <3>1. new.day \in Nat /\ Duration \in Nat /\ Duration <= new.day
      BY <2>1, DaysAssumption DEF Rows, Days
    <3> QED
      BY <1>1, <1>7, <3>1, MetGrows
  <2>2. CASE new.status = r.status
    BY <1>2, <2>2 DEF Covered
  <2> QED
    BY <2>1, <2>2 DEF Ending
<1> QED
  BY <1>4, <1>7, <1>8 DEF Covered

AllCovered == RowsCovered /\ MineCovered /\ WindowCovered

LEMMA CoveredInit == Init => AllCovered
<1> SUFFICES ASSUME Init PROVE AllCovered
  OBVIOUS
<1>1. \A s \in Warmups : Covered(told[s], cyclic, s, Fresh)
  BY TypeInit, FreshCovered DEF TypeOK
<1>2. /\ \A s \in Warmups : row[s] = Fresh
      /\ \A w \in Workers : cur[w] = None /\ \A s \in Warmups : mine[w][s] = Fresh
  BY DEF Init
<1> QED
  BY <1>1, <1>2 DEF AllCovered, RowsCovered, MineCovered, WindowCovered

\* Steps that leave the rows workers hold, and what is done, alone.
LEMMA RowStep ==
  ASSUME TypeOK, AllCovered, UNCHANGED <<told, cyclic, worker>>, NEW s \in Warmups,
         NEW new, Covered(told[s], cyclic, s, new), row' = [row EXCEPT ![s] = new]
  PROVE  AllCovered'
<1>1. RowsCovered'
  BY DEF TypeOK, AllCovered, RowsCovered
<1>2. MineCovered' /\ WindowCovered'
  BY DEF AllCovered, MineCovered, WindowCovered, worker
<1> QED
  BY <1>1, <1>2 DEF AllCovered

\* Steps that write one row a worker holds, while it has no window open.
LEMMA MineStep ==
  ASSUME TypeOK, AllCovered, UNCHANGED <<told, cyclic, row, good>>,
         NEW w \in Workers, NEW s \in Warmups, NEW new, Covered(told[s], cyclic, s, new),
         mine' = [mine EXCEPT ![w][s] = new], good[w] = {} \/ cur'[w] = None,
         \A v \in Workers \ {w} : cur'[v] = cur[v]
  PROVE  AllCovered'
<1>1. RowsCovered'
  BY DEF AllCovered, RowsCovered
<1>2. MineCovered'
  BY DEF TypeOK, AllCovered, MineCovered
<1>3. WindowCovered'
  <2> SUFFICES ASSUME NEW v \in Workers, cur'[v] # None
      PROVE  Opened(told[cur'[v]], mine'[v][cur'[v]], good[v])
    BY DEF WindowCovered
  <2>1. CASE v = w
    BY <2>1 DEF Opened
  <2>2. CASE v # w
    BY <2>2 DEF TypeOK, AllCovered, WindowCovered
  <2> QED
    BY <2>1, <2>2
<1> QED
  BY <1>1, <1>2, <1>3 DEF AllCovered

\* Steps after which a worker holds rows as they are, or none, and no window.
LEMMA LoadStep ==
  ASSUME TypeOK, AllCovered, UNCHANGED <<told, cyclic>>, RowsCovered', NEW w \in Workers,
         \A s \in Warmups : mine'[w][s] \in {row[s], Fresh},
         \A v \in Workers \ {w} : mine'[v] = mine[v] /\ cur'[v] = cur[v] /\ good'[v] = good[v],
         cur'[w] = None
  PROVE  AllCovered'
<1>1. MineCovered'
  <2> SUFFICES ASSUME NEW v \in Workers, NEW s \in Warmups
      PROVE  Covered(told[s], cyclic, s, mine'[v][s])
    BY DEF MineCovered
  <2>1. Covered(told[s], cyclic, s, row[s]) /\ Covered(told[s], cyclic, s, mine[v][s])
    BY DEF AllCovered, RowsCovered, MineCovered
  <2>2. Covered(told[s], cyclic, s, Fresh)
    BY FreshCovered DEF TypeOK
  <2> QED
    BY <2>1, <2>2
<1>2. WindowCovered'
  BY DEF AllCovered, WindowCovered
<1> QED
  BY <1>1, <1>2 DEF AllCovered

LEMMA ActCovered ==
  ASSUME TypeOK, TypeOK', AllCovered, NEW w \in Workers, NEW x \in Actions,
         NEW answer \in Answers, Act(w, x, answer)
  PROVE  AllCovered'
<1> DEFINE s == cur[w]
           r == mine[w][s]
           k == <<r.day, x>>
<1>1. s \in Warmups /\ r \in Rows /\ k \in Slots
  <2>1. s \in Warmups /\ r \in Rows
    BY DEF TypeOK, Act
  <2>2. r.day \in Days
    BY <2>1 DEF Rows
  <2> QED
    BY <2>1, <2>2 DEF Slots
<1>2. \A i \in Warmups : /\ told[i] \in [Slots -> Nat] /\ told'[i] \in [Slots -> Nat]
                         /\ \A j \in Slots : told[i][j] <= told'[i][j]
  <2>1. told' = told \/ told' = [told EXCEPT ![s][k] = @ + 1]
    BY DEF Act
  <2>2. told \in [Warmups -> [Slots -> Nat]] /\ told' \in [Warmups -> [Slots -> Nat]]
    BY DEF TypeOK
  <2> HIDE DEF s, k
  <2>3. ASSUME NEW i \in Warmups, NEW j \in Slots PROVE told[i][j] <= told'[i][j]
    BY <1>1, <2>1, <2>2
  <2> QED
    BY <2>2, <2>3
<1>3. UNCHANGED <<row, mine, cur, cyclic>>
  BY DEF Act
<1>4. RowsCovered' /\ MineCovered'
  <2>1. ASSUME NEW i \in Warmups, NEW q \in Rows, Covered(told[i], cyclic, i, q)
        PROVE  Covered(told'[i], cyclic, i, q)
    BY <1>2, <2>1, CoveredStays
  <2> QED
    BY <1>3, <2>1 DEF TypeOK, AllCovered, RowsCovered, MineCovered
<1>5. WindowCovered'
  <2> SUFFICES ASSUME NEW v \in Workers, cur[v] # None, NEW y \in good'[v]
      PROVE  LET c == cur[v]
                 j == <<mine[v][c].day, y>>
             IN mine[v][c].counts[j] + 1 <= told'[c][j]
    BY <1>3 DEF WindowCovered, Opened
  <2> DEFINE c == cur[v]
             j == <<mine[v][c].day, y>>
  <2>0. c \in Warmups /\ mine[v][c] \in Rows /\ y \in Actions
    BY DEF TypeOK
  <2>1. mine[v][c].day \in Days /\ j \in Slots
    BY <2>0 DEF Rows, Slots
  <2>2. mine[v][c].counts[j] \in Nat /\ told[c][j] \in Nat /\ told'[c][j] \in Nat
        /\ mine[v][c].counts[j] <= told[c][j] /\ told[c][j] <= told'[c][j]
    BY <1>2, <2>0, <2>1 DEF AllCovered, MineCovered, Covered, Rows
  <2>3. CASE y \in good[v]
    <3>1. mine[v][c].counts[j] + 1 <= told[c][j]
      BY <2>3 DEF AllCovered, WindowCovered, Opened
    <3> QED
      BY <2>2, <3>1
  <2>4. CASE y \notin good[v]
    <3>1. v = w /\ y = x /\ answer = "ok"
      BY <2>4 DEF TypeOK, Act
    <3>2. told'[c][j] = told[c][j] + 1
      BY <1>1, <3>1 DEF TypeOK, Act
    <3> QED
      BY <2>2, <3>2
  <2> QED
    BY <2>3, <2>4
<1> QED
  BY <1>4, <1>5 DEF AllCovered

LEMMA CoveredNext == TypeOK /\ TypeOK' /\ Shape /\ AllCovered /\ [Next]_vars => AllCovered'
<1> SUFFICES ASSUME TypeOK, TypeOK', Shape, AllCovered, [Next]_vars PROVE AllCovered'
  OBVIOUS
<1>1. ASSUME NEW s \in Warmups, Create(s) PROVE AllCovered'
  <2> DEFINE new == [row[s] EXCEPT !.status = "cold_soak"]
  <2>1. \A i \in Warmups, r \in Rows :
          Covered(told[i], cyclic, i, r) => Covered(told[i], cyclic', i, r)
    <3> SUFFICES ASSUME NEW i \in Warmups, NEW r \in Rows, Covered(told[i], cyclic, i, r)
        PROVE  Covered(told[i], cyclic', i, r)
      OBVIOUS
    <3>1. cyclic \subseteq cyclic' /\ told[i] \in [Slots -> Nat]
      BY <1>1 DEF Create, TypeOK
    <3>2. \A k \in Slots : told[i][k] <= told[i][k]
      BY <3>1
    <3> QED
      BY <3>1, <3>2, CoveredStays
  <2>2. new \in Rows /\ Covered(told[s], cyclic, s, new)
    <3>1. "cold_soak" \in Statuses /\ row[s] \in Rows /\ Covered(told[s], cyclic, s, row[s])
      BY DEF Statuses, TypeOK, AllCovered, RowsCovered
    <3>2. new \in Rows /\ new.status = "cold_soak" /\ new.day = row[s].day
          /\ new.counts = row[s].counts
      BY <3>1 DEF Rows
    <3> QED
      BY <3>1, <3>2, StatusCovered
  <2>3. row' = [row EXCEPT ![s] = new] /\ UNCHANGED <<told, worker>>
    BY <1>1 DEF Create
  <2>4. RowsCovered'
    BY <2>1, <2>2, <2>3 DEF TypeOK, AllCovered, RowsCovered
  <2>5. MineCovered' /\ WindowCovered'
    BY <2>1, <2>3 DEF TypeOK, AllCovered, MineCovered, WindowCovered, worker
  <2> QED
    BY <2>4, <2>5 DEF AllCovered
<1>2. ASSUME NEW s \in Warmups, EnqueueFails(s) PROVE AllCovered'
  <2>1. CASE row' = row
    BY <1>2, <2>1
    DEF EnqueueFails, AllCovered, RowsCovered, MineCovered, WindowCovered, worker
  <2>2. CASE row' # row
    <3> DEFINE new == [row[s] EXCEPT !.status = "failed"]
    <3>1. "failed" \in Statuses /\ row[s] \in Rows /\ Covered(told[s], cyclic, s, row[s])
      BY DEF Statuses, TypeOK, AllCovered, RowsCovered
    <3>2. new.status = "failed" /\ new.day = row[s].day /\ new.counts = row[s].counts
      BY <3>1 DEF Rows
    <3>3. Covered(told[s], cyclic, s, new)
      BY <3>1, <3>2, StatusCovered
    <3>4. row' = [row EXCEPT ![s] = new] /\ UNCHANGED <<told, cyclic, worker>>
      BY <1>2, <2>2 DEF EnqueueFails
    <3> QED
      BY <3>3, <3>4, RowStep
  <2> QED
    BY <2>1, <2>2
<1>3. ASSUME NEW s \in Warmups, TimeComes(s) PROVE AllCovered'
  <2> DEFINE new == [row[s] EXCEPT !.next = "past"]
  <2>1. "past" \in Nexts /\ row[s] \in Rows /\ Covered(told[s], cyclic, s, row[s])
    BY DEF Nexts, TypeOK, AllCovered, RowsCovered
  <2>2. new.status = row[s].status /\ new.day = row[s].day /\ new.counts = row[s].counts
    BY <2>1 DEF Rows
  <2>3. Covered(told[s], cyclic, s, new)
    BY <2>1, <2>2, StatusCovered
  <2>4. row' = [row EXCEPT ![s] = new] /\ UNCHANGED <<told, cyclic, worker>>
    BY <1>3 DEF TimeComes
  <2> QED
    BY <2>3, <2>4, RowStep
<1>4. CASE UNCHANGED <<row, told, cyclic, worker>>
  BY <1>4 DEF AllCovered, RowsCovered, MineCovered, WindowCovered, worker
<1>5. ASSUME NEW w \in Workers, NEW ss, NEW kind, phase[w] = "idle", Begin(w, ss, kind),
             UNCHANGED <<row, told, cyclic>>
      PROVE  AllCovered'
  <2>1. RowsCovered' /\ cur'[w] = None
    BY <1>5 DEF Shape, Begin, AllCovered, RowsCovered
  <2>2. /\ \A s \in Warmups : mine'[w][s] \in {row[s], Fresh}
        /\ \A v \in Workers \ {w} : mine'[v] = mine[v] /\ cur'[v] = cur[v] /\ good'[v] = good[v]
    BY <1>5 DEF TypeOK, Begin
  <2> QED
    BY <1>5, <2>1, <2>2, LoadStep
<1>6. ASSUME NEW w \in Workers, Reset(w), RowsCovered', UNCHANGED <<told, cyclic>>
      PROVE  AllCovered'
  <2>1. /\ \A s \in Warmups : mine'[w][s] \in {row[s], Fresh}
        /\ \A v \in Workers \ {w} : mine'[v] = mine[v] /\ cur'[v] = cur[v] /\ good'[v] = good[v]
        /\ cur'[w] = None
    BY <1>6 DEF TypeOK, Reset
  <2> QED
    BY <1>6, <2>1, LoadStep
<1>7. ASSUME NEW w \in Workers, NEW s \in Warmups, EnqueueAt(w, s) PROVE AllCovered'
  <2> DEFINE new == [mine[w][s] EXCEPT !.next = "cursor"]
  <2>1. "cursor" \in Nexts /\ mine[w][s] \in Rows /\ Covered(told[s], cyclic, s, mine[w][s])
    BY DEF Nexts, TypeOK, AllCovered, MineCovered
  <2>2. new.status = mine[w][s].status /\ new.day = mine[w][s].day
        /\ new.counts = mine[w][s].counts
    BY <2>1 DEF Rows
  <2>3. Covered(told[s], cyclic, s, new)
    BY <2>1, <2>2, StatusCovered
  <2>4. /\ mine' = [mine EXCEPT ![w][s] = new] /\ good[w] = {}
        /\ UNCHANGED <<told, cyclic, row, good, cur>>
    BY <1>7 DEF EnqueueAt, Shape, TypeOK
  <2> QED
    BY <2>3, <2>4, MineStep
<1>8. ASSUME NEW w \in Workers, NEW s \in Warmups, NEW new, Flush(w, s, new), Looks(w, s),
             Short(w, s, new), UNCHANGED good, \A v \in Workers \ {w} : cur'[v] = cur[v]
      PROVE  AllCovered'
  <2>1. Covered(told[s], cyclic, s, mine[w][s]) /\ mine[w][s] \in Rows
    BY DEF AllCovered, MineCovered, TypeOK
  <2>2. Covered(told[s], cyclic, s, new)
    BY <1>8, <2>1, StatusCovered DEF Short
  <2>3. /\ mine' = [mine EXCEPT ![w][s] = new] /\ good[w] = {}
        /\ UNCHANGED <<told, cyclic, row>>
    BY <1>8 DEF Flush, Looks, Shape
  <2> QED
    BY <1>8, <2>2, <2>3, MineStep
<1>9. ASSUME NEW w \in Workers, Look(w) PROVE AllCovered'
  <2>1. ASSUME NEW s \in Warmups, Postpone(w, s) \/ GateBlocks(w, s) \/ CyclesEnd(w, s)
        PROVE  AllCovered'
    <3>1. PICK new \in Rows : Flush(w, s, new) /\ Short(w, s, new)
      BY <2>1, LookWrites
    <3>2. Looks(w, s) /\ UNCHANGED <<cur, good>>
      BY <2>1 DEF Postpone, GateBlocks, CyclesEnd
    <3> QED
      BY <1>8, <3>1, <3>2
  <2>2. ASSUME NEW s \in Warmups, NEW xs \in SUBSET Actions, OpenWindow(w, s, xs)
        PROVE  AllCovered'
    <3>1. Looks(w, s) /\ UNCHANGED good /\ cur' = [cur EXCEPT ![w] = s]
      BY <2>2 DEF OpenWindow
    <3>2. \A v \in Workers \ {w} : cur'[v] = cur[v]
      BY <3>1 DEF TypeOK
    <3>3. CASE \E new \in Rows : Flush(w, s, new) /\ Short(w, s, new)
      BY <1>8, <3>1, <3>2, <3>3
    <3>4. CASE UNCHANGED <<mine, cols>>
      <4>1. RowsCovered' /\ MineCovered'
        BY <3>1, <3>4 DEF Looks, AllCovered, RowsCovered, MineCovered
      <4>2. WindowCovered'
        BY <3>1, <3>2, <3>4 DEF Looks, Shape, AllCovered, WindowCovered, Opened
      <4> QED
        BY <4>1, <4>2 DEF AllCovered
    <3> QED
      BY <2>2, <3>3, <3>4, OpenWrites
  <2> QED
    BY <1>9, <2>1, <2>2 DEF Look
<1>10. ASSUME NEW w \in Workers, Close(w) PROVE AllCovered'
  <2>1. PICK new \in Rows : Closes(w, new) /\ Ending(w, new)
    BY <1>10, CloseWrites
  <2>2. cur[w] \in Warmups
    BY <1>10 DEF TypeOK, Close, TripBreaker, CloseWindow, EndDay, Complete, Tried
  <2>3. Covered(told[cur[w]], cyclic, cur[w], new)
    BY <2>1, <2>2, EndingCovered DEF AllCovered
  <2>4. /\ RowsCovered'
        /\ mine' = [mine EXCEPT ![w][cur[w]] = new]
    BY <2>1 DEF Closes, Flush, AllCovered, RowsCovered
  <2>5. MineCovered'
    BY <2>1, <2>2, <2>3, <2>4 DEF Closes, TypeOK, AllCovered, MineCovered
  <2>6. WindowCovered'
    BY <2>1, <2>2, <2>4 DEF Closes, TypeOK, AllCovered, WindowCovered
  <2> QED
    BY <2>4, <2>5, <2>6 DEF AllCovered
<1>11. ASSUME NEW w \in Workers, Commit(w) PROVE AllCovered'
  <2>1. \A s \in Warmups : Covered(told[s], cyclic, s, Merged(row[s], mine[w][s], cols[w][s]))
    BY MergedCovered DEF TypeOK, AllCovered, RowsCovered, MineCovered
  <2>2. RowsCovered'
    BY <1>11, <2>1 DEF Commit, RowsCovered
  <2> QED
    BY <1>6, <1>11, <2>2 DEF Commit
<1>12. ASSUME NEW q \in Requests, Land(q) PROVE AllCovered'
  <2>1. CASE row' = row
    BY <1>12, <2>1 DEF Land, AllCovered, RowsCovered, MineCovered, WindowCovered, worker
  <2>2. CASE row' # row
    <3> DEFINE s == req[q].on
               new == Written(req[q].op, req[q].fails, row[s])
    <3>1. /\ s \in Warmups /\ row[s] \in Rows
          /\ req[q].op \in {"pause", "resume", "delete", "monitor"} /\ req[q].fails \in Nat
      BY <1>12 DEF TypeOK, Land, RequestRows
    <3>2. new.status # "completed" /\ new.day = row[s].day /\ new.counts = row[s].counts
      BY <3>1, WrittenType
    <3>3. Covered(told[s], cyclic, s, row[s])
      BY <3>1 DEF AllCovered, RowsCovered
    <3>4. row' = [row EXCEPT ![s] = new] /\ UNCHANGED <<told, cyclic, worker>>
      BY <1>12, <2>2 DEF Land
    <3> HIDE DEF new
    <3>5. Covered(told[s], cyclic, s, new)
      BY <3>2, <3>3, StatusCovered
    <3> QED
      BY <3>1, <3>4, <3>5, RowStep
  <2> QED
    BY <2>1, <2>2
<1>13. ASSUME NEW w \in Workers, Tick(w) \/ \E s \in Warmups : TakeJob(w, s) PROVE AllCovered'
  <2>1. UNCHANGED <<row, told, cyclic>>
    BY <1>13 DEF Tick, TakeJob
  <2>2. UNCHANGED worker \/ (phase[w] = "idle" /\ \E ss, kind : Begin(w, ss, kind))
    BY <1>13 DEF Tick, TakeJob
  <2> QED
    BY <1>4, <1>5, <2>1, <2>2
<1>14. ASSUME NEW w \in Workers, EnqueueRefused(w) \/ Raise(w) \/ Die(w) PROVE AllCovered'
  <2>1. Reset(w) /\ UNCHANGED <<row, told, cyclic>>
    BY <1>14 DEF EnqueueRefused, Raise, Die
  <2>2. RowsCovered'
    BY <2>1 DEF AllCovered, RowsCovered
  <2> QED
    BY <1>6, <2>1, <2>2
<1>15. ASSUME NEW w \in Workers, NEW x \in Actions, NEW answer \in Answers, Act(w, x, answer)
       PROVE  AllCovered'
  BY <1>15, ActCovered
<1>16. ASSUME NEW s \in Warmups, Promote(s) PROVE AllCovered'
  BY <1>4, <1>16 DEF Promote
<1>17. ASSUME NEW q \in Requests, \E op, s : Ask(q, op, s) PROVE AllCovered'
  BY <1>4, <1>17 DEF Ask
<1>18. CASE UNCHANGED vars
  BY <1>4, <1>18 DEF vars
<1> QED
  BY <1>1, <1>2, <1>3, <1>7, <1>9, <1>10, <1>11, <1>12, <1>13, <1>14, <1>15, <1>16, <1>17, <1>18
  DEF Next, Work

\* A session that is COMPLETED has done all its plan says, whoever wrote which
\* column of its row over what, for any number of workers and requests.
THEOREM CompletedAreWarmed == Spec => []CompletedMeansWarmed
<1> DEFINE IInv == TypeOK /\ Shape /\ AllCovered
<1>1. Init => IInv
  BY TypeInit, ShapeInit, CoveredInit
<1>2. IInv /\ [Next]_vars => IInv'
  BY TypeNext, ShapeNext, CoveredNext
<1>3. IInv => CompletedMeansWarmed
  BY DEF AllCovered, RowsCovered, Covered, Met, CompletedMeansWarmed
<1> QED
  BY <1>1, <1>2, <1>3, PTL DEF Spec

-----------------------------------------------------------------------------
\* What a worker writes of a status ends no session but by COMPLETED.

Alive == {"none", "cold_soak", "scheduled", "active", "paused_manual", "paused_risk", "completed"}
MineAlive == \A w \in Workers, s \in Warmups : mine[w][s].status \in Alive

LEMMA AliveNext == TypeOK /\ MineAlive /\ [Next]_vars => MineAlive'
<1> SUFFICES ASSUME TypeOK, MineAlive, [Next]_vars PROVE MineAlive'
  OBVIOUS
<1>1. CASE UNCHANGED mine
  BY <1>1 DEF MineAlive
<1>2. ASSUME NEW w \in Workers, NEW ss, NEW kind, Begin(w, ss, kind),
             \A s \in Warmups : s \in ss => Due(row[s])
      PROVE  MineAlive'
  <2>1. ASSUME NEW s \in Warmups PROVE mine'[w][s].status \in Alive
    <3>1. mine'[w][s] = (IF s \in ss THEN row[s] ELSE Fresh)
      BY <1>2 DEF Begin, TypeOK
    <3> QED
      BY <1>2, <3>1 DEF Due, Running, Alive, Fresh
  <2>2. \A v \in Workers \ {w} : mine'[v] = mine[v]
    BY <1>2 DEF Begin, TypeOK
  <2> QED
    BY <2>1, <2>2 DEF MineAlive
<1>3. ASSUME NEW w \in Workers, Reset(w) PROVE MineAlive'
  <2>1. \A s \in Warmups : mine'[w][s] = Fresh
    BY <1>3 DEF Reset, TypeOK
  <2>2. \A v \in Workers \ {w} : mine'[v] = mine[v]
    BY <1>3 DEF Reset, TypeOK
  <2> QED
    BY <2>1, <2>2 DEF MineAlive, Fresh, Alive
<1>4. ASSUME NEW w \in Workers, NEW s \in Warmups, NEW new, new.status \in Alive,
             mine' = [mine EXCEPT ![w][s] = new]
      PROVE  MineAlive'
  BY <1>4 DEF TypeOK, MineAlive
<1>5. ASSUME NEW w \in Workers, NEW s \in Warmups, EnqueueAt(w, s) PROVE MineAlive'
  <2> DEFINE new == [mine[w][s] EXCEPT !.next = "cursor"]
  <2>1. mine[w][s] \in Rows /\ mine[w][s].status \in Alive
    BY DEF TypeOK, MineAlive
  <2>2. new.status \in Alive
    BY <2>1 DEF Rows
  <2>3. mine' = [mine EXCEPT ![w][s] = new]
    BY <1>5 DEF EnqueueAt
  <2> QED
    BY <1>4, <2>2, <2>3
<1>6. ASSUME NEW w \in Workers, NEW s \in Warmups, NEW new, Flush(w, s, new), Short(w, s, new)
      PROVE  MineAlive'
  <2>1. new.status \in Alive
    BY <1>6 DEF Short, MineAlive, Alive
  <2> QED
    BY <1>4, <1>6, <2>1 DEF Flush
<1>7. ASSUME NEW w \in Workers, Look(w) PROVE MineAlive'
  <2>1. ASSUME NEW s \in Warmups, Postpone(w, s) \/ GateBlocks(w, s) \/ CyclesEnd(w, s)
        PROVE  MineAlive'
    BY <1>6, <2>1, LookWrites
  <2>2. ASSUME NEW s \in Warmups, NEW xs \in SUBSET Actions, OpenWindow(w, s, xs)
        PROVE  MineAlive'
    BY <1>1, <1>6, <2>2, OpenWrites
  <2> QED
    BY <1>7, <2>1, <2>2 DEF Look
<1>8. ASSUME NEW w \in Workers, Close(w) PROVE MineAlive'
  <2>1. PICK new \in Rows : Closes(w, new) /\ Ending(w, new)
    BY <1>8, CloseWrites
  <2>2. cur[w] \in Warmups
    BY <1>8 DEF TypeOK, Close, TripBreaker, CloseWindow, EndDay, Complete, Tried
  <2>3. new.status \in Alive
    BY <2>1, <2>2 DEF Ending, MineAlive, Alive
  <2> QED
    BY <1>4, <2>1, <2>2, <2>3 DEF Closes, Flush
<1>9. ASSUME NEW w \in Workers, Tick(w) \/ \E s \in Warmups : TakeJob(w, s) PROVE MineAlive'
  <2>1. CASE Tick(w)
    BY <1>2, <2>1 DEF Tick
  <2>2. ASSUME NEW s \in Warmups, TakeJob(w, s) PROVE MineAlive'
    <3>1. CASE Due(row[s])
      BY <1>2, <2>2, <3>1 DEF TakeJob
    <3>2. CASE ~Due(row[s])
      BY <1>1, <2>2, <3>2 DEF TakeJob, worker
    <3> QED
      BY <3>1, <3>2
  <2> QED
    BY <1>9, <2>1, <2>2
<1>10. ASSUME NEW w \in Workers, EnqueueRefused(w) \/ Commit(w) \/ Raise(w) \/ Die(w)
       PROVE  MineAlive'
  BY <1>3, <1>10 DEF EnqueueRefused, Commit, Raise, Die
<1>11. ASSUME NEW w \in Workers, NEW x \in Actions, NEW answer \in Answers, Act(w, x, answer)
       PROVE  MineAlive'
  BY <1>1, <1>11 DEF Act
<1>12. ASSUME NEW s \in Warmups, Create(s) \/ EnqueueFails(s) \/ TimeComes(s) \/ Promote(s)
       PROVE  MineAlive'
  BY <1>1, <1>12 DEF Create, EnqueueFails, TimeComes, Promote, worker
<1>13. ASSUME NEW q \in Requests, Land(q) \/ \E op, s : Ask(q, op, s) PROVE MineAlive'
  BY <1>1, <1>13 DEF Land, Ask, worker
<1>14. CASE UNCHANGED vars
  BY <1>1, <1>14 DEF vars, worker
<1> QED
  BY <1>5, <1>7, <1>8, <1>9, <1>10, <1>11, <1>12, <1>13, <1>14 DEF Next, Work

LEMMA ClaimNext == TypeOK /\ MineAlive /\ ClaimReturned /\ [Next]_vars => ClaimReturned'
<1> SUFFICES ASSUME TypeOK, MineAlive, ClaimReturned, [Next]_vars PROVE ClaimReturned'
  OBVIOUS
<1>1. CASE UNCHANGED <<row, claim>>
  BY <1>1 DEF ClaimReturned
<1>2. ASSUME NEW s \in Warmups, Create(s) PROVE ClaimReturned'
  <2>1. row[s] \in Rows /\ [row[s] EXCEPT !.status = "cold_soak"].status = "cold_soak"
    BY DEF TypeOK, Rows
  <2> QED
    BY <1>2, <2>1 DEF TypeOK, Create, ClaimReturned, Ended
<1>3. ASSUME NEW s \in Warmups, EnqueueFails(s) PROVE ClaimReturned'
  BY <1>1, <1>3 DEF TypeOK, EnqueueFails, ClaimReturned
<1>4. ASSUME NEW s \in Warmups, TimeComes(s) PROVE ClaimReturned'
  <2>1. row[s] \in Rows /\ [row[s] EXCEPT !.next = "past"].status = row[s].status
    BY DEF TypeOK, Rows
  <2> QED
    BY <1>4, <2>1 DEF TypeOK, TimeComes, ClaimReturned
<1>5. ASSUME NEW w \in Workers, Commit(w) PROVE ClaimReturned'
  <2> SUFFICES ASSUME NEW s \in claim \ Finished(w) PROVE row'[s].status \notin Ended
    BY <1>5 DEF Commit, ClaimReturned
  <2>1. s \in Warmups /\ row[s] \in Rows /\ mine[w][s] \in Rows
    BY DEF TypeOK
  <2>2. row'[s].status = IF "status" \in cols[w][s] THEN mine[w][s].status ELSE row[s].status
    BY <1>5, <2>1, MergedType DEF Commit
  <2>3. row[s].status \notin Ended /\ mine[w][s].status \in Alive
    BY <2>1 DEF ClaimReturned, MineAlive
  <2> QED
    BY <2>1, <2>2, <2>3 DEF Finished, Ended, Alive
<1>6. ASSUME NEW q \in Requests, Land(q) PROVE ClaimReturned'
  <2>1. CASE row' = row
    BY <1>6, <2>1 DEF Land, ClaimReturned
  <2>2. CASE row' # row
    <3> DEFINE s == req[q].on
               new == Written(req[q].op, req[q].fails, row[s])
    <3>1. /\ s \in Warmups /\ row[s] \in Rows
          /\ req[q].op \in {"pause", "resume", "delete", "monitor"} /\ req[q].fails \in Nat
      BY <1>6 DEF TypeOK, Land, RequestRows
    <3>2. req[q].op # "delete" => new.status \notin Ended
      BY <3>1, WrittenType
    <3>3. /\ row' = [row EXCEPT ![s] = new]
          /\ claim' = IF req[q].op = "delete" THEN claim \ {s} ELSE claim
      BY <1>6, <2>2 DEF Land
    <3> HIDE DEF new
    <3> QED
      BY <3>1, <3>2, <3>3 DEF TypeOK, ClaimReturned
  <2> QED
    BY <2>1, <2>2
<1>7. ASSUME NEW w \in Workers,
             \/ Tick(w) \/ Look(w) \/ Close(w) \/ EnqueueRefused(w) \/ Raise(w) \/ Die(w)
             \/ \E s \in Warmups : TakeJob(w, s) \/ EnqueueAt(w, s)
             \/ \E x \in Actions, answer \in Answers : Act(w, x, answer)
      PROVE  ClaimReturned'
  BY <1>1, <1>7
  DEF Tick, Look, Looks, Postpone, GateBlocks, CyclesEnd, OpenWindow, Close, TripBreaker,
      CloseWindow, EndDay, Complete, Closes, EnqueueRefused, Raise, Die, TakeJob, EnqueueAt, Act
<1>8. ASSUME NEW q \in Requests, \E op, s : Ask(q, op, s) PROVE ClaimReturned'
  BY <1>1, <1>8 DEF Ask
<1>9. ASSUME NEW s \in Warmups, Promote(s) PROVE ClaimReturned'
  BY <1>1, <1>9 DEF Promote
<1>10. CASE UNCHANGED vars
  BY <1>1, <1>10 DEF vars
<1> QED
  BY <1>2, <1>3, <1>4, <1>5, <1>6, <1>7, <1>8, <1>9, <1>10 DEF Next, Work

\* The account of a session that has ended is not isolated any more, for any
\* number of workers and requests.
THEOREM ClaimsReturned == Spec => []ClaimReturned
<1> DEFINE IInv == TypeOK /\ MineAlive /\ ClaimReturned
<1>1. Init => IInv
  <2>1. Init => MineAlive /\ ClaimReturned
    BY DEF Init, MineAlive, Alive, Fresh, ClaimReturned
  <2> QED
    BY <2>1, TypeInit
<1>2. IInv /\ [Next]_vars => IInv'
  BY TypeNext, AliveNext, ClaimNext
<1> QED
  BY <1>1, <1>2, PTL DEF Spec

-----------------------------------------------------------------------------
\* One worker: what Telegram has seen and the counters do not know yet.

Within == \A s \in Warmups : \A k \in Slots : row[s].counts[k] <= PlanOf(k[1])[k[2]]

Extra(w, s, k) == IF cur[w] = s /\ k[1] = mine[w][s].day /\ k[2] \in good[w] THEN 1 ELSE 0

\* Not yet closed: the row as loaded and one for each action of the window.
\* Closed: the new counters, at most one more than in the row.
Tracked(w, s) ==
  \A k \in Slots :
    IF "counts" \in cols[w][s]
      THEN /\ told[s][k] <= mine[w][s].counts[k] + faults
           /\ mine[w][s].counts[k] <= PlanOf(k[1])[k[2]]
           /\ mine[w][s].counts[k] <= row[s].counts[k] + 1
      ELSE told[s][k] <= row[s].counts[k] + faults + Extra(w, s, k)

Ahead(w) ==
  /\ phase[w] # "working" => \A s \in Warmups : "counts" \notin cols[w][s]
  /\ cur[w] \notin todo[w]
  /\ \A s \in Warmups : s \in todo[w] \/ s = cur[w] =>
       "counts" \notin cols[w][s] /\ mine[w][s].counts = row[s].counts
  /\ cur[w] # None => good[w] \cup left[w] \subseteq Pending(mine[w][cur[w]])
  /\ good[w] \cap left[w] = {}

Limited(w) == Within /\ Ahead(w) /\ \A s \in Warmups : Tracked(w, s)

LEMMA LimitedInit == ASSUME NEW w \in Workers, Init PROVE Limited(w)
<1>1. Within
  BY SlotPlan DEF Init, Within, Fresh
<1>2. Ahead(w)
  BY DEF Init, Ahead
<1>3. ASSUME NEW s \in Warmups PROVE Tracked(w, s)
  <2> SUFFICES ASSUME NEW k \in Slots PROVE told[s][k] <= row[s].counts[k] + faults + Extra(w, s, k)
    BY DEF Init, Tracked
  <2>1. told[s][k] = 0 /\ row[s].counts[k] = 0 /\ faults = 0
    BY DEF Init, Fresh
  <2> QED
    BY <2>1 DEF Extra
<1> QED
  BY <1>1, <1>2, <1>3 DEF Limited

\* The numbers of one action.
LEMMA SlotType ==
  ASSUME TypeOK, NEW w \in Workers, NEW s \in Warmups, NEW k \in Slots
  PROVE  /\ told[s][k] \in Nat /\ row[s].counts[k] \in Nat /\ mine[w][s].counts[k] \in Nat
         /\ PlanOf(k[1])[k[2]] \in Nat /\ faults \in Nat /\ Extra(w, s, k) \in {0, 1}
<1>1. row[s] \in Rows /\ mine[w][s] \in Rows
  BY DEF TypeOK
<1> QED
  BY <1>1, SlotPlan DEF TypeOK, Rows, Extra

\* Steps of others: the counters of the rows stay.
LEMMA OthersLimited ==
  ASSUME NEW w \in Workers, Limited(w), UNCHANGED <<told, worker, faults>>,
         \A s \in Warmups : row'[s].counts = row[s].counts
  PROVE  Limited(w)'
<1>1. Within'
  BY DEF Limited, Within
<1>2. Ahead(w)'
  BY DEF Limited, Ahead, worker
<1>3. \A s \in Warmups : Tracked(w, s)'
  BY DEF Limited, Tracked, Extra, worker
<1> QED
  BY <1>1, <1>2, <1>3 DEF Limited

\* The end of a transaction.
LEMMA ResetLimited ==
  ASSUME TypeOK, TypeOK', NEW w \in Workers, Reset(w),
         \A s \in Warmups : \A k \in Slots : /\ told'[s][k] <= row'[s].counts[k] + faults'
                                             /\ row'[s].counts[k] <= PlanOf(k[1])[k[2]]
  PROVE  Limited(w)'
<1>1. Within'
  BY DEF Within
<1>2. /\ cur'[w] = None /\ todo'[w] = {} /\ good'[w] = {} /\ left'[w] = {}
      /\ \A s \in Warmups : cols'[w][s] = {}
  BY DEF TypeOK, Reset
<1>3. Ahead(w)'
  BY <1>2, SetsAssumption DEF Ahead
<1>4. ASSUME NEW s \in Warmups PROVE Tracked(w, s)'
  <2>1. \A k \in Slots : Extra(w, s, k)' = 0
    BY <1>2 DEF Extra
  <2>2. \A k \in Slots : told'[s][k] <= row'[s].counts[k] + faults' + Extra(w, s, k)'
    <3> SUFFICES ASSUME NEW k \in Slots
        PROVE told'[s][k] <= row'[s].counts[k] + faults' + Extra(w, s, k)'
      OBVIOUS
    <3>1. row'[s].counts[k] \in Nat /\ faults' \in Nat
      BY DEF TypeOK, Rows
    <3> QED
      BY <2>1, <3>1
  <2> QED
    BY <1>2, <2>2 DEF Tracked
<1> QED
  BY <1>1, <1>3, <1>4 DEF Limited

\* Steps of the worker that keep counters, what is done and its open window.
LEMMA StillLimited ==
  ASSUME TypeOK, Shape, NEW w \in Workers, Limited(w), UNCHANGED <<told, row, faults, good>>,
         good[w] = {},
         \A s \in Warmups : mine'[w][s].counts = mine[w][s].counts,
         \A s \in Warmups : "counts" \in cols'[w][s] <=> "counts" \in cols[w][s],
         Ahead(w)'
  PROVE  Limited(w)'
<1>1. Within'
  BY DEF Limited, Within
<1>2. ASSUME NEW s \in Warmups PROVE Tracked(w, s)'
  <2>1. \A k \in Slots : Extra(w, s, k) = 0 /\ Extra(w, s, k)' = 0
    BY DEF Extra
  <2>2. Tracked(w, s)
    BY DEF Limited
  <2> QED
    BY <2>1, <2>2 DEF Tracked
<1> QED
  BY <1>1, <1>2 DEF Limited

LEMMA BeginLimited ==
  ASSUME TypeOK, Shape, NEW w \in Workers, Limited(w), NEW ss \in SUBSET Warmups, NEW kind,
         phase[w] = "idle", Begin(w, ss, kind), UNCHANGED <<told, row, faults>>
  PROVE  Limited(w)'
<1>1. cur[w] = None /\ good[w] = {} /\ left[w] = {}
      /\ \A s \in Warmups : "counts" \notin cols[w][s]
  BY DEF Shape, Limited, Ahead
<1>2. /\ UNCHANGED <<cur, cols, left, good>> /\ todo'[w] = ss
      /\ \A s \in ss : mine'[w][s] = row[s]
  BY DEF Begin, TypeOK
<1>3. Ahead(w)'
  BY <1>1, <1>2, SetsAssumption DEF Ahead
<1>4. ASSUME NEW s \in Warmups PROVE Tracked(w, s)'
  <2>1. \A k \in Slots : Extra(w, s, k) = 0 /\ Extra(w, s, k)' = 0
    BY <1>1, <1>2 DEF Extra
  <2> QED
    BY <1>1, <1>2, <2>1 DEF Limited, Tracked
<1> QED
  BY <1>3, <1>4 DEF Limited, Within

\* A flush that leaves the counters alone, outside a window.
LEMMA FlushKeeps ==
  ASSUME TypeOK, Shape, NEW w \in Workers, NEW s \in Warmups, NEW new, Flush(w, s, new),
         new.counts = mine[w][s].counts, cur[w] = None
  PROVE  /\ \A i \in Warmups : mine'[w][i].counts = mine[w][i].counts
         /\ \A i \in Warmups : "counts" \in cols'[w][i] <=> "counts" \in cols[w][i]
<1>1. bad[w] = {} /\ "counts" \notin Changed(mine[w][s], new)
  BY DEF Shape, Changed
<1>2. cols' = [cols EXCEPT ![w][s] = @ \cup Changed(mine[w][s], new) \cup {"updated_at"}]
  BY <1>1 DEF Flush
<1>3. \A i \in Warmups : "counts" \in cols'[w][i] <=> "counts" \in cols[w][i]
  BY <1>1, <1>2 DEF TypeOK
<1>4. \A i \in Warmups : mine'[w][i].counts = mine[w][i].counts
  BY DEF Flush, TypeOK
<1> QED
  BY <1>3, <1>4

LEMMA LookLimited ==
  ASSUME TypeOK, Shape, NEW w \in Workers, Limited(w), Look(w)
  PROVE  Limited(w)'
<1>1. ASSUME NEW s \in Warmups, Postpone(w, s) \/ GateBlocks(w, s) \/ CyclesEnd(w, s)
      PROVE  Limited(w)'
  <2>1. PICK new \in Rows : Flush(w, s, new) /\ Short(w, s, new)
    BY <1>1, LookWrites
  <2>2. Looks(w, s) /\ UNCHANGED <<cur, left, good>>
    BY <1>1 DEF Postpone, GateBlocks, CyclesEnd
  <2>3. cur[w] = None /\ good[w] = {} /\ todo'[w] = todo[w] \ {s}
        /\ UNCHANGED <<told, row, faults, phase>>
    BY <2>2 DEF Looks, Shape, TypeOK
  <2>4. /\ \A i \in Warmups : mine'[w][i].counts = mine[w][i].counts
        /\ \A i \in Warmups : "counts" \in cols'[w][i] <=> "counts" \in cols[w][i]
    BY <2>1, <2>3, FlushKeeps DEF Short
  <2>5. Ahead(w)'
    BY <2>2, <2>3, <2>4 DEF Limited, Ahead
  <2> QED
    BY <2>2, <2>3, <2>4, <2>5, StillLimited
<1>2. ASSUME NEW s \in Warmups, NEW xs \in SUBSET Actions, OpenWindow(w, s, xs)
      PROVE  Limited(w)'
  <2>1. /\ Looks(w, s) /\ UNCHANGED good /\ cur'[w] = s /\ left'[w] = xs
        /\ xs \subseteq Pending(mine[w][s])
    BY <1>2 DEF OpenWindow, TypeOK
  <2>2. /\ cur[w] = None /\ good[w] = {} /\ todo'[w] = todo[w] \ {s} /\ s \in todo[w]
        /\ UNCHANGED <<told, row, faults, phase>> /\ phase[w] = "working"
    BY <2>1 DEF Looks, Shape, TypeOK
  <2>3. /\ \A i \in Warmups : mine'[w][i].counts = mine[w][i].counts
        /\ \A i \in Warmups : "counts" \in cols'[w][i] <=> "counts" \in cols[w][i]
        /\ mine'[w][s].day = mine[w][s].day
    <3>1. CASE UNCHANGED <<mine, cols>>
      BY <3>1
    <3>2. ASSUME NEW new \in Rows, Flush(w, s, new), Short(w, s, new)
          PROVE  /\ \A i \in Warmups : mine'[w][i].counts = mine[w][i].counts
                 /\ \A i \in Warmups : "counts" \in cols'[w][i] <=> "counts" \in cols[w][i]
                 /\ mine'[w][s].day = mine[w][s].day
      <4>1. new.counts = mine[w][s].counts /\ new.day = mine[w][s].day
        BY <3>2 DEF Short
      <4>2. mine'[w][s] = new
        BY <3>2 DEF Flush, TypeOK
      <4> QED
        BY <2>2, <3>2, <4>1, <4>2, FlushKeeps
    <3> QED
      BY <1>2, <3>1, <3>2, OpenWrites
  <2>4. Pending(mine'[w][s]) = Pending(mine[w][s])
    BY <2>3 DEF Pending
  <2>5. Ahead(w)'
    BY <2>1, <2>2, <2>3, <2>4, SetsAssumption DEF Limited, Ahead
  <2> QED
    BY <2>1, <2>2, <2>3, <2>5, StillLimited
<1> QED
  BY <1>1, <1>2 DEF Look

LEMMA ActLimited ==
  ASSUME TypeOK, NEW w \in Workers, Limited(w), NEW x \in Actions, NEW answer \in Answers,
         Act(w, x, answer)
  PROVE  Limited(w)'
<1> DEFINE c == cur[w]
           d == mine[w][c].day
<1>1. c \in Warmups /\ c # None /\ x \in left[w] /\ d \in Days
  <2>1. c \in Warmups /\ mine[w][c] \in Rows
    BY DEF TypeOK, Act
  <2> QED
    BY <2>1 DEF Act, Rows
<1>2. UNCHANGED <<row, mine, cols, cur, phase, todo>> /\ left'[w] = left[w] \ {x}
  BY DEF Act, TypeOK
<1>3. good'[w] = IF answer = "ok" THEN good[w] \cup {x} ELSE good[w]
  BY DEF Act, TypeOK
<1>4. x \notin good[w]
  BY <1>1 DEF Limited, Ahead
<1>5. Ahead(w)'
  BY <1>1, <1>2, <1>3 DEF Limited, Ahead
<1>6. ASSUME NEW s \in Warmups PROVE Tracked(w, s)'
  <2> SUFFICES ASSUME NEW k \in Slots
      PROVE  IF "counts" \in cols[w][s]
               THEN /\ told'[s][k] <= mine[w][s].counts[k] + faults'
                    /\ mine[w][s].counts[k] <= PlanOf(k[1])[k[2]]
                    /\ mine[w][s].counts[k] <= row[s].counts[k] + 1
               ELSE told'[s][k] <= row[s].counts[k] + faults' + Extra(w, s, k)'
    BY <1>2 DEF Tracked
  <2>1. IF "counts" \in cols[w][s]
          THEN /\ told[s][k] <= mine[w][s].counts[k] + faults
               /\ mine[w][s].counts[k] <= PlanOf(k[1])[k[2]]
               /\ mine[w][s].counts[k] <= row[s].counts[k] + 1
          ELSE told[s][k] <= row[s].counts[k] + faults + Extra(w, s, k)
    BY DEF Limited, Tracked
  <2>2. /\ told[s][k] \in Nat /\ row[s].counts[k] \in Nat /\ mine[w][s].counts[k] \in Nat
        /\ PlanOf(k[1])[k[2]] \in Nat /\ faults \in Nat /\ Extra(w, s, k) \in {0, 1}
    BY SlotType
  <2>3. CASE s = c /\ k = <<d, x>>
    <3>1. "counts" \notin cols[w][s] /\ Extra(w, s, k) = 0
      BY <1>1, <1>4, <2>3 DEF Limited, Ahead, Extra
    <3>2. CASE answer = "ok"
      <4>1. Extra(w, s, k)' = 1
        BY <1>2, <1>3, <2>3, <3>2 DEF Extra
      <4>2. told'[s][k] = told[s][k] + 1 /\ faults' = faults
        BY <1>1, <2>3, <3>2 DEF Act, TypeOK
      <4> QED
        BY <2>1, <2>2, <3>1, <4>1, <4>2
    <3>3. CASE answer = "late"
      <4>1. Extra(w, s, k)' = 0
        BY <1>2, <1>3, <3>1, <3>3 DEF Extra
      <4>2. told'[s][k] = told[s][k] + 1 /\ faults' = faults + 1
        BY <1>1, <2>3, <3>3 DEF Act, TypeOK
      <4> QED
        BY <2>1, <2>2, <3>1, <4>1, <4>2
    <3>4. CASE answer # "ok" /\ answer # "late"
      <4>1. Extra(w, s, k)' = 0 /\ told' = told /\ faults' = faults
        BY <1>2, <1>3, <3>1, <3>4 DEF Extra, Act
      <4> QED
        BY <2>1, <3>1, <4>1
    <3> QED
      BY <3>2, <3>3, <3>4
  <2>4. CASE ~(s = c /\ k = <<d, x>>)
    <3>1. told'[s][k] = told[s][k]
      BY <1>1, <2>4 DEF Act, TypeOK, Slots
    <3>2. faults' = faults \/ faults' = faults + 1
      BY DEF Act
    <3>3. Extra(w, s, k)' = Extra(w, s, k)
      <4>1. CASE s = c /\ k[1] = d
        <5>1. k = <<d, k[2]>>
          BY <4>1 DEF Slots
        <5>2. k[2] # x
          BY <2>4, <4>1, <5>1
        <5> QED
          BY <1>2, <1>3, <5>2 DEF Extra
      <4>2. CASE ~(s = c /\ k[1] = d)
        BY <1>2, <4>2 DEF Extra
      <4> QED
        BY <4>1, <4>2
    <3> QED
      BY <2>1, <2>2, <3>1, <3>2, <3>3
  <2> QED
    BY <2>3, <2>4
<1> QED
  BY <1>2, <1>5, <1>6 DEF Limited, Within

\* An action of an open window is one that the counters still allow.
LEMMA ExtraFits ==
  ASSUME TypeOK, NEW w \in Workers, Limited(w), NEW s \in Warmups, NEW k \in Slots,
         Extra(w, s, k) = 1
  PROVE  row[s].counts[k] + 1 <= PlanOf(k[1])[k[2]]
<1>1. cur[w] = s /\ s # None /\ k[1] = mine[w][s].day /\ k[2] \in good[w]
  BY SetsAssumption DEF Extra
<1>2. k[2] \in Pending(mine[w][s]) /\ mine[w][s].counts = row[s].counts
  BY <1>1 DEF Limited, Ahead
<1>3. k = <<mine[w][s].day, k[2]>>
  BY <1>1 DEF Slots
<1>4. row[s].counts[k] < PlanOf(k[1])[k[2]]
  BY <1>1, <1>2, <1>3 DEF Pending
<1> QED
  BY <1>4, SlotType

LEMMA CloseLimited ==
  ASSUME TypeOK, NEW w \in Workers, Limited(w), Close(w)
  PROVE  Limited(w)'
<1> DEFINE c == cur[w]
<1>1. PICK new \in Rows : Closes(w, new) /\ Ending(w, new)
  BY CloseWrites
<1>2. c \in Warmups /\ c # None /\ phase[w] = "working" /\ left[w] = {}
  BY DEF TypeOK, Close, TripBreaker, CloseWindow, EndDay, Complete, Tried
<1>3. /\ UNCHANGED <<told, row, faults, phase, todo, left>>
      /\ cur'[w] = None /\ good'[w] = {}
      /\ mine'[w][c] = new /\ \A s \in Warmups \ {c} : mine'[w][s] = mine[w][s]
  BY <1>1, <1>2 DEF Closes, Flush, TypeOK
<1>4. /\ \A s \in Warmups \ {c} : cols'[w][s] = cols[w][s]
      /\ new.counts # mine[w][c].counts => "counts" \in cols'[w][c]
  BY <1>1, <1>2 DEF Closes, Flush, TypeOK, Changed
<1>5. "counts" \notin cols[w][c] /\ mine[w][c].counts = row[c].counts
  BY <1>2 DEF Limited, Ahead
<1>6. Ahead(w)'
  <2>1. cur'[w] = None /\ todo'[w] \subseteq Warmups /\ c \notin todo'[w]
    BY <1>3 DEF Limited, Ahead, TypeOK
  <2>2. \A s \in Warmups \ {c} :
          /\ mine'[w][s].counts = mine[w][s].counts
          /\ "counts" \in cols'[w][s] <=> "counts" \in cols[w][s]
    BY <1>3, <1>4
  <2>3. \A s \in Warmups : s \in todo'[w] \/ s = cur'[w] => s \in todo[w] /\ s \in Warmups \ {c}
    BY <1>3, <2>1, SetsAssumption
  <2>4. \A s \in Warmups : s \in todo[w] => "counts" \notin cols[w][s] /\ mine[w][s].counts = row[s].counts
    BY DEF Limited, Ahead
  <2>5. row' = row /\ phase'[w] = "working" /\ good'[w] = {} /\ None \notin todo'[w]
    BY <1>2, <1>3, <2>1, SetsAssumption
  <2>6. \A s \in Warmups : s \in todo'[w] \/ s = cur'[w] =>
          "counts" \notin cols'[w][s] /\ mine'[w][s].counts = row'[s].counts
    <3> SUFFICES ASSUME NEW s \in Warmups, s \in todo'[w] \/ s = cur'[w]
        PROVE  "counts" \notin cols'[w][s] /\ mine'[w][s].counts = row'[s].counts
      OBVIOUS
    <3>1. s \in todo[w] /\ s \in Warmups \ {c}
      BY <2>3
    <3>2. "counts" \notin cols[w][s] /\ mine[w][s].counts = row[s].counts
      BY <2>4, <3>1
    <3>3. "counts" \notin cols'[w][s]
      BY <2>2, <3>1, <3>2
    <3>4. mine'[w][s].counts = mine[w][s].counts
      BY <2>2, <3>1
    <3> QED
      BY <2>5, <3>2, <3>3, <3>4
  <2> QED
    BY <2>1, <2>5, <2>6 DEF Ahead
<1>7. ASSUME NEW k \in Slots PROVE new.counts[k] = row[c].counts[k] + Extra(w, c, k)
  <2>1. Counted(w).counts[k] =
          mine[w][c].counts[k] + (IF k[1] = mine[w][c].day /\ k[2] \in good[w] THEN 1 ELSE 0)
    BY <1>2, CountedType DEF TypeOK
  <2> QED
    BY <1>1, <1>5, <2>1 DEF Ending, Extra
<1>8. ASSUME NEW s \in Warmups PROVE Tracked(w, s)'
  <2>1. \A k \in Slots : Extra(w, s, k)' = 0
    BY <1>3 DEF Extra
  <2>2. Tracked(w, s)
    BY DEF Limited
  <2>3. CASE s # c
    <3>1. \A k \in Slots : Extra(w, s, k) = 0
      BY <2>3 DEF Extra
    <3> QED
      BY <1>3, <1>4, <2>1, <2>2, <2>3, <3>1 DEF Tracked
  <2>4. CASE s = c
    <3> SUFFICES ASSUME NEW k \in Slots
        PROVE  IF "counts" \in cols'[w][c]
                 THEN /\ told[c][k] <= new.counts[k] + faults
                      /\ new.counts[k] <= PlanOf(k[1])[k[2]]
                      /\ new.counts[k] <= row[c].counts[k] + 1
                 ELSE told[c][k] <= row[c].counts[k] + faults + 0
      BY <1>3, <2>1, <2>4 DEF Tracked
    <3>1. /\ told[c][k] \in Nat /\ row[c].counts[k] \in Nat /\ faults \in Nat
          /\ PlanOf(k[1])[k[2]] \in Nat /\ Extra(w, c, k) \in {0, 1}
      BY <1>2, SlotType
    <3>2. told[c][k] <= row[c].counts[k] + faults + Extra(w, c, k)
      BY <1>5, <2>2, <2>4 DEF Tracked
    <3>3. new.counts[k] = row[c].counts[k] + Extra(w, c, k)
      BY <1>7
    <3>4. row[c].counts[k] <= PlanOf(k[1])[k[2]]
      BY <1>2 DEF Limited, Within
    <3>5. Extra(w, c, k) = 1 => row[c].counts[k] + 1 <= PlanOf(k[1])[k[2]]
      BY <1>2, ExtraFits
    <3>6. "counts" \notin cols'[w][c] => new.counts[k] = row[c].counts[k]
      BY <1>4, <1>5
    <3> HIDE DEF c
    <3> QED
      BY <3>1, <3>2, <3>3, <3>4, <3>5, <3>6
  <2> QED
    BY <2>3, <2>4
<1> QED
  BY <1>3, <1>6, <1>8 DEF Limited, Within

LEMMA StaggerLimited ==
  ASSUME TypeOK, Shape, NEW w \in Workers, Limited(w), NEW s \in Warmups, EnqueueAt(w, s)
  PROVE  Limited(w)'
<1>1. /\ UNCHANGED <<told, row, faults, good, phase, cur, left>>
      /\ cur[w] = None /\ good[w] = {} /\ phase[w] = "staggering"
      /\ todo'[w] = todo[w] \ {s}
  BY DEF EnqueueAt, Shape, TypeOK
<1>2. \A i \in Warmups : mine'[w][i].counts = mine[w][i].counts
  <2>1. mine[w][s] \in Rows /\ "cursor" \in Nexts
    BY DEF TypeOK, Nexts
  <2>2. [mine[w][s] EXCEPT !.next = "cursor"].counts = mine[w][s].counts
    BY <2>1, NextColumn
  <2>3. mine' = [mine EXCEPT ![w][s] = [mine[w][s] EXCEPT !.next = "cursor"]]
    BY DEF EnqueueAt, TypeOK
  <2> QED
    BY <2>2, <2>3 DEF TypeOK
<1>3. \A i \in Warmups : "counts" \notin cols[w][i] /\ "counts" \notin cols'[w][i]
  BY <1>1 DEF EnqueueAt, TypeOK, Limited, Ahead
<1>4. Ahead(w)'
  BY <1>1, <1>2, <1>3 DEF Limited, Ahead
<1> QED
  BY <1>1, <1>2, <1>3, <1>4, StillLimited

\* The end of a transaction, with its columns or without them.
LEMMA EndLimited ==
  ASSUME TypeOK, TypeOK', Shape, NEW w \in Workers, Limited(w),
         Commit(w) \/ EnqueueRefused(w) \/ Raise(w) \/ Die(w)
  PROVE  Limited(w)'
<1>1. CASE Commit(w)
  <2> SUFFICES ASSUME NEW s \in Warmups, NEW k \in Slots
      PROVE  /\ told'[s][k] <= row'[s].counts[k] + faults'
             /\ row'[s].counts[k] <= PlanOf(k[1])[k[2]]
    BY <1>1, ResetLimited DEF Commit
  <2>1. row'[s].counts = IF "counts" \in cols[w][s] THEN mine[w][s].counts ELSE row[s].counts
    BY <1>1, MergedType DEF Commit, TypeOK
  <2>2. Extra(w, s, k) = 0
    BY <1>1, SetsAssumption DEF Commit, Extra
  <2>3. told' = told /\ faults' = faults
    BY <1>1 DEF Commit
  <2>4. Tracked(w, s) /\ row[s].counts[k] <= PlanOf(k[1])[k[2]]
    BY DEF Limited, Within
  <2>5. row[s].counts[k] \in Nat /\ faults \in Nat
    BY SlotType
  <2> QED
    BY <2>1, <2>2, <2>3, <2>4, <2>5 DEF Tracked
<1>2. CASE EnqueueRefused(w) \/ Raise(w) \/ Die(w)
  <2> SUFFICES ASSUME NEW s \in Warmups, NEW k \in Slots
      PROVE  /\ told'[s][k] <= row'[s].counts[k] + faults'
             /\ row'[s].counts[k] <= PlanOf(k[1])[k[2]]
    BY <1>2, ResetLimited DEF EnqueueRefused, Raise, Die
  <2>1. told' = told /\ row' = row
    BY <1>2 DEF EnqueueRefused, Raise, Die
  <2>2. Tracked(w, s) /\ row[s].counts[k] <= PlanOf(k[1])[k[2]]
    BY DEF Limited, Within
  <2>3. /\ told[s][k] \in Nat /\ row[s].counts[k] \in Nat /\ mine[w][s].counts[k] \in Nat
        /\ faults \in Nat /\ Extra(w, s, k) \in {0, 1}
    BY SlotType
  <2>4. told[s][k] <= row[s].counts[k] + faults'
    <3>1. CASE Raise(w) \/ Die(w)
      <4>1. faults' = faults + 1
        BY <3>1 DEF Raise, Die
      <4> QED
        BY <2>2, <2>3, <4>1 DEF Tracked
    <3>2. CASE EnqueueRefused(w)
      <4>1. phase[w] = "staggering" /\ faults' = faults
        BY <3>2 DEF EnqueueRefused
      <4>2. "counts" \notin cols[w][s] /\ Extra(w, s, k) = 0
        BY <4>1 DEF Shape, Limited, Ahead, Extra
      <4> QED
        BY <2>2, <2>3, <4>1, <4>2 DEF Tracked
    <3> QED
      BY <1>2, <3>1, <3>2
  <2> QED
    BY <2>1, <2>2, <2>4
<1> QED
  BY <1>1, <1>2

LEMMA LimitedNext ==
  ASSUME NEW w, Workers = {w}, TypeOK, TypeOK', Shape, Limited(w), [Next]_vars
  PROVE  Limited(w)'
<1>0. w \in Workers /\ \A v \in Workers : v = w
  OBVIOUS
<1>1. CASE UNCHANGED <<row, told, worker, faults>>
  BY <1>0, <1>1, OthersLimited
<1>2. ASSUME NEW s \in Warmups, NEW new, row' = [row EXCEPT ![s] = new],
             new.counts = row[s].counts, UNCHANGED <<told, worker, faults>>
      PROVE  Limited(w)'
  <2>1. \A i \in Warmups : row'[i].counts = row[i].counts
    BY <1>2 DEF TypeOK
  <2> QED
    BY <1>0, <1>2, <2>1, OthersLimited
<1>3. ASSUME NEW s \in Warmups, Create(s) PROVE Limited(w)'
  <2> DEFINE new == [row[s] EXCEPT !.status = "cold_soak"]
  <2>1. new.counts = row[s].counts
    BY StatusColumn DEF TypeOK, Statuses
  <2> QED
    BY <1>2, <1>3, <2>1 DEF Create
<1>4. ASSUME NEW s \in Warmups, EnqueueFails(s) PROVE Limited(w)'
  <2>1. CASE row' = row
    BY <1>1, <1>4, <2>1 DEF EnqueueFails
  <2>2. CASE row' # row
    <3> DEFINE new == [row[s] EXCEPT !.status = "failed"]
    <3>1. new.counts = row[s].counts
      BY StatusColumn DEF TypeOK, Statuses
    <3> QED
      BY <1>2, <1>4, <2>2, <3>1 DEF EnqueueFails
  <2> QED
    BY <2>1, <2>2
<1>5. ASSUME NEW s \in Warmups, TimeComes(s) PROVE Limited(w)'
  <2> DEFINE new == [row[s] EXCEPT !.next = "past"]
  <2>1. new.counts = row[s].counts
    BY NextColumn DEF TypeOK, Nexts
  <2> QED
    BY <1>2, <1>5, <2>1 DEF TimeComes
<1>6. ASSUME NEW q \in Requests, Land(q) PROVE Limited(w)'
  <2>1. CASE row' = row
    BY <1>1, <1>6, <2>1 DEF Land
  <2>2. CASE row' # row
    <3> DEFINE s == req[q].on
               new == Written(req[q].op, req[q].fails, row[s])
    <3>1. /\ s \in Warmups /\ row[s] \in Rows
          /\ req[q].op \in {"pause", "resume", "delete", "monitor"} /\ req[q].fails \in Nat
      BY <1>6 DEF TypeOK, Land, RequestRows
    <3>2. new.counts = row[s].counts
      BY <3>1, WrittenType
    <3>3. row' = [row EXCEPT ![s] = new] /\ UNCHANGED <<told, worker, faults>>
      BY <1>6, <2>2 DEF Land
    <3> HIDE DEF new
    <3> QED
      BY <1>2, <3>1, <3>2, <3>3
  <2> QED
    BY <2>1, <2>2
<1>7. ASSUME NEW ss \in SUBSET Warmups, NEW kind, phase[w] = "idle", Begin(w, ss, kind),
             UNCHANGED <<told, row, faults>>
      PROVE  Limited(w)'
  BY <1>0, <1>7, BeginLimited
<1>8. ASSUME Tick(w) PROVE Limited(w)'
  <2>1. {s \in Warmups : Due(row[s])} \in SUBSET Warmups
    OBVIOUS
  <2> QED
    BY <1>7, <1>8, <2>1 DEF Tick
<1>9. ASSUME NEW s \in Warmups, TakeJob(w, s) PROVE Limited(w)'
  <2>1. CASE Begin(w, {s}, "working")
    BY <1>7, <1>9, <2>1 DEF TakeJob
  <2>2. CASE UNCHANGED worker
    BY <1>1, <1>9, <2>2 DEF TakeJob
  <2> QED
    BY <1>9, <2>1, <2>2 DEF TakeJob
<1>10. ASSUME NEW s \in Warmups, Promote(s) PROVE Limited(w)'
  BY <1>1, <1>10 DEF Promote
<1>11. ASSUME NEW q \in Requests, \E op, s : Ask(q, op, s) PROVE Limited(w)'
  BY <1>1, <1>11 DEF Ask
<1>12. CASE UNCHANGED vars
  BY <1>1, <1>12 DEF vars
<1>13. ASSUME NEW s \in Warmups, EnqueueAt(w, s) PROVE Limited(w)'
  BY <1>0, <1>13, StaggerLimited
<1>14. CASE Look(w)
  BY <1>0, <1>14, LookLimited
<1>15. ASSUME NEW x \in Actions, NEW answer \in Answers, Act(w, x, answer) PROVE Limited(w)'
  BY <1>0, <1>15, ActLimited
<1>16. CASE Close(w)
  BY <1>0, <1>16, CloseLimited
<1>17. CASE Commit(w) \/ EnqueueRefused(w) \/ Raise(w) \/ Die(w)
  BY <1>0, <1>17, EndLimited
<1> QED
  BY <1>0, <1>3, <1>4, <1>5, <1>6, <1>8, <1>9, <1>10, <1>11, <1>12, <1>13, <1>14, <1>15, <1>16, <1>17
  DEF Next, Work

\* With one worker, a day's limit of an action is exceeded at Telegram by no more
\* than the windows that were lost and the answers that came late.
THEOREM DayLimitKept == ASSUME NEW w, Workers = {w} PROVE Spec => []DayLimit
<1> DEFINE IInv == TypeOK /\ Shape /\ Limited(w)
<1>1. Init => IInv
  BY TypeInit, ShapeInit, LimitedInit
<1>2. IInv /\ [Next]_vars => IInv'
  BY TypeNext, ShapeNext, LimitedNext
<1>3. IInv => DayLimit
  <2> SUFFICES ASSUME TypeOK, Limited(w), NEW s \in Warmups, NEW k \in Slots
      PROVE  told[s][k] <= PlanOf(k[1])[k[2]] + faults
    BY DEF DayLimit
  <2>1. /\ told[s][k] \in Nat /\ row[s].counts[k] \in Nat /\ mine[w][s].counts[k] \in Nat
        /\ PlanOf(k[1])[k[2]] \in Nat /\ faults \in Nat /\ Extra(w, s, k) \in {0, 1}
    BY SlotType
  <2>2. Tracked(w, s) /\ row[s].counts[k] <= PlanOf(k[1])[k[2]]
    BY DEF Limited, Within
  <2>3. Extra(w, s, k) = 1 => row[s].counts[k] + 1 <= PlanOf(k[1])[k[2]]
    BY ExtraFits
  <2>4. CASE "counts" \in cols[w][s]
    BY <2>1, <2>2, <2>4 DEF Tracked
  <2>5. CASE "counts" \notin cols[w][s]
    <3>1. told[s][k] <= row[s].counts[k] + faults + Extra(w, s, k)
      BY <2>2, <2>5 DEF Tracked
    <3> QED
      BY <2>1, <2>2, <2>3, <3>1
  <2> QED
    BY <2>4, <2>5
<1> QED
  BY <1>1, <1>2, <1>3, PTL DEF Spec

-----------------------------------------------------------------------------
\* The progress of the rows: the day and the counters.

SameProgress(old, new) == new.day = old.day /\ new.counts = old.counts
NoLess(old, new) == new.day >= old.day /\ \A k \in Slots : new.counts[k] >= old.counts[k]

LEMMA SameIsNoLess ==
  ASSUME NEW old \in Rows, NEW new \in Rows, SameProgress(old, new)
  PROVE  NoLess(old, new)
<1>1. old.day \in Nat /\ \A k \in Slots : old.counts[k] \in Nat
  BY DEF Rows, Days
<1> QED
  BY <1>1 DEF SameProgress, NoLess

\* Nothing but a commit changes them, whatever the number of workers.
LEMMA OnlyCommits ==
  ASSUME TypeOK, [Next]_vars, \A w \in Workers : ~Commit(w)
  PROVE  \A s \in Warmups : SameProgress(row[s], row'[s])
<1>1. CASE UNCHANGED row
  BY <1>1 DEF SameProgress
<1>2. ASSUME NEW s \in Warmups, NEW new, row' = [row EXCEPT ![s] = new], SameProgress(row[s], new)
      PROVE  \A i \in Warmups : SameProgress(row[i], row'[i])
  BY <1>2 DEF TypeOK, SameProgress
<1>3. \A s \in Warmups : row[s] \in Rows
  BY DEF TypeOK
<1>4. ASSUME NEW s \in Warmups, NEW a \in Statuses, row' = [row EXCEPT ![s].status = a]
      PROVE  \A i \in Warmups : SameProgress(row[i], row'[i])
  <2> DEFINE new == [row[s] EXCEPT !.status = a]
  <2>1. SameProgress(row[s], new)
    BY <1>3, StatusColumn DEF SameProgress
  <2>2. row' = [row EXCEPT ![s] = new]
    BY <1>4
  <2> HIDE DEF new
  <2> QED
    BY <1>2, <2>1, <2>2
<1>5. ASSUME NEW s \in Warmups, Create(s) \/ EnqueueFails(s)
      PROVE  \A i \in Warmups : SameProgress(row[i], row'[i])
  <2>1. "cold_soak" \in Statuses /\ "failed" \in Statuses
    BY DEF Statuses
  <2> QED
    BY <1>1, <1>4, <1>5, <2>1 DEF Create, EnqueueFails
<1>6. ASSUME NEW s \in Warmups, TimeComes(s)
      PROVE  \A i \in Warmups : SameProgress(row[i], row'[i])
  <2> DEFINE new == [row[s] EXCEPT !.next = "past"]
  <2>1. SameProgress(row[s], new)
    BY <1>3, NextColumn DEF SameProgress, Nexts
  <2>2. row' = [row EXCEPT ![s] = new]
    BY <1>6 DEF TimeComes
  <2> HIDE DEF new
  <2> QED
    BY <1>2, <2>1, <2>2
<1>7. ASSUME NEW q \in Requests, Land(q)
      PROVE  \A i \in Warmups : SameProgress(row[i], row'[i])
  <2> DEFINE s == req[q].on
             new == Written(req[q].op, req[q].fails, row[s])
  <2>1. /\ s \in Warmups
        /\ req[q].op \in {"pause", "resume", "delete", "monitor"} /\ req[q].fails \in Nat
    BY <1>7 DEF TypeOK, Land, RequestRows
  <2>2. SameProgress(row[s], new)
    BY <1>3, <2>1, WrittenType DEF SameProgress
  <2>3. UNCHANGED row \/ row' = [row EXCEPT ![s] = new]
    BY <1>7 DEF Land
  <2> HIDE DEF new
  <2> QED
    BY <1>1, <1>2, <2>1, <2>2, <2>3
<1>8. ASSUME NEW w \in Workers, Look(w) \/ Close(w) PROVE UNCHANGED row
  <2>1. CASE Look(w)
    BY <2>1 DEF Look, Postpone, GateBlocks, CyclesEnd, OpenWindow, Looks
  <2>2. CASE Close(w)
    BY <2>2 DEF Close, TripBreaker, CloseWindow, EndDay, Complete, Closes
  <2> QED
    BY <1>8, <2>1, <2>2
<1>9. ASSUME NEW w \in Workers,
             \/ Tick(w) \/ \E s \in Warmups : TakeJob(w, s) \/ EnqueueAt(w, s)
             \/ \E x \in Actions, answer \in Answers : Act(w, x, answer)
             \/ Raise(w) \/ EnqueueRefused(w) \/ Die(w)
      PROVE  UNCHANGED row
  BY <1>9 DEF Tick, TakeJob, EnqueueAt, Act, Raise, EnqueueRefused, Die
<1>10. ASSUME NEW s \in Warmups, Promote(s) PROVE UNCHANGED row
  BY <1>10 DEF Promote
<1>11. ASSUME NEW q \in Requests, \E op, s : Ask(q, op, s) PROVE UNCHANGED row
  BY <1>11 DEF Ask
<1>12. CASE UNCHANGED vars
  BY <1>1, <1>12 DEF vars
<1> QED
  BY <1>1, <1>5, <1>6, <1>7, <1>8, <1>9, <1>10, <1>11, <1>12 DEF Next, Work

\* A row as the worker loaded it, and one it is about to write.
Loaded(w, s) ==
  "day" \notin cols[w][s] /\ "counts" \notin cols[w][s] /\ SameProgress(row[s], mine[w][s])

Forward(w, s) ==
  /\ "day" \in cols[w][s] => mine[w][s].day >= row[s].day
  /\ "counts" \in cols[w][s] => \A k \in Slots : mine[w][s].counts[k] >= row[s].counts[k]

\* What is yet to be looked at, and the open window, are as in the row; what was
\* closed is no less.
Onward(w) ==
  /\ phase[w] # "working" =>
       \A s \in Warmups : "day" \notin cols[w][s] /\ "counts" \notin cols[w][s]
  /\ cur[w] \notin todo[w]
  /\ \A s \in Warmups : s \in todo[w] \/ s = cur[w] => Loaded(w, s)
  /\ \A s \in Warmups : Forward(w, s)

LEMMA OnwardInit == ASSUME NEW w \in Workers, Init PROVE Onward(w)
  BY DEF Init, Onward, Loaded, Forward, SameProgress

LEMMA OthersOnward ==
  ASSUME NEW w \in Workers, Onward(w), UNCHANGED worker,
         \A s \in Warmups : SameProgress(row[s], row'[s])
  PROVE  Onward(w)'
<1>1. \A s \in Warmups : Loaded(w, s) => Loaded(w, s)'
  BY DEF Loaded, SameProgress, worker
<1>2. \A s \in Warmups : Forward(w, s) => Forward(w, s)'
  BY DEF Forward, SameProgress, worker
<1> QED
  BY <1>1, <1>2 DEF Onward, worker

LEMMA ResetOnward ==
  ASSUME TypeOK, NEW w \in Workers, Reset(w) PROVE Onward(w)'
<1>1. cur'[w] = None /\ todo'[w] = {} /\ \A s \in Warmups : cols'[w][s] = {}
  BY DEF TypeOK, Reset
<1> QED
  BY <1>1, SetsAssumption DEF Onward, Forward

LEMMA BeginOnward ==
  ASSUME TypeOK, Shape, NEW w \in Workers, Onward(w), NEW ss \in SUBSET Warmups, NEW kind,
         phase[w] = "idle", Begin(w, ss, kind), UNCHANGED row
  PROVE  Onward(w)'
<1>1. /\ cur'[w] = None /\ todo'[w] = ss /\ cols' = cols
      /\ \A s \in ss : mine'[w][s] = row[s]
  BY DEF Begin, TypeOK, Shape
<1>2. \A s \in Warmups : "day" \notin cols[w][s] /\ "counts" \notin cols[w][s]
  BY DEF Onward
<1>3. \A s \in ss : Loaded(w, s)'
  BY <1>1, <1>2 DEF Loaded, SameProgress
<1>4. \A s \in Warmups : Forward(w, s)'
  BY <1>1, <1>2 DEF Forward
<1>5. None \notin ss
  BY SetsAssumption
<1> QED
  BY <1>1, <1>2, <1>3, <1>4, <1>5, SetsAssumption DEF Onward

\* A step of the worker on one session: the others stay as they are.
LEMMA OneOnward ==
  ASSUME NEW w \in Workers, Onward(w), UNCHANGED <<row, phase>>, NEW c \in Warmups,
         \A s \in Warmups \ {c} : mine'[w][s] = mine[w][s] /\ cols'[w][s] = cols[w][s],
         todo'[w] \subseteq todo[w], cur'[w] \notin todo'[w],
         \A s \in Warmups \ {c} : s = cur'[w] => s = cur[w],
         c \in todo'[w] \/ c = cur'[w] => Loaded(w, c)',
         phase[w] # "working" => "day" \notin cols'[w][c] /\ "counts" \notin cols'[w][c],
         Forward(w, c)'
  PROVE  Onward(w)'
<1>1. ASSUME NEW s \in Warmups \ {c}
      PROVE  (Loaded(w, s) => Loaded(w, s)') /\ (Forward(w, s) => Forward(w, s)')
  BY <1>1 DEF Loaded, Forward, SameProgress
<1>2. \A s \in Warmups : Forward(w, s)'
  BY <1>1 DEF Onward
<1>3. \A s \in Warmups : s \in todo'[w] \/ s = cur'[w] => Loaded(w, s)'
  BY <1>1 DEF Onward
<1>4. phase'[w] # "working" =>
        \A s \in Warmups : "day" \notin cols'[w][s] /\ "counts" \notin cols'[w][s]
  BY DEF Onward
<1> QED
  BY <1>2, <1>3, <1>4 DEF Onward

\* A flush that leaves day and counters alone, outside a window.
LEMMA FlushOnward ==
  ASSUME TypeOK, Shape, NEW w \in Workers, NEW s \in Warmups, NEW new, Flush(w, s, new),
         SameProgress(mine[w][s], new), cur[w] = None, Loaded(w, s), UNCHANGED row
  PROVE  /\ Loaded(w, s)'
         /\ \A i \in Warmups \ {s} : mine'[w][i] = mine[w][i] /\ cols'[w][i] = cols[w][i]
<1>1. bad[w] = {} /\ "counts" \notin Changed(mine[w][s], new) /\ "day" \notin Changed(mine[w][s], new)
  BY DEF Shape, Changed, SameProgress
<1>2. cols'[w][s] = cols[w][s] \cup Changed(mine[w][s], new) \cup {"updated_at"}
  BY <1>1 DEF Flush, TypeOK
<1>3. mine'[w][s] = new
  BY DEF Flush, TypeOK
<1>4. \A i \in Warmups \ {s} : mine'[w][i] = mine[w][i] /\ cols'[w][i] = cols[w][i]
  BY DEF Flush, TypeOK
<1>5. "day" \notin cols'[w][s] /\ "counts" \notin cols'[w][s]
  BY <1>1, <1>2 DEF Loaded
<1>6. SameProgress(row[s], new)
  BY DEF SameProgress, Loaded
<1> QED
  BY <1>3, <1>4, <1>5, <1>6 DEF Loaded

LEMMA LookOnward ==
  ASSUME TypeOK, Shape, NEW w \in Workers, Onward(w), Look(w)
  PROVE  Onward(w)'
<1>1. ASSUME NEW s \in Warmups, Looks(w, s)
      PROVE  /\ cur[w] = None /\ s \in todo[w] /\ Loaded(w, s) /\ phase[w] = "working"
             /\ todo'[w] = todo[w] \ {s} /\ UNCHANGED <<row, phase>>
  BY <1>1 DEF Looks, Onward, TypeOK
<1>2. ASSUME NEW s \in Warmups, Loaded(w, s)', Looks(w, s), cur'[w] \in {None, s},
             \A i \in Warmups \ {s} : mine'[w][i] = mine[w][i] /\ cols'[w][i] = cols[w][i]
      PROVE  Onward(w)'
  <2>1. Forward(w, s)'
    BY <1>2 DEF Loaded, Forward
  <2>2. cur'[w] \notin todo'[w] /\ \A i \in Warmups \ {s} : i # cur'[w]
    <3>1. todo[w] \subseteq Warmups
      BY DEF TypeOK
    <3> QED
      BY <1>1, <1>2, <3>1, SetsAssumption
  <2> QED
    BY <1>1, <1>2, <2>1, <2>2, OneOnward
<1>3. ASSUME NEW s \in Warmups, Postpone(w, s) \/ GateBlocks(w, s) \/ CyclesEnd(w, s)
      PROVE  Onward(w)'
  <2>1. PICK new \in Rows : Flush(w, s, new) /\ Short(w, s, new)
    BY <1>3, LookWrites
  <2>2. Looks(w, s) /\ UNCHANGED cur
    BY <1>3 DEF Postpone, GateBlocks, CyclesEnd
  <2>3. SameProgress(mine[w][s], new)
    BY <2>1 DEF Short, SameProgress
  <2> QED
    BY <1>1, <1>2, <2>1, <2>2, <2>3, FlushOnward
<1>4. ASSUME NEW s \in Warmups, NEW xs \in SUBSET Actions, OpenWindow(w, s, xs)
      PROVE  Onward(w)'
  <2>1. Looks(w, s) /\ cur'[w] = s
    BY <1>4 DEF OpenWindow, TypeOK
  <2>2. CASE UNCHANGED <<mine, cols>>
    <3>1. Loaded(w, s)'
      BY <1>1, <2>1, <2>2 DEF Loaded, SameProgress
    <3> QED
      BY <1>2, <2>1, <2>2, <3>1
  <2>3. ASSUME NEW new \in Rows, Flush(w, s, new), Short(w, s, new) PROVE Onward(w)'
    <3>1. SameProgress(mine[w][s], new)
      BY <2>3 DEF Short, SameProgress
    <3> QED
      BY <1>1, <1>2, <2>1, <2>3, <3>1, FlushOnward
  <2> QED
    BY <1>4, <2>2, <2>3, OpenWrites
<1> QED
  BY <1>3, <1>4 DEF Look

LEMMA CloseOnward ==
  ASSUME TypeOK, NEW w \in Workers, Onward(w), Close(w)
  PROVE  Onward(w)'
<1>1. PICK new \in Rows : Closes(w, new) /\ Ending(w, new)
  BY CloseWrites
<1>2. PICK c \in Warmups : c = cur[w] /\ c # None /\ phase[w] = "working"
  BY DEF TypeOK, Close, TripBreaker, CloseWindow, EndDay, Complete, Tried
<1>4. /\ UNCHANGED <<row, phase, todo>> /\ cur'[w] = None /\ mine'[w][c] = new
      /\ \A s \in Warmups \ {c} : mine'[w][s] = mine[w][s] /\ cols'[w][s] = cols[w][s]
  BY <1>1, <1>2 DEF Closes, Flush, TypeOK
<1>5. SameProgress(row[c], mine[w][c]) /\ c \notin todo[w] /\ None \notin todo[w]
  BY <1>2, SetsAssumption DEF Onward, Loaded, TypeOK
<1>6. mine[w][c] \in Rows /\ row[c] \in Rows
  BY <1>2 DEF TypeOK
<1>7. new.day >= row[c].day
  <2>1. new.day = mine[w][c].day \/ new.day = mine[w][c].day + 1
    BY <1>1, <1>2 DEF Ending
  <2>2. mine[w][c].day \in Nat /\ row[c].day = mine[w][c].day
    BY <1>5, <1>6 DEF Rows, Days, SameProgress
  <2> QED
    BY <2>1, <2>2
<1>8. ASSUME NEW k \in Slots PROVE new.counts[k] >= row[c].counts[k]
  <2>1. Counted(w).counts[k] =
          mine[w][c].counts[k] + (IF k[1] = mine[w][c].day /\ k[2] \in good[w] THEN 1 ELSE 0)
    BY <1>2, <1>6, CountedType
  <2>2. mine[w][c].counts[k] \in Nat /\ row[c].counts = mine[w][c].counts
    BY <1>5, <1>6 DEF Rows, SameProgress
  <2>3. new.counts = Counted(w).counts
    BY <1>1 DEF Ending
  <2> QED
    BY <2>1, <2>2, <2>3
<1>9. Forward(w, c)'
  BY <1>4, <1>7, <1>8 DEF Forward
<1>10. /\ todo'[w] \subseteq todo[w] /\ cur'[w] \notin todo'[w]
       /\ c \notin todo'[w] /\ c # cur'[w] /\ \A s \in Warmups : s # cur'[w]
  BY <1>2, <1>4, <1>5, SetsAssumption
<1> QED
  BY <1>2, <1>4, <1>9, <1>10, OneOnward

LEMMA StaggerOnward ==
  ASSUME TypeOK, Shape, NEW w \in Workers, Onward(w), NEW s \in Warmups, EnqueueAt(w, s)
  PROVE  Onward(w)'
<1>1. /\ UNCHANGED <<row, phase>> /\ cur'[w] = None /\ todo'[w] = todo[w] \ {s}
      /\ cols'[w][s] = {"next"}
      /\ \A i \in Warmups \ {s} : mine'[w][i] = mine[w][i] /\ cols'[w][i] = cols[w][i]
  BY DEF EnqueueAt, Shape, TypeOK
<1>2. todo'[w] \subseteq todo[w] /\ s \notin todo'[w] /\ None \notin todo'[w] /\ s # None
  BY <1>1, SetsAssumption DEF TypeOK
<1>3. Forward(w, s)' /\ "day" \notin cols'[w][s] /\ "counts" \notin cols'[w][s]
  BY <1>1 DEF Forward
<1>4. \A i \in Warmups : i # None
  BY SetsAssumption
<1> QED
  BY <1>1, <1>2, <1>3, <1>4, OneOnward

LEMMA ActOnward ==
  ASSUME TypeOK, NEW w \in Workers, Onward(w), NEW x \in Actions, NEW answer \in Answers,
         Act(w, x, answer)
  PROVE  Onward(w)'
  BY DEF Act, Onward, Loaded, Forward, SameProgress

LEMMA OnwardNext ==
  ASSUME NEW w, Workers = {w}, TypeOK, Shape, Onward(w), [Next]_vars
  PROVE  Onward(w)'
<1>0. w \in Workers /\ \A v \in Workers : v = w
  OBVIOUS
<1>1. CASE UNCHANGED worker /\ \A v \in Workers : ~Commit(v)
  BY <1>0, <1>1, OnlyCommits, OthersOnward
<1>2. CASE Commit(w) \/ EnqueueRefused(w) \/ Raise(w) \/ Die(w)
  BY <1>0, <1>2, ResetOnward DEF Commit, EnqueueRefused, Raise, Die
<1>3. CASE Tick(w)
  <2>1. {s \in Warmups : Due(row[s])} \in SUBSET Warmups
    OBVIOUS
  <2> QED
    BY <1>0, <1>3, <2>1, BeginOnward DEF Tick
<1>4. ASSUME NEW s \in Warmups, TakeJob(w, s), ~UNCHANGED worker PROVE Onward(w)'
  <2>1. phase[w] = "idle" /\ Begin(w, {s}, "working") /\ UNCHANGED row
    BY <1>4 DEF TakeJob
  <2> QED
    BY <1>0, <2>1, BeginOnward
<1>5. ASSUME NEW s \in Warmups, EnqueueAt(w, s) PROVE Onward(w)'
  BY <1>0, <1>5, StaggerOnward
<1>6. CASE Look(w)
  BY <1>0, <1>6, LookOnward
<1>7. ASSUME NEW x \in Actions, NEW answer \in Answers, Act(w, x, answer) PROVE Onward(w)'
  BY <1>0, <1>7, ActOnward
<1>8. CASE Close(w)
  BY <1>0, <1>8, CloseOnward
<1>9. ASSUME NEW s \in Warmups, Create(s) \/ EnqueueFails(s) \/ TimeComes(s) \/ Promote(s)
      PROVE  UNCHANGED worker
  BY <1>9 DEF Create, EnqueueFails, TimeComes, Promote
<1>10. ASSUME NEW q \in Requests, Land(q) \/ \E op, s : Ask(q, op, s) PROVE UNCHANGED worker
  BY <1>10 DEF Land, Ask
<1>11. UNCHANGED vars => UNCHANGED worker
  BY DEF vars
<1> QED
  BY <1>0, <1>1, <1>2, <1>3, <1>4, <1>5, <1>6, <1>7, <1>8, <1>9, <1>10, <1>11 DEF Next, Work

LEMMA ProgressStep ==
  ASSUME NEW w, Workers = {w}, TypeOK, TypeOK', Onward(w), [Next]_vars
  PROVE  \A s \in Warmups : NoLess(row[s], row'[s])
<1>1. \A s \in Warmups : row[s] \in Rows /\ row'[s] \in Rows
  BY DEF TypeOK
<1>2. CASE Commit(w)
  <2> SUFFICES ASSUME NEW s \in Warmups PROVE NoLess(row[s], row'[s])
    OBVIOUS
  <2>1. mine[w][s] \in Rows /\ row'[s] = Merged(row[s], mine[w][s], cols[w][s])
    BY <1>2 DEF TypeOK, Commit
  <2>2. /\ row'[s].day = IF "day" \in cols[w][s] THEN mine[w][s].day ELSE row[s].day
        /\ row'[s].counts = IF "counts" \in cols[w][s] THEN mine[w][s].counts ELSE row[s].counts
    BY <1>1, <2>1, MergedType
  <2>3. Forward(w, s)
    BY DEF Onward
  <2>4. row[s].day \in Nat /\ \A k \in Slots : row[s].counts[k] \in Nat
    BY <1>1 DEF Rows, Days
  <2>5. row'[s].day >= row[s].day
    BY <2>2, <2>3, <2>4 DEF Forward
  <2>6. \A k \in Slots : row'[s].counts[k] >= row[s].counts[k]
    BY <2>2, <2>3, <2>4 DEF Forward
  <2> QED
    BY <2>5, <2>6 DEF NoLess
<1>3. CASE ~Commit(w)
  <2>1. \A v \in Workers : ~Commit(v)
    BY <1>3
  <2> QED
    BY <1>1, <2>1, OnlyCommits, SameIsNoLess
<1> QED
  BY <1>2, <1>3

\* With one worker, a session never loses a day or a count of what it has done:
\* its open window and the sessions it has yet to look at are as in the rows,
\* whatever operators, the monitor and the clock write meanwhile.
THEOREM ProgressIsKept == ASSUME NEW w, Workers = {w} PROVE Spec => ProgressKept
<1> DEFINE IInv == TypeOK /\ Shape /\ Onward(w)
<1>1. Init => IInv
  BY TypeInit, ShapeInit, OnwardInit
<1>2. IInv /\ [Next]_vars => IInv'
  BY TypeNext, ShapeNext, OnwardNext
<1>3. IInv /\ IInv' /\ [Next]_vars =>
        [\A s \in Warmups : /\ row'[s].day >= row[s].day
                            /\ \A k \in Slots : row'[s].counts[k] >= row[s].counts[k]]_vars
  BY ProgressStep DEF NoLess
<1> QED
  BY <1>1, <1>2, <1>3, PTL DEF Spec, ProgressKept
=============================================================================
