------------------------ MODULE ProfileRunJournalProofs -------------------------
(***************************************************************************)
(* Theorems about what a run of ProfileRun leaves in the journal and on    *)
(* the account, for any plan: EffectsJournaled, ChildEndsFirst and         *)
(* HardStopFlags for either workflow, RowsSettled for a profile job and    *)
(* PartialMeansBoth for an account update, each of which the other         *)
(* workflow's classification breaks.                                       *)
(*                                                                         *)
(* ProfileRunProofs follows one kind of line, the uncertain one, from the  *)
(* child to the verdict. Here all of them count: a step that was announced *)
(* and not answered is the last one (Dialogue), and no orderly exit and no *)
(* failure leaves one (Stops); a row is STARTED only where the lines read  *)
(* have no answer (RowsFollow); and a run that is finalized has read every *)
(* line (Kept).                                                            *)
(***************************************************************************)
EXTENDS ProfileRunProofs

Results == {"succeeded", "uncertain", "failed"}
Failures == {"failed", "runtime_failed"}
Ended == {"closing", "eof", "exited"}

Announced(i) == \E k \in 1 .. Len(emitted) : emitted[k].type = "started" /\ emitted[k].step = i
Answered(i) == \E k \in 1 .. Len(emitted) : emitted[k].type \in Results /\ emitted[k].step = i

\* The child has announced a step before it acts on it, and answered it before it goes
\* on to the next. What it called succeeded took effect.
Dialogue ==
  /\ \A i \in Steps : Announced(i) \/ Answered(i) => i <= at /\ (child = "announcing" => i # at)
  /\ \A i \in 1 .. at : i # at => Answered(i)
  /\ child = "acting" => Announced(at)
  /\ \A i \in applied : Announced(i)
  /\ \A k, l \in 1 .. Len(emitted) :
       emitted[k].type = "started" /\ emitted[l].type \in Results /\ emitted[k].step = emitted[l].step
         => k < l
  /\ \A k \in 1 .. Len(emitted) : emitted[k].type = "succeeded" => emitted[k].step \in applied

\* After an answer that was no success, and at an orderly exit, no step is open.
Stops ==
  /\ at \in Steps /\ Answered(at) =>
       child \in Ended \/ (child = "reporting" /\ outbox[1].type = "runtime_failed")
  /\ child = "reporting" /\ outbox[1].type = "runtime_failed" => at = 0 \/ Answered(at)
  /\ child = "closing" \/ exit \in {"ok", "uncertain"} => at = 0 \/ Answered(at)
  /\ Printed("failed") => at \in Steps /\ Answered(at)
  /\ Printed("runtime_failed") => child \in Ended /\ (at = 0 \/ Answered(at))
  /\ child = "closing" /\ Printed("failed") => Printed("runtime_failed")
  /\ exit \in {"ok", "uncertain"} => ~Printed("failed") /\ ~Printed("runtime_failed")
  /\ exit # "usage"

\* What the worker knows comes from the lines it has read.
RowsFollow ==
  /\ \A i \in Steps : rows[i] = "STARTED" =>
       /\ \E k \in 1 .. consumed : emitted[k].type = "started" /\ emitted[k].step = i
       /\ \A k \in 1 .. consumed : ~(emitted[k].type \in Results /\ emitted[k].step = i)
  /\ \A k \in 1 .. consumed : emitted[k].type \in DOMAIN RowStatus => rows[emitted[k].step] # "none"
  /\ \A i \in Steps : rows[i] = "SUCCEEDED" => i \in applied
  /\ seen.hardStop => seen.runtimeFailed /\ \E k \in 1 .. consumed : emitted[k].type \in Failures

NoneStarted == \A i \in Steps : rows[i] # "STARTED"
Both ==
  /\ \E i \in applied : rows[i] = "SUCCEEDED"
  /\ \E i \in Steps : rows[i] \notin {"none", "SUCCEEDED"}

\* What the conclusion rests on stays true until the job has its verdict, and after.
Kept ==
  /\ worker \in {"launching", "reading", "waiting"} => ending = NoEnding
  /\ Finalized => child = "exited" /\ \A i \in applied : rows[i] # "none"
  /\ Finalized /\ seen.hardStop => flagged \/ worker \in {"flagging", "dead"}
  /\ Workflow = "profile" =>
       /\ worker \in {"flagging", "concluding"} /\ ending.reason # "malformed_child_event" => NoneStarted
       /\ RowsSettled
  /\ Workflow = "account_update" =>
       (ending.state = "PARTIALLY_COMPLETED" \/ job.state = "PARTIALLY_COMPLETED" => Both)

JInv == Dialogue /\ Stops /\ RowsFollow /\ Kept /\ ChildEndsFirst

--------------------------------------------------------------------------------
\* Lines

\* What one more line adds to what the child has said.
LEMMA OneMoreLine ==
  ASSUME TypeOK, NEW line \in Event, emitted' = Append(emitted, line)
  PROVE  /\ \A i : Announced(i)' <=> Announced(i) \/ (line.type = "started" /\ line.step = i)
         /\ \A i : Answered(i)' <=> Answered(i) \/ (line.type \in Results /\ line.step = i)
         /\ \A t : Printed(t)' <=> Printed(t) \/ line.type = t
<1>1. /\ Len(emitted) \in Nat /\ Len(emitted') = Len(emitted) + 1
      /\ emitted'[Len(emitted) + 1] = line
      /\ \A k \in 1 .. Len(emitted) : emitted'[k] = emitted[k]
  BY DEF TypeOK
<1>2. 1 .. Len(emitted') = (1 .. Len(emitted)) \cup {Len(emitted) + 1}
  BY <1>1
<1> QED
  BY <1>1, <1>2 DEF Announced, Answered, Printed

LEMMA NoMoreLines ==
  ASSUME emitted' = emitted
  PROVE  /\ \A i : Announced(i)' <=> Announced(i)
         /\ \A i : Answered(i)' <=> Answered(i)
         /\ \A t : Printed(t)' <=> Printed(t)
  BY DEF Announced, Answered, Printed

\* The parts of Dialogue that speak of two lines, or of one and of Telegram.
Ordered ==
  /\ \A k, l \in 1 .. Len(emitted) :
       emitted[k].type = "started" /\ emitted[l].type \in Results /\ emitted[k].step = emitted[l].step
         => k < l
  /\ \A k \in 1 .. Len(emitted) : emitted[k].type = "succeeded" => emitted[k].step \in applied

LEMMA OrderedStays ==
  ASSUME TypeOK, Ordered, NEW line \in Event, emitted' = Append(emitted, line),
         line.type = "started" => ~Answered(line.step),
         line.type = "succeeded" => line.step \in applied, applied \subseteq applied'
  PROVE  Ordered'
<1>1. /\ Len(emitted) \in Nat /\ Len(emitted') = Len(emitted) + 1
      /\ emitted'[Len(emitted) + 1] = line
      /\ \A k \in 1 .. Len(emitted) : emitted'[k] = emitted[k]
  BY DEF TypeOK
<1>2. ASSUME NEW k \in 1 .. Len(emitted'), NEW l \in 1 .. Len(emitted'),
             emitted'[k].type = "started", emitted'[l].type \in Results,
             emitted'[k].step = emitted'[l].step
      PROVE  k < l
  <2>1. CASE k \in 1 .. Len(emitted) /\ l \in 1 .. Len(emitted)
    BY <1>1, <1>2, <2>1 DEF Ordered
  <2>2. CASE k = Len(emitted) + 1
    <3>1. emitted'[k] = line /\ l # k
      BY <1>1, <1>2, <2>2 DEF Results
    <3>2. l \in 1 .. Len(emitted)
      BY <1>1, <2>2, <3>1
    <3> QED
      BY <1>1, <1>2, <3>1, <3>2 DEF Answered
  <2>3. CASE k \in 1 .. Len(emitted) /\ l = Len(emitted) + 1
    BY <1>1, <2>3
  <2> QED
    BY <1>1, <2>1, <2>2, <2>3
<1>3. \A k \in 1 .. Len(emitted') : emitted'[k].type = "succeeded" => emitted'[k].step \in applied'
  BY <1>1 DEF Ordered
<1> QED
  BY <1>2, <1>3 DEF Ordered

LEMMA OrderedKept ==
  ASSUME Ordered, emitted' = emitted, applied \subseteq applied'
  PROVE  Ordered'
  BY DEF Ordered

--------------------------------------------------------------------------------
\* The child

\* Going on to the next step, or to the end, once the last one was answered.
LEMMA ProceedDialogue ==
  ASSUME TypeOK, Proceed,
         \A i \in Steps : Announced(i) \/ Answered(i) => i <= at,
         \A i \in 1 .. at : Answered(i), ~Printed("failed"), ~Printed("runtime_failed")
  PROVE  /\ at' \in Nat /\ child' \in {"announcing", "closing"}
         /\ \A i \in Steps : Announced(i) \/ Answered(i) => i <= at' /\ (child' = "announcing" => i # at')
         /\ \A i \in 1 .. at' : i # at' => Answered(i)
         /\ child' = "announcing" => at' \in Steps /\ ~Answered(at')
         /\ child' = "closing" => at' = at /\ (at' = 0 \/ Answered(at'))
<1> USE PlanFacts DEF TypeOK, Steps
<1>1. CASE at < Len(Plan)
  <2>1. child' = "announcing" /\ at' = at + 1
    BY <1>1 DEF Proceed
  <2>2. at' \in Steps /\ ~Answered(at')
    BY <1>1, <2>1
  <2> QED
    BY <1>1, <2>1, <2>2
<1>2. CASE ~(at < Len(Plan))
  BY <1>2 DEF Proceed
<1> QED
  BY <1>1, <1>2

LEMMA DialogueInit == Init => Dialogue /\ Stops
  BY DEF Init, Dialogue, Stops, Announced, Answered, Printed, Ended

\* A child that says nothing and stays where it is in the plan keeps the dialogue.
LEMMA SilentStep ==
  ASSUME TypeOK, Dialogue, Stops, emitted' = emitted, at' = at, applied \subseteq applied',
         \A i \in applied' : i \in applied \/ Announced(i),
         child' = "announcing" => child = "announcing",
         child' = "acting" => child = "acting",
         child' = "reporting" => child = "reporting" /\ outbox' = outbox,
         child' = "closing" => child = "closing",
         child \in Ended => child' \in Ended,
         child = "reporting" => child' \in Ended \cup {"reporting"},
         exit' \in {"ok", "uncertain"} =>
           \/ exit' = exit
           \/ child = "closing" /\ ~Printed("runtime_failed"),
         exit' # "usage"
  PROVE  Dialogue' /\ Stops'
<1>1. Dialogue'
  <2>1. Ordered'
    BY OrderedKept DEF Dialogue, Ordered
  <2> QED
    BY <2>1, NoMoreLines DEF Dialogue, Ordered
<1>2. Stops'
  BY NoMoreLines DEF Stops, Ended
<1> QED
  BY <1>1, <1>2

LEMMA ChildStepDialogue ==
  ASSUME IInv, Dialogue, Stops, ChildStep
  PROVE  Dialogue' /\ Stops'
<1>0. TypeOK /\ ChildInv
  BY DEF IInv
<1>1. CASE Ready
  <2>1. /\ child = "starting" /\ Proceed /\ UNCHANGED <<applied, outbox, emitted, exit>>
        /\ at = 0 /\ applied = {}
    BY <1>0, <1>1 DEF Ready, ChildInv, Progress
  <2>2. exit = "none"
    BY <1>0, <2>1 DEF ChildInv, Exits
  <2>3. ~Printed("failed") /\ ~Printed("runtime_failed")
    BY <2>1 DEF Stops, Ended, Steps
  <2>4. /\ at' \in Nat /\ child' \in {"announcing", "closing"}
        /\ \A i \in Steps : Announced(i) \/ Answered(i) => i <= at' /\ (child' = "announcing" => i # at')
        /\ \A i \in 1 .. at' : i # at' => Answered(i)
        /\ child' = "announcing" => at' \in Steps /\ ~Answered(at')
        /\ child' = "closing" => at' = at /\ (at' = 0 \/ Answered(at'))
    BY <1>0, <2>1, <2>3, ProceedDialogue DEF Dialogue
  <2>5. Ordered'
    BY <2>1, OrderedKept DEF Dialogue, Ordered
  <2>6. Dialogue'
    BY <2>1, <2>4, <2>5, NoMoreLines DEF Dialogue, Ordered
  <2>7. Stops'
    BY <2>1, <2>2, <2>3, <2>4, NoMoreLines DEF Stops, Ended
  <2> QED
    BY <2>6, <2>7
<1>2. CASE RuntimeFails
  <2>1. /\ child = "starting" /\ child' = "reporting" /\ outbox'[1].type = "runtime_failed"
        /\ UNCHANGED <<at, applied, emitted, exit>> /\ at = 0
    BY <1>0, <1>2 DEF RuntimeFails, ChildInv, Progress, Line
  <2>2. Ordered'
    BY <2>1, OrderedKept DEF Dialogue, Ordered
  <2>3. Dialogue'
    BY <2>1, <2>2, NoMoreLines DEF Dialogue, Ordered
  <2>4. Stops'
    BY <2>1, NoMoreLines DEF Stops, Ended, Steps
  <2> QED
    BY <2>3, <2>4
<1>3. CASE Announce
  <2> DEFINE line == Line("started", at, "none")
  <2>1. /\ child = "announcing" /\ child' = "acting" /\ UNCHANGED <<at, applied, outbox, exit>>
        /\ emitted' = Append(emitted, line) /\ at \in Steps /\ applied = 1 .. (at - 1)
    BY <1>0, <1>3 DEF Announce, ChildInv, Progress
  <2>2. line \in Event /\ line.type = "started" /\ line.step = at
    BY <2>1, PlanFacts DEF Line, Event, EventTypes, Codes, Steps
  <2>3. ~Answered(at)
    BY <2>1 DEF Dialogue
  <2> HIDE DEF line
  <2>4. Ordered'
    BY <1>0, <2>1, <2>2, <2>3, OrderedStays DEF Dialogue, Ordered
  <2>5. /\ \A i : Announced(i)' <=> Announced(i) \/ i = at
        /\ \A i : Answered(i)' <=> Answered(i)
        /\ \A t : Printed(t)' <=> Printed(t) \/ t = "started"
    BY <1>0, <2>1, <2>2, OneMoreLine DEF Results
  <2>6. Dialogue'
    BY <2>1, <2>4, <2>5, PlanFacts DEF Dialogue, Ordered, Steps
  <2>7. Stops'
    BY <2>1, <2>3, <2>5 DEF Stops, Ended
  <2> QED
    BY <2>6, <2>7
<1>4. CASE Act
  <2>1. PICK result \in ResultsOf(Plan[at]) :
          /\ outbox' = result
          /\ applied' = applied \cup {at} \/ applied' = applied
    BY <1>4 DEF Act
  <2>2. /\ child = "acting" /\ child' = "reporting" /\ UNCHANGED <<at, emitted, exit>> /\ at \in Steps
    BY <1>0, <1>4 DEF Act, ChildInv, Progress
  <2>3. result[1].type \in Results
    BY <2>1 DEF ResultsOf, Line, Results
  <2>4. Ordered'
    BY <2>1, <2>2, OrderedKept DEF Dialogue, Ordered
  <2>5. Dialogue'
    BY <2>1, <2>2, <2>4, NoMoreLines DEF Dialogue, Ordered
  <2>6. Stops'
    BY <2>1, <2>2, <2>3, NoMoreLines DEF Stops, Ended, Results
  <2> QED
    BY <2>5, <2>6
<1>6. CASE Pollute
  <2>1. PICK type \in {"garbage", "stray"} : emitted' = Append(emitted, Line(type, 0, "none"))
    BY <1>6 DEF Pollute
  <2> DEFINE line == Line(type, 0, "none")
  <2>2. UNCHANGED <<child, at, applied, outbox, exit>> /\ child \in {"starting", "acting"}
    BY <1>6 DEF Pollute
  <2>3. line \in Event /\ line.type \notin {"started", "failed", "runtime_failed"} \cup Results
    BY DEF Line, Event, EventTypes, Codes, Results
  <2> HIDE DEF line
  <2>4. Ordered'
    BY <1>0, <2>1, <2>2, <2>3, OrderedStays DEF Dialogue, Ordered, Results, line
  <2>5. /\ \A i : Announced(i)' <=> Announced(i)
        /\ \A i : Answered(i)' <=> Answered(i)
        /\ Printed("failed")' <=> Printed("failed")
        /\ Printed("runtime_failed")' <=> Printed("runtime_failed")
    BY <1>0, <2>1, <2>3, OneMoreLine DEF line
  <2>6. Dialogue'
    BY <2>2, <2>4, <2>5 DEF Dialogue, Ordered
  <2>7. Stops'
    BY <2>2, <2>5 DEF Stops, Ended
  <2> QED
    BY <2>6, <2>7
<1>7. CASE PrintFails
  BY <1>0, <1>7, SilentStep DEF PrintFails, Ended
<1>8. CASE CloseClient
  BY <1>0, <1>8, SilentStep DEF CloseClient, Ended
<1>9. CASE ExitChild
  BY <1>0, <1>9, SilentStep DEF ExitChild, Ended, Stops
<1>10. CASE ChildDies
  BY <1>0, <1>10, SilentStep DEF ChildDies, Killed, Ended, Dialogue
<1>5. CASE Report
  <2> DEFINE line == outbox[1]
  <2>1. /\ child = "reporting" /\ emitted' = Append(emitted, line) /\ outbox' = Tail(outbox)
        /\ UNCHANGED <<applied, exit>> /\ line \in Event /\ Len(outbox) \in {1, 2}
    BY <1>0, <1>5 DEF Report, ChildInv, Reports, TypeOK
  <2>2. /\ line.type \in Results \cup {"runtime_failed"}
        /\ line.type \in Results => at \in Steps /\ line.step = at
        /\ line.type = "succeeded" => applied = 1 .. at
    BY <1>0, <2>1 DEF ChildInv, Reports, Results
  <2>3. /\ exit = "none" /\ ~Printed("runtime_failed")
        /\ line.type \in Results => ~Answered(at) /\ ~Printed("failed")
        /\ line.type = "runtime_failed" => at = 0 \/ Answered(at)
    BY <1>0, <2>1, <2>2 DEF ChildInv, Exits, Stops, Ended, Results
  <2> HIDE DEF line
  <2>4. Ordered'
    <3>1. line.type = "succeeded" => line.step \in applied
      BY <2>2, PlanFacts DEF Results, Steps
    <3> QED
      BY <1>0, <2>1, <2>2, <3>1, OrderedStays DEF Dialogue, Ordered, Results
  <2>5. /\ \A i : Announced(i)' <=> Announced(i)
        /\ \A i : Answered(i)' <=> Answered(i) \/ (line.type \in Results /\ i = at)
        /\ Printed("failed")' <=> Printed("failed") \/ line.type = "failed"
        /\ Printed("runtime_failed")' <=> line.type = "runtime_failed"
    BY <1>0, <2>1, <2>2, <2>3, OneMoreLine DEF Results
  <2>6. CASE Len(outbox) = 2
    <3>1. child' = "reporting" /\ at' = at /\ line.type = "failed"
      BY <1>0, <2>1, <2>6, <1>5 DEF Report, ChildInv, Reports, line
    <3>2. outbox'[1].type = "runtime_failed"
      <4>1. ASSUME NEW S, NEW q \in Seq(S), Len(q) = 2
            PROVE  Tail(q)[1] = q[2]
        BY <4>1
      <4>2. outbox'[1] = outbox[2]
        BY <4>1, <2>1, <2>6, <1>0 DEF TypeOK
      <4> QED
        BY <1>0, <4>2, <2>1, <3>1 DEF ChildInv, Reports, line
    <3>3. Dialogue'
      BY <2>1, <2>2, <2>4, <2>5, <3>1 DEF Dialogue, Ordered, Results, Steps
    <3>4. Stops'
      BY <2>1, <2>2, <2>3, <2>5, <3>1, <3>2 DEF Stops, Ended, Results
    <3> QED
      BY <3>3, <3>4
  <2>7. CASE Len(outbox) = 1 /\ line.type = "succeeded"
    <3>1. Proceed /\ applied = 1 .. at /\ at \in Steps
      BY <2>1, <2>2, <2>7, <1>5 DEF Report, line, Results
    <3>2. \A i \in Steps : Announced(i)' \/ Answered(i)' => i <= at
      BY <2>5, <3>1, PlanFacts DEF Dialogue, Steps
    <3>3. \A i \in 1 .. at : Answered(i)'
      BY <2>5, <2>7 DEF Dialogue, Results
    <3>4. /\ child' = "announcing" => at' = at + 1 /\ at' \in Steps
          /\ child' = "closing" => at' = at
          /\ child' \in {"announcing", "closing"}
      BY <1>0, <3>1, PlanFacts DEF Proceed, Steps, TypeOK
    <3>5. CASE child' = "announcing"
      <4>1. at' = at + 1 /\ at' \in Steps /\ at \in Nat
        BY <3>1, <3>4, <3>5, PlanFacts DEF Steps
      <4>2. \A i \in Steps : Announced(i)' \/ Answered(i)' => i <= at' /\ i # at'
        BY <3>2, <4>1, PlanFacts DEF Steps
      <4>3. \A i \in 1 .. at' : i # at' => Answered(i)'
        BY <3>3, <4>1
      <4>4. \A i \in applied' : Announced(i)'
        BY <2>1, <2>5 DEF Dialogue
      <4>5. Dialogue'
        BY <2>4, <3>5, <4>2, <4>3, <4>4 DEF Dialogue, Ordered
      <4>6. ~Answered(at)'
        BY <4>1, <4>2
      <4>7. Stops'
        BY <2>1, <2>3, <2>5, <2>7, <3>5, <4>6 DEF Stops, Ended, Results
      <4> QED
        BY <4>5, <4>7
    <3>6. CASE child' = "closing"
      <4>1. at' = at /\ at \in Nat
        BY <3>1, <3>4, <3>6, PlanFacts DEF Steps
      <4>2. Dialogue'
        BY <2>1, <2>4, <2>5, <3>2, <3>3, <3>6, <4>1 DEF Dialogue, Ordered
      <4>3. Stops'
        BY <2>1, <2>3, <2>5, <2>7, <3>1, <3>6, <4>1 DEF Stops, Ended, Results
      <4> QED
        BY <4>2, <4>3
    <3> QED
      BY <3>4, <3>5, <3>6
  <2>8. CASE Len(outbox) = 1 /\ line.type # "succeeded"
    <3>1. child' = "closing" /\ at' = at /\ line.type \in {"uncertain", "runtime_failed"}
      BY <1>0, <2>1, <2>8, <1>5 DEF Report, ChildInv, Reports, line
    <3>2. Dialogue'
      BY <2>1, <2>2, <2>4, <2>5, <3>1 DEF Dialogue, Ordered, Results, Steps
    <3>3. Stops'
      BY <2>1, <2>2, <2>3, <2>5, <3>1 DEF Stops, Ended, Results
    <3> QED
      BY <3>2, <3>3
  <2> QED
    BY <2>1, <2>6, <2>7, <2>8
<1> QED
  BY <1>1, <1>2, <1>3, <1>4, <1>5, <1>6, <1>7, <1>8, <1>9, <1>10 DEF ChildStep

\* Launching the child and killing it say nothing either.
LEMMA OtherDialogue ==
  ASSUME IInv, Dialogue, Stops, WorkerStep \/ WorkerDies \/ Expire \/ LoseLock \/ Reap \/ UNCHANGED vars
  PROVE  Dialogue' /\ Stops'
<1>0. TypeOK
  BY DEF IInv
<1>1. CASE Launch
  <2>1. child = "none" /\ child' = "starting" /\ UNCHANGED <<at, applied, outbox, emitted, exit>>
    BY <1>1 DEF Launch, IInv, RunInv, AllRead
  <2> QED
    BY <1>0, <2>1, SilentStep DEF Ended, Stops
<1>2. CASE TimeOut /\ Killed
  BY <1>0, <1>2, SilentStep DEF Killed, Ended, Dialogue
<1>3. CASE UNCHANGED childVars
  BY <1>0, <1>3, SilentStep DEF childVars, Stops
<1>4. \/ Launch \/ (TimeOut /\ Killed) \/ UNCHANGED childVars
  BY DEF WorkerStep, ReadEvent, ReadGarbage, ReadStray, ReadEOF, ReapChild, TimeOut, Settle, Flag,
         Conclude, Release, WorkerDies, Expire, LoseLock, Reap, vars, childVars
<1> QED
  BY <1>1, <1>2, <1>3, <1>4

LEMMA ChildStepKept ==
  ASSUME IInv, RowsFollow, Kept, ChildEndsFirst, ChildStep
  PROVE  RowsFollow' /\ Kept' /\ ChildEndsFirst'
<1>1. /\ UNCHANGED <<worker, consumed, seen, ending, rows, job, lock, flagged, overdue>>
      /\ applied \subseteq applied'
      /\ \A k \in 1 .. Len(emitted) : emitted'[k] = emitted[k]
  BY ChildStepExtends DEF IInv, workerVars
<1>2. child # "exited"
  BY DEF ChildStep, Ready, RuntimeFails, Announce, Act, Report, Pollute, PrintFails, CloseClient,
         ExitChild, ChildDies, ChildAlive
<1>3. RowsFollow'
  <2>1. consumed \in Nat /\ \A k \in 1 .. consumed : emitted'[k] = emitted[k]
    BY <1>1 DEF IInv, TypeOK
  <2> QED
    BY <1>1, <2>1 DEF RowsFollow
<1>4. Kept'
  BY <1>1, <1>2 DEF Kept, Finalized, NoneStarted, RowsSettled, Both
<1>5. ChildEndsFirst'
  <2>1. Len(emitted') >= Len(emitted)
    <3>1. \/ emitted' = emitted
          \/ \E line : emitted' = Append(emitted, line)
      BY DEF ChildStep, Ready, RuntimeFails, Announce, Act, Report, Pollute, PrintFails,
             CloseClient, ExitChild, ChildDies, Killed
    <3> QED
      BY <3>1 DEF IInv, TypeOK
  <2>2. \A t : Printed(t) => Printed(t)'
    BY <1>1, <2>1 DEF Printed, IInv, TypeOK
  <2> QED
    BY <1>1, <1>2, <2>2 DEF ChildEndsFirst
<1> QED
  BY <1>3, <1>4, <1>5

--------------------------------------------------------------------------------
\* The worker

\* Settling turns STARTED into UNCERTAIN and leaves the other rows alone.
LEMMA SettledRows ==
  ASSUME IInv, rows' = Settled
  PROVE  /\ NoneStarted'
         /\ \A i \in Steps : rows[i] # "none" => rows'[i] # "none"
         /\ \A i \in Steps : rows'[i] = "SUCCEEDED" <=> rows[i] = "SUCCEEDED"
         /\ \A i \in Steps : rows'[i] = "none" <=> rows[i] = "none"
  BY DEF IInv, TypeOK, NoneStarted, Settled

LEMMA SettledKeeps ==
  ASSUME IInv, RowsFollow, Dialogue, rows' = Settled, UNCHANGED <<emitted, applied, consumed, seen>>
  PROVE  RowsFollow' /\ (Both => Both')
<1>1. \A k \in 1 .. consumed : emitted[k].type \in DOMAIN RowStatus => emitted[k].step \in Steps
  BY DEF IInv, ChildInv, Lines, TypeOK
<1>2. applied \subseteq Steps
  BY DEF IInv, TypeOK
<1>3. RowsFollow'
  BY <1>1, SettledRows DEF RowsFollow, NoneStarted
<1>4. Both => Both'
  BY <1>2, SettledRows DEF Both
<1> QED
  BY <1>3, <1>4

\* A line that is read.
LEMMA ReadEventFollows ==
  ASSUME IInv, Dialogue, RowsFollow, ReadEvent
  PROVE  RowsFollow'
<1> DEFINE line == emitted[consumed + 1]
<1>1. /\ consumed' = consumed + 1 /\ consumed \in Nat /\ consumed + 1 \in 1 .. Len(emitted)
      /\ UNCHANGED <<emitted, applied>> /\ line \in Event
      /\ rows' = Recorded(line) /\ seen' = Noted(line)
  BY DEF IInv, TypeOK, ReadEvent, NextLine, childVars
<1>2. line.type \in DOMAIN RowStatus => line.step \in Steps
  BY <1>1 DEF IInv, ChildInv, Lines
<1>3. DOMAIN RowStatus = {"started", "succeeded", "uncertain", "failed"}
  BY DEF RowStatus
<1>4. 1 .. consumed' = (1 .. consumed) \cup {consumed + 1}
  BY <1>1
<1> HIDE DEF line
<1>5. \A i \in Steps : rows'[i] = IF line.type \in DOMAIN RowStatus /\ line.step = i
                                  THEN RowStatus[line.type] ELSE rows[i]
  BY <1>1, <1>2 DEF Recorded, IInv, TypeOK
<1>6. ASSUME NEW i \in Steps, rows'[i] = "STARTED"
      PROVE  /\ \E k \in 1 .. consumed' : emitted'[k].type = "started" /\ emitted'[k].step = i
             /\ \A k \in 1 .. consumed' : ~(emitted'[k].type \in Results /\ emitted'[k].step = i)
  <2>1. CASE line.type = "started" /\ line.step = i
    <3>1. \A l \in 1 .. Len(emitted) :
            emitted[l].type \in Results /\ emitted[l].step = i => consumed + 1 < l
      BY <1>1, <2>1 DEF Dialogue, line
    <3> QED
      BY <1>1, <1>4, <2>1, <3>1 DEF line, IInv, TypeOK
  <2>2. CASE line.type \in Results /\ line.step = i
    BY <1>3, <1>5, <1>6, <2>2 DEF Results, RowStatus
  <2>3. CASE ~(line.type \in DOMAIN RowStatus /\ line.step = i)
    <3>1. rows[i] = "STARTED"
      BY <1>5, <1>6, <2>3
    <3> QED
      BY <1>1, <1>3, <1>4, <2>3, <3>1 DEF line, RowsFollow, Results
  <2> QED
    BY <1>3, <2>1, <2>2, <2>3 DEF Results
<1>7. ASSUME NEW k \in 1 .. consumed', emitted'[k].type \in DOMAIN RowStatus
      PROVE  rows'[emitted'[k].step] # "none"
  <2>0. k \in 1 .. Len(emitted)
    BY <1>1
  <2>1. emitted[k].step \in Steps
    BY <1>1, <1>7, <2>0 DEF IInv, ChildInv, Lines
  <2>2. k \in 1 .. consumed => rows[emitted[k].step] # "none"
    BY <1>1, <1>7 DEF RowsFollow
  <2>3. \A t \in DOMAIN RowStatus : RowStatus[t] # "none"
    BY DEF RowStatus
  <2>4. k = consumed + 1 => emitted[k] = line
    BY DEF line
  <2> QED
    BY <1>1, <1>4, <1>5, <1>7, <2>1, <2>2, <2>3, <2>4
<1>8. ASSUME NEW i \in Steps, rows'[i] = "SUCCEEDED"
      PROVE  i \in applied'
  <2>1. CASE rows[i] = "SUCCEEDED"
    BY <1>1, <2>1 DEF RowsFollow
  <2>2. CASE rows[i] # "SUCCEEDED"
    <3>1. line.type \in DOMAIN RowStatus /\ line.step = i /\ RowStatus[line.type] = "SUCCEEDED"
      BY <1>5, <1>8, <2>2
    <3>2. line.type = "succeeded"
      BY <1>3, <3>1 DEF RowStatus
    <3> QED
      BY <1>1, <3>1, <3>2 DEF Dialogue, line
  <2> QED
    BY <2>1, <2>2
<1>9. seen'.hardStop =>
        seen'.runtimeFailed /\ \E k \in 1 .. consumed' : emitted'[k].type \in Failures
  <2>1. CASE line.type \in Failures
    BY <1>1, <1>4, <2>1 DEF Noted, Failures, line
  <2>2. CASE line.type \notin Failures
    BY <1>1, <1>4, <2>2 DEF Noted, Failures, RowsFollow
  <2> QED
    BY <2>1, <2>2
<1> QED
  BY <1>6, <1>7, <1>8, <1>9 DEF RowsFollow

\* What the verdict of a run that was read to its end says of its journal.
LEMMA FinalizeFacts ==
  ASSUME NEW w \in Workflows, NEW rs, NEW c, NEW f \in BOOLEAN, NEW h \in BOOLEAN, c # "usage"
  PROVE  LET e == Finalize(w, rs, c, f, h) IN
         /\ e.reason # "malformed_child_event" /\ (e.settle => ~e.flag)
         /\ h /\ f /\ c # "uncertain" => e.flag /\ ~e.settle
         /\ w = "profile" /\ ~e.settle => c \in {"ok", "uncertain"} \/ h
         /\ w = "account_update" /\ e.state = "PARTIALLY_COMPLETED" =>
              Has(rs, "SUCCEEDED") /\ (Has(rs, "FAILED") \/ Has(rs, "UNCERTAIN"))
  BY DEF Finalize, Ending, Classify, ClassifyAccountUpdate, Workflows

\* When every line was read and the child stopped in order, or failed, no row is open.
LEMMA NoneOpen ==
  ASSUME IInv, Dialogue, Stops, RowsFollow, consumed = Len(emitted),
         exit \in {"ok", "uncertain"} \/ seen.hardStop
  PROVE  NoneStarted
<1> SUFFICES ASSUME NEW i \in Steps, rows[i] = "STARTED" PROVE FALSE
  BY DEF NoneStarted
<1>1. Announced(i) /\ ~Answered(i)
  BY DEF RowsFollow, Announced, Answered
<1>2. i <= at /\ at \in Nat
  BY <1>1 DEF Dialogue, IInv, TypeOK
<1>3. i = at
  BY <1>1, <1>2, PlanFacts DEF Dialogue, Steps
<1>4. exit \in {"ok", "uncertain"} \/ Printed("failed") \/ Printed("runtime_failed")
  BY DEF RowsFollow, Printed, Failures
<1>5. at = 0 \/ Answered(at)
  BY <1>4 DEF Stops
<1> QED
  BY <1>1, <1>3, <1>5, PlanFacts DEF Steps

LEMMA ReapChildKept ==
  ASSUME IInv, JInv, ReapChild
  PROVE  RowsFollow' /\ Kept' /\ ChildEndsFirst'
<1> USE DEF JInv
<1>1. /\ worker = "waiting" /\ child = "exited" /\ consumed = Len(emitted)
      /\ UNCHANGED <<child, at, applied, outbox, emitted, exit>>
      /\ UNCHANGED <<consumed, seen, rows, job, lock, flagged, overdue>>
  BY DEF ReapChild, childVars, IInv, RunInv, AllRead
<1> DEFINE e == Finalize(Workflow, Journal, exit, seen.runtimeFailed, seen.hardStop)
<1>2. /\ ending' = e
      /\ worker' = IF e.settle THEN "settling" ELSE IF e.flag THEN "flagging" ELSE "concluding"
  BY DEF ReapChild, Conclusion
<1>3. /\ e.reason # "malformed_child_event" /\ (e.settle => ~e.flag)
      /\ seen.hardStop /\ seen.runtimeFailed /\ exit # "uncertain" => e.flag /\ ~e.settle
      /\ Workflow = "profile" /\ ~e.settle => exit \in {"ok", "uncertain"} \/ seen.hardStop
      /\ Workflow = "account_update" /\ e.state = "PARTIALLY_COMPLETED" =>
           Has(Journal, "SUCCEEDED") /\ (Has(Journal, "FAILED") \/ Has(Journal, "UNCERTAIN"))
  <2>1. seen.runtimeFailed \in BOOLEAN /\ seen.hardStop \in BOOLEAN /\ exit # "usage"
    BY DEF IInv, TypeOK, Stops
  <2> QED
    BY <2>1, FinalizeFacts, WorkflowAssumption
<1> HIDE DEF e
<1>4. job.state = "RUNNING"
  BY <1>1 DEF IInv, RunInv, VerdictFollows
<1>5. \A i \in applied : rows[i] # "none"
  <2> SUFFICES ASSUME NEW i \in applied PROVE rows[i] # "none"
    OBVIOUS
  <2>1. Announced(i)
    BY DEF Dialogue
  <2> QED
    BY <1>1, <2>1 DEF Announced, RowsFollow, RowStatus
<1>6. seen.hardStop => e.flag /\ ~e.settle
  <2>1. ASSUME seen.hardStop PROVE seen.runtimeFailed /\ exit # "uncertain"
    <3>1. Printed("failed") \/ Printed("runtime_failed")
      BY <1>1, <2>1 DEF RowsFollow, Printed, Failures
    <3> QED
      BY <2>1, <3>1 DEF Stops, RowsFollow
  <2> QED
    BY <1>3, <2>1
<1>7. Workflow = "profile" /\ ~e.settle => NoneStarted
  BY <1>1, <1>3, NoneOpen
<1>8. Workflow = "account_update" /\ e.state = "PARTIALLY_COMPLETED" => Both
  <2> SUFFICES ASSUME Has(Journal, "SUCCEEDED"), Has(Journal, "FAILED") \/ Has(Journal, "UNCERTAIN")
      PROVE  Both
    BY <1>3
  <2>1. \E i \in Steps : rows[i] = "SUCCEEDED"
    BY DEF Has, Journal
  <2>2. \E i \in Steps : rows[i] \in {"FAILED", "UNCERTAIN"}
    BY DEF Has, Journal
  <2> QED
    BY <2>1, <2>2 DEF Both, RowsFollow
<1>9. RowsFollow'
  BY <1>1 DEF RowsFollow
<1>10. Kept'
  <2>1. job'.state = "RUNNING" /\ "RUNNING" \notin TerminalStates
    BY <1>1, <1>4 DEF TerminalStates
  <2>2. Finalized' => child' = "exited" /\ \A i \in applied' : rows'[i] # "none"
    BY <1>1, <1>5
  <2>3. worker' \in {"settling", "flagging", "concluding"}
    BY <1>2
  <2>4. Workflow = "profile" /\ worker' \in {"flagging", "concluding"} => NoneStarted'
    BY <1>1, <1>2, <1>7 DEF NoneStarted
  <2>5. Workflow = "account_update" /\ ending'.state = "PARTIALLY_COMPLETED" => Both'
    BY <1>1, <1>2, <1>8 DEF Both
  <2>6. seen'.hardStop => worker' = "flagging"
    BY <1>1, <1>2, <1>6
  <2> QED
    BY <2>1, <2>2, <2>3, <2>4, <2>5, <2>6 DEF Kept, RowsSettled
<1>11. ChildEndsFirst'
  BY <1>1 DEF ChildEndsFirst
<1> QED
  BY <1>9, <1>10, <1>11

LEMMA WorkerStepKept ==
  ASSUME IInv, JInv, WorkerStep
  PROVE  RowsFollow' /\ Kept' /\ ChildEndsFirst'
<1> USE DEF JInv
<1>0. /\ "RUNNING" \notin TerminalStates
      /\ worker \in {"launching", "reading", "waiting", "settling", "flagging", "concluding"}
           => job.state = "RUNNING"
  BY DEF TerminalStates, IInv, RunInv, VerdictFollows
<1>1. CASE Launch
  <2>1. RowsFollow'
    BY <1>1 DEF Launch, RowsFollow
  <2>2. Kept' /\ ChildEndsFirst'
    BY <1>0, <1>1 DEF Launch, Kept, NoEnding, Ending, Finalized, RowsSettled, ChildEndsFirst
  <2> QED
    BY <2>1, <2>2
<1>2. CASE ReadEvent
  <2>1. RowsFollow'
    BY <1>2, ReadEventFollows
  <2>2. Kept' /\ ChildEndsFirst'
    BY <1>0, <1>2 DEF ReadEvent, childVars, Kept, NoEnding, Ending, Finalized, RowsSettled, ChildEndsFirst
  <2> QED
    BY <2>1, <2>2
<1>3. CASE ReadGarbage \/ ReadStray
  <2>1. /\ worker = "reading" /\ consumed' = consumed + 1 /\ consumed < Len(emitted)
        /\ UNCHANGED <<child, at, applied, outbox, emitted, exit, seen, rows, job, flagged>>
        /\ emitted[consumed + 1].type \in {"garbage", "stray"}
    BY <1>3 DEF ReadGarbage, ReadStray, NextLine, childVars
  <2>2. consumed \in Nat /\ consumed + 1 \in 1 .. Len(emitted)
    BY <2>1 DEF IInv, TypeOK
  <2>3. 1 .. (consumed + 1) = (1 .. consumed) \cup {consumed + 1}
    BY <2>2
  <2>4. {"garbage", "stray"} \cap (Results \cup DOMAIN RowStatus \cup {"started"}) = {}
    BY DEF Results, RowStatus
  <2>5. RowsFollow'
    BY <2>1, <2>2, <2>3, <2>4 DEF RowsFollow
  <2>6. Kept'
    <3>1. /\ worker' \in {"concluding", "releasing"}
          /\ ending' = Ending("FAILED", "malformed_child_event", FALSE, FALSE)
               \/ (ending' = ending /\ worker' = "releasing")
      BY <1>3 DEF ReadGarbage, ReadStray
    <3>2. ~Finalized' /\ ending'.state # "PARTIALLY_COMPLETED"
      BY <2>1, <3>1 DEF Finalized, Ending, Kept, NoEnding
    <3>3. worker' = "concluding" => ending'.reason = "malformed_child_event"
      BY <3>1 DEF Ending
    <3> QED
      BY <1>0, <2>1, <3>1, <3>2, <3>3 DEF Kept, RowsSettled
  <2>7. ChildEndsFirst'
    BY <2>1, <2>2 DEF ChildEndsFirst, Printed
  <2> QED
    BY <2>5, <2>6, <2>7
<1>4. CASE ReadEOF
  <2>1. RowsFollow'
    BY <1>4 DEF ReadEOF, childVars, RowsFollow
  <2>2. Kept' /\ ChildEndsFirst'
    BY <1>0, <1>4 DEF ReadEOF, childVars, Kept, NoEnding, Ending, Finalized, RowsSettled, ChildEndsFirst
  <2> QED
    BY <2>1, <2>2
<1>5. CASE ReapChild
  BY <1>5, ReapChildKept
<1>6. CASE TimeOut
  <2>1. /\ worker \in {"reading", "waiting"} /\ child' = "exited"
        /\ UNCHANGED <<consumed, seen, rows, job, flagged, emitted>> /\ applied \subseteq applied'
    BY <1>6 DEF TimeOut, Killed, childVars
  <2>2. ending' = Ending("FAILED", "child_process_timeout", TRUE, FALSE) /\ worker' = "settling"
    BY <1>6 DEF TimeOut, Conclusion, Ending
  <2>3. RowsFollow'
    BY <2>1 DEF RowsFollow
  <2>4. Kept' /\ ChildEndsFirst'
    BY <1>0, <2>1, <2>2 DEF Ending, Kept, Finalized, RowsSettled, ChildEndsFirst
  <2> QED
    BY <2>3, <2>4
<1>7. CASE Settle
  <2>1. /\ worker = "settling" /\ worker' = "concluding" /\ rows' = Settled
        /\ UNCHANGED <<child, applied, emitted, consumed, seen, ending, job, flagged>>
    BY <1>7 DEF Settle, childVars
  <2>2. RowsFollow' /\ (Both => Both')
    BY <2>1, SettledKeeps
  <2>3. NoneStarted' /\ \A i \in Steps : rows[i] # "none" => rows'[i] # "none"
    BY <2>1, SettledRows
  <2>4. applied \subseteq Steps
    BY DEF IInv, TypeOK
  <2>5. Kept'
    BY <2>1, <2>2, <2>3, <2>4 DEF Kept, Finalized, RowsSettled, NoneStarted
  <2>6. ChildEndsFirst'
    BY <2>1 DEF ChildEndsFirst, Printed
  <2> QED
    BY <2>2, <2>5, <2>6
<1>8. CASE Flag
  <2>1. RowsFollow'
    BY <1>8 DEF Flag, childVars, RowsFollow
  <2>2. Kept'
    BY <1>8 DEF Flag, childVars, Kept, Finalized, RowsSettled, NoneStarted, Both
  <2>3. ChildEndsFirst'
    BY <1>8 DEF Flag, childVars, ChildEndsFirst, Printed
  <2> QED
    BY <2>1, <2>2, <2>3
<1>9. CASE Conclude
  <2>1. /\ worker = "concluding" /\ worker' = "releasing"
        /\ job' = IF lock = "mine" THEN [state |-> ending.state, reason |-> ending.reason] ELSE job
        /\ UNCHANGED <<child, applied, emitted, consumed, seen, ending, rows, flagged>>
    BY <1>9 DEF Conclude, childVars
  <2>2. RowsFollow'
    BY <2>1 DEF RowsFollow
  <2>3. Workflow = "profile" => RowsSettled'
    BY <1>0, <2>1 DEF Kept, RowsSettled, NoneStarted
  <2>4. Workflow = "account_update" /\ job'.state = "PARTIALLY_COMPLETED" => Both'
    BY <1>0, <2>1 DEF Kept, Both
  <2>5. Kept'
    BY <2>1, <2>3, <2>4 DEF Kept, Finalized, Both
  <2>6. ChildEndsFirst'
    BY <2>1 DEF ChildEndsFirst, Printed
  <2> QED
    BY <2>2, <2>5, <2>6
<1>10. CASE Release
  <2>1. RowsFollow'
    BY <1>10 DEF Release, childVars, RowsFollow
  <2>2. Kept'
    BY <1>10 DEF Release, childVars, Kept, Finalized, RowsSettled, NoneStarted, Both
  <2>3. ChildEndsFirst'
    BY <1>10 DEF Release, childVars, ChildEndsFirst, Printed
  <2> QED
    BY <2>1, <2>2, <2>3
<1> QED
  BY <1>1, <1>2, <1>3, <1>4, <1>5, <1>6, <1>7, <1>8, <1>9, <1>10 DEF WorkerStep

LEMMA OtherStepKept ==
  ASSUME IInv, JInv, WorkerDies \/ Expire \/ LoseLock \/ Reap \/ UNCHANGED vars
  PROVE  RowsFollow' /\ Kept' /\ ChildEndsFirst'
<1> USE DEF JInv
<1>1. CASE WorkerDies \/ Expire \/ LoseLock \/ UNCHANGED vars
  <2>1. /\ UNCHANGED <<child, applied, emitted, consumed, seen, ending, rows, job, flagged>>
        /\ worker' \in {worker, "dead"}
    BY <1>1 DEF WorkerDies, Expire, LoseLock, vars, childVars
  <2>2. RowsFollow'
    BY <2>1 DEF RowsFollow
  <2>3. Kept'
    BY <2>1 DEF Kept, Finalized, RowsSettled, NoneStarted, Both
  <2>4. ChildEndsFirst'
    BY <2>1 DEF ChildEndsFirst, Printed
  <2> QED
    BY <2>2, <2>3, <2>4
<1>2. CASE Reap
  <2>1. /\ worker \in {"gone", "dead"} /\ rows' = Settled
        /\ job' = [state |-> "FAILED", reason |-> "worker_timeout"]
        /\ UNCHANGED <<child, applied, emitted, worker, consumed, seen, ending, flagged>>
    BY <1>2 DEF Reap, childVars
  <2>2. RowsFollow' /\ (Both => Both')
    BY <2>1, SettledKeeps
  <2>3. NoneStarted' /\ \A i \in Steps : rows[i] # "none" => rows'[i] # "none"
    BY <2>1, SettledRows
  <2>4. applied \subseteq Steps
    BY DEF IInv, TypeOK
  <2>5. Kept'
    BY <2>1, <2>2, <2>3, <2>4 DEF Kept, Finalized, RowsSettled, NoneStarted
  <2>6. ChildEndsFirst'
    BY <2>1 DEF ChildEndsFirst, Printed
  <2> QED
    BY <2>2, <2>5, <2>6
<1> QED
  BY <1>1, <1>2

--------------------------------------------------------------------------------
\* The theorems

LEMMA JournalInit == Init => JInv
<1> SUFFICES ASSUME Init PROVE JInv
  OBVIOUS
<1>1. RowsFollow
  BY DEF Init, RowsFollow
<1>2. Kept /\ ChildEndsFirst
  BY DEF Init, Kept, NoEnding, Ending, Finalized, RowsSettled, TerminalStates, ChildEndsFirst
<1> QED
  BY <1>1, <1>2, DialogueInit DEF JInv

LEMMA JournalNext == IInv /\ JInv /\ [Next]_vars => JInv'
<1> SUFFICES ASSUME IInv, JInv, [Next]_vars PROVE JInv'
  OBVIOUS
<1> USE DEF JInv
<1>1. CASE ChildStep
  BY <1>1, ChildStepDialogue, ChildStepKept
<1>2. CASE WorkerStep
  BY <1>2, OtherDialogue, WorkerStepKept
<1>3. CASE WorkerDies \/ Expire \/ LoseLock \/ Reap \/ UNCHANGED vars
  BY <1>3, OtherDialogue, OtherStepKept
<1> QED
  BY <1>1, <1>2, <1>3 DEF Next

LEMMA JournalInvariance == Spec => []JInv
BY JournalInit, JournalNext, Invariance, PTL DEF Spec

\* Once a job was concluded from its journal, every step that took effect at Telegram
\* has a row, for either workflow and however the child ended.
THEOREM EffectsAreJournaled == Spec => []EffectsJournaled
<1>1. JInv => EffectsJournaled
  BY DEF JInv, Kept, EffectsJournaled
<1> QED
  BY <1>1, JournalInvariance, PTL

\* The child has ended before its job is concluded and the lock given back, unless a
\* line that is no event ended the loop.
THEOREM ChildEndsBeforeRelease == Spec => []ChildEndsFirst
<1>1. JInv => ChildEndsFirst
  BY DEF JInv
<1> QED
  BY <1>1, JournalInvariance, PTL

\* A hard-stop code that was read is on the account when a finalized run is over.
THEOREM HardStopsFlag == Spec => []HardStopFlags
<1>1. JInv => HardStopFlags
  BY DEF JInv, Kept, HardStopFlags
<1> QED
  BY <1>1, JournalInvariance, PTL

\* No step of a concluded profile job is still STARTED, unless a malformed line ended it.
THEOREM ProfileRowsSettled ==
  ASSUME Workflow = "profile"
  PROVE  Spec => []RowsSettled
<1>1. JInv => RowsSettled
  BY DEF JInv, Kept
<1> QED
  BY <1>1, JournalInvariance, PTL

\* A partially completed account update did something and left something.
THEOREM UpdatePartialMeansBoth ==
  ASSUME Workflow = "account_update"
  PROVE  Spec => []PartialMeansBoth
<1>1. JInv => PartialMeansBoth
  BY DEF JInv, Kept, PartialMeansBoth, Both
<1> QED
  BY <1>1, JournalInvariance, PTL

================================================================================
