---------------------------- MODULE ProfileRunProofs ---------------------------
(***************************************************************************)
(* Theorems about ProfileRun for any plan: type correctness, and that a    *)
(* run refines PlanExecution, hence that COMPLETED means every step took   *)
(* effect. For a profile job it does by its state alone; an account update *)
(* may be COMPLETED after its child failed or died (MCCrashedUpdate.cfg),  *)
(* and refines it if that reason is read with the state.                   *)
(*                                                                         *)
(* The verdict is computed from journal rows and an exit code, its meaning *)
(* is about Telegram, and a pipe lies between. The invariant follows the   *)
(* facts along it: what the child has done when it prints a line (Progress,*)
(* Reports), what its lines and its exit code say (Lines, Exits), what     *)
(* the rows say of the lines (JournalFollows), and what the conclusion     *)
(* keeps of the rows (VerdictFollows).                                     *)
(***************************************************************************)
EXTENDS ProfileRun, SequenceTheorems, TLAPS

\* The steps that took effect are the plan's first ones, up to the one the child
\* is at or to the one before it.
Progress ==
  /\ child \in {"none", "starting"} => at = 0
  /\ child \in {"announcing", "acting"} => at \in Steps /\ applied = 1 .. (at - 1)
  /\ applied \in {1 .. at, 1 .. (at - 1)}

\* What a child that is about to print has to print.
Reports ==
  child = "reporting" =>
    /\ Len(outbox) \in {1, 2}
    /\ outbox[1].type \in {"succeeded", "uncertain", "failed", "runtime_failed"}
    /\ outbox[1].type # "runtime_failed" => at \in Steps /\ outbox[1].step = at
    /\ outbox[1].type = "succeeded" => applied = 1 .. at
    /\ IF outbox[1].type = "failed" THEN Len(outbox) = 2 /\ outbox[2].type = "runtime_failed"
                                    ELSE Len(outbox) = 1

\* Lines about steps are about steps of the plan, and an uncertain one is the
\* last line of all.
Lines ==
  \A k \in 1 .. Len(emitted) :
    /\ emitted[k].type \in DOMAIN RowStatus => emitted[k].step \in Steps
    /\ emitted[k].type = "uncertain" => k = Len(emitted) /\ child \in {"closing", "eof", "exited"}

\* The exit code says how far the child got.
Exits ==
  /\ child = "closing" => applied = Steps \/ Printed("runtime_failed") \/ Printed("uncertain")
  /\ exit # "none" => child \in {"eof", "exited"}
  /\ exit = "ok" => applied = Steps
  /\ exit = "uncertain" => Printed("uncertain")

ChildInv == Progress /\ Reports /\ Lines /\ Exits

\* A line that was read and says uncertain has a row that says so.
JournalFollows ==
  \A k \in 1 .. consumed :
    emitted[k].type = "uncertain" => rows[emitted[k].step] = "UNCERTAIN"

\* The worker is waiting for a child that has closed its output, all of it read.
AllRead ==
  /\ worker = "launching" => child = "none"
  /\ worker = "waiting" => consumed = Len(emitted) /\ child \in {"eof", "exited"}

\* COMPLETED is true of the plan, or an account update's whose child failed.
Earned(e) ==
  e.state = "COMPLETED" =>
    applied = Steps \/ (Workflow = "account_update" /\ e.reason = "runtime_failed")

\* The job has one verdict, given at the end, and earned.
VerdictFollows ==
  /\ worker \in {"launching", "reading", "waiting", "settling", "flagging", "concluding"}
       => job.state = "RUNNING"
  /\ worker \in {"settling", "flagging", "concluding"} => ending.state \in TerminalStates
  /\ Earned(ending) /\ Earned(job)

RunInv == JournalFollows /\ AllRead /\ VerdictFollows

IInv == TypeOK /\ ChildInv /\ RunInv

--------------------------------------------------------------------------------
\* The plan, and the kinds of its steps.
LEMMA PlanFacts ==
  /\ Len(Plan) \in Nat /\ Len(Plan) > 0
  /\ \A i \in Steps : Plan[i] \in Kinds
BY PlanAssumption DEF Steps

\* Conclusions are well formed, whatever the journal and the exit.
LEMMA EndingType ==
  ASSUME NEW S, NEW v \in S, NEW r \in Reasons, NEW x \in BOOLEAN, NEW y \in BOOLEAN
  PROVE  Ending(v, r, x, y) \in [state : S, reason : Reasons, settle : BOOLEAN, flag : BOOLEAN]
BY DEF Ending

LEMMA FinalizeType ==
  ASSUME NEW w, NEW rs, NEW c, NEW f, NEW h
  PROVE  Finalize(w, rs, c, f, h)
           \in [state : TerminalStates, reason : Reasons, settle : BOOLEAN, flag : BOOLEAN]
<1>2. ClassifyAccountUpdate(rs) \in TerminalStates
  BY DEF ClassifyAccountUpdate, TerminalStates
<1>3. Classify(w, rs) \in TerminalStates
  BY <1>2 DEF Classify, ClassifyJobOutcome, TerminalStates
<1>4. "MANUAL_INTERVENTION_NEEDED" \in TerminalStates /\ "FAILED" \in TerminalStates
  BY DEF TerminalStates
<1> DEFINE T == [state : TerminalStates, reason : Reasons, settle : BOOLEAN, flag : BOOLEAN]
<1>7. {"execution", "interrupted", "hard_stop", "runtime_failed"} \subseteq Reasons
  BY DEF Reasons
<1>8. ASSUME NEW v \in TerminalStates, NEW r \in Reasons, NEW x \in BOOLEAN, NEW y \in BOOLEAN
      PROVE  Ending(v, r, x, y) \in T
  BY EndingType
<1> HIDE DEF T
<1>5. /\ Ending(Classify(w, rs), "execution", FALSE, FALSE) \in T
      /\ Ending("MANUAL_INTERVENTION_NEEDED", "interrupted", TRUE, FALSE) \in T
      /\ Ending("MANUAL_INTERVENTION_NEEDED", "hard_stop", FALSE, TRUE) \in T
      /\ Ending(ClassifyAccountUpdate(rs), "runtime_failed", FALSE, FALSE) \in T
      /\ Ending("FAILED", "runtime_failed", TRUE, FALSE) \in T
  BY <1>8, <1>2, <1>3, <1>4, <1>7
<1>6. Finalize(w, rs, c, f, h) \in T
  BY <1>5, Zenon DEF Finalize
<1> QED
  BY <1>6 DEF T

\* A job is only COMPLETED after an orderly exit, and after an uncertain one only if no
\* row says so, unless it is an account update's whose child failed.
LEMMA CompletedBy ==
  ASSUME NEW w \in Workflows, NEW rs, NEW c, NEW f, NEW h,
         Finalize(w, rs, c, f, h).state = "COMPLETED"
  PROVE  \/ c = "ok"
         \/ c = "uncertain" /\ ~Has(rs, "UNCERTAIN")
         \/ w = "account_update" /\ Finalize(w, rs, c, f, h).reason = "runtime_failed"
BY DEF Finalize, Ending, Classify, ClassifyJobOutcome, ClassifyAccountUpdate, Workflows

LEMMA InitInv == Init => IInv
<1> SUFFICES ASSUME Init PROVE IInv
  OBVIOUS
<1>1. TypeOK
  <2>1. child \in ChildStates /\ worker \in WorkerStates
    BY DEF Init, ChildStates, WorkerStates, WorkerAlive
  <2>2. at \in 0 .. Len(Plan) /\ applied \subseteq Steps /\ outbox \in Seq(Event)
    BY PlanFacts DEF Init
  <2>3. emitted \in Seq(Event) /\ consumed \in 0 .. Len(emitted)
    BY DEF Init
  <2>4. ending \in [state : {"RUNNING"} \cup TerminalStates, reason : Reasons,
                    settle : BOOLEAN, flag : BOOLEAN]
    <3>1. "RUNNING" \in {"RUNNING"} \cup TerminalStates /\ "none" \in Reasons
      BY DEF Reasons
    <3> QED
      BY <3>1, EndingType DEF Init, NoEnding
  <2>5. rows \in [Steps -> {"none"} \cup StepStatus]
    BY DEF Init
  <2>6. seen \in [runtimeFailed : BOOLEAN, hardStop : BOOLEAN]
    BY DEF Init
  <2>7. job \in [state : {"RUNNING"} \cup TerminalStates, reason : Reasons]
    BY DEF Init, Reasons
  <2> QED
    BY <2>1, <2>2, <2>3, <2>4, <2>5, <2>6, <2>7 DEF Init, TypeOK
<1>2. ChildInv
  BY DEF Init, ChildInv, Progress, Reports, Lines, Exits, Printed
<1>3. RunInv
  BY DEF Init, RunInv, JournalFollows, AllRead, VerdictFollows, Earned, NoEnding, Ending
<1> QED
  BY <1>1, <1>2, <1>3 DEF IInv

--------------------------------------------------------------------------------
\* Types

LEMMA ChildStepType ==
  ASSUME TypeOK, ChildInv, ChildStep
  PROVE  TypeOK'
<1> USE PlanFacts DEF TypeOK, workerVars, ChildStates, ChildAlive, Proceed, Steps
<1>e. \A t \in EventTypes, i \in Nat, c \in Codes : Line(t, i, c) \in Event
  BY DEF Line, Event
<1>x. ExitCodes = {"ok", "failed", "usage", "uncertain", "signal"}
  BY DEF ExitCodes
<1>1. CASE Ready
  BY <1>1 DEF Ready
<1>2. CASE RuntimeFails
  BY <1>2, <1>e DEF RuntimeFails, EventTypes, Codes
<1>3. CASE Announce
  BY <1>3, <1>e DEF Announce, EventTypes, Codes
<1>4. CASE Act
  <2>1. PICK result \in ResultsOf(Plan[at]) :
          /\ outbox' = result
          /\ applied' = applied \cup {at} \/ UNCHANGED applied
    BY <1>4 DEF Act
  <2>2. at \in Nat
    OBVIOUS
  <2>3. result \in Seq(Event)
    <3>1. ASSUME NEW a \in Event, NEW b \in Event
          PROVE  <<a>> \in Seq(Event) /\ <<a, b>> \in Seq(Event)
      OBVIOUS
    <3>2. \/ result = <<Line("succeeded", at, "none")>>
          \/ result = <<Line("uncertain", at, "none")>>
          \/ \E c \in {"soft", "hard"} :
               result = <<Line("failed", at, c), Line("runtime_failed", at, c)>>
      BY <2>1 DEF ResultsOf
    <3>3. /\ Line("succeeded", at, "none") \in Event /\ Line("uncertain", at, "none") \in Event
          /\ \A c \in {"soft", "hard"} :
               Line("failed", at, c) \in Event /\ Line("runtime_failed", at, c) \in Event
      BY <2>2, <1>e DEF EventTypes, Codes
    <3> HIDE DEF TypeOK
    <3> QED
      BY <3>1, <3>2, <3>3
  <2>4. applied' \subseteq Steps
    BY <2>1, <1>4 DEF Act, ChildInv, Progress
  <2> QED
    BY <2>1, <2>3, <2>4, <1>4 DEF Act
<1>5. CASE Report
  <2>1. outbox # <<>> /\ Head(outbox) \in Event /\ Tail(outbox) \in Seq(Event)
    BY <1>5 DEF Report, ChildInv, Reports
  <2>2. emitted' \in Seq(Event) /\ Len(emitted') = Len(emitted) + 1
    BY <2>1, <1>5 DEF Report
  <2>3. child' \in ChildStates /\ at' \in 0 .. Len(Plan)
    BY <1>5 DEF Report
  <2> QED
    BY <2>1, <2>2, <2>3, <1>5 DEF Report
<1>6. CASE Pollute
  BY <1>6, <1>e DEF Pollute, EventTypes, Codes
<1>7. CASE PrintFails
  BY <1>7, <1>x DEF PrintFails
<1>8. CASE CloseClient
  BY <1>8, <1>x DEF CloseClient
<1>9. CASE ExitChild
  BY <1>9 DEF ExitChild
<1>10. CASE ChildDies
  BY <1>10, <1>x DEF ChildDies, Killed, ChildInv, Progress
<1> QED
  BY <1>1, <1>2, <1>3, <1>4, <1>5, <1>6, <1>7, <1>8, <1>9, <1>10 DEF ChildStep
LEMMA WorkerStepType ==
  ASSUME TypeOK, ChildInv, WorkerStep
  PROVE  TypeOK'
<1> USE PlanFacts DEF TypeOK, childVars, WorkerStates, WorkerAlive, Concluding
<1>e. /\ Ending("FAILED", "malformed_child_event", FALSE, FALSE)
           \in [state : TerminalStates, reason : Reasons, settle : BOOLEAN, flag : BOOLEAN]
      /\ Ending("FAILED", "child_process_timeout", TRUE, FALSE)
           \in [state : TerminalStates, reason : Reasons, settle : BOOLEAN, flag : BOOLEAN]
  <2>1. /\ "FAILED" \in TerminalStates
        /\ "malformed_child_event" \in Reasons /\ "child_process_timeout" \in Reasons
    BY DEF TerminalStates, Reasons
  <2> QED
    BY <2>1, EndingType
<1>s. ASSUME NEW e \in [state : TerminalStates, reason : Reasons, settle : BOOLEAN, flag : BOOLEAN]
      PROVE  e \in [state : {"RUNNING"} \cup TerminalStates, reason : Reasons,
                    settle : BOOLEAN, flag : BOOLEAN]
  OBVIOUS
<1>1. CASE Launch
  BY <1>1 DEF Launch, ChildStates, ChildAlive
<1>2. CASE ReadEvent
  <2>1. NextLine \in Event
    BY <1>2 DEF ReadEvent, NextLine
  <2>2. seen' \in [runtimeFailed : BOOLEAN, hardStop : BOOLEAN]
    BY <1>2 DEF ReadEvent, Noted
  <2>3. rows' \in [Steps -> {"none"} \cup StepStatus]
    <3>1. \A type \in DOMAIN RowStatus : RowStatus[type] \in StepStatus
      BY DEF RowStatus, StepStatus
    <3> QED
      BY <1>2, <3>1 DEF ReadEvent, Recorded
  <2>4. consumed' \in 0 .. Len(emitted)
    BY <1>2 DEF ReadEvent
  <2> QED
    BY <2>2, <2>3, <2>4, <1>2 DEF ReadEvent
<1>3. CASE ReadGarbage
  <2>1. consumed' \in 0 .. Len(emitted)
    BY <1>3 DEF ReadGarbage
  <2> QED
    BY <2>1, <1>3, <1>e, <1>s DEF ReadGarbage
<1>4. CASE ReadStray
  BY <1>4 DEF ReadStray
<1>5. CASE ReadEOF
  BY <1>5 DEF ReadEOF
<1>6. CASE ReapChild
  <2>1. ending' \in [state : {"RUNNING"} \cup TerminalStates, reason : Reasons,
                     settle : BOOLEAN, flag : BOOLEAN]
    BY <1>6, <1>s, FinalizeType DEF ReapChild, Conclusion
  <2>2. worker' \in WorkerStates
    BY <1>6 DEF ReapChild, Conclusion
  <2> QED
    BY <2>1, <2>2, <1>6 DEF ReapChild
<1>7. CASE TimeOut
  <2>1. ending' \in [state : {"RUNNING"} \cup TerminalStates, reason : Reasons,
                     settle : BOOLEAN, flag : BOOLEAN]
    BY <1>7, <1>s, <1>e DEF TimeOut, Conclusion
  <2>2. worker' \in WorkerStates
    BY <1>7 DEF TimeOut, Conclusion
  <2>3. child' \in ChildStates /\ exit' \in {"none"} \cup ExitCodes /\ applied' \subseteq Steps
    BY <1>7 DEF TimeOut, Killed, ChildStates, ExitCodes, ChildInv, Progress
  <2>4. UNCHANGED <<at, outbox, emitted>>
    BY <1>7 DEF TimeOut, Killed
  <2> QED
    BY <2>1, <2>2, <2>3, <2>4, <1>7 DEF TimeOut
<1>8. CASE Settle
  BY <1>8 DEF Settle, Settled, StepStatus
<1>9. CASE Flag
  BY <1>9 DEF Flag
<1>10. CASE Conclude
  <2>1. job' \in [state : {"RUNNING"} \cup TerminalStates, reason : Reasons]
    BY <1>10 DEF Conclude
  <2> QED
    BY <2>1, <1>10 DEF Conclude
<1>11. CASE Release
  BY <1>11 DEF Release
<1> QED
  BY <1>1, <1>2, <1>3, <1>4, <1>5, <1>6, <1>7, <1>8, <1>9, <1>10, <1>11 DEF WorkerStep

LEMMA OtherStepType ==
  ASSUME TypeOK, WorkerDies \/ Expire \/ LoseLock \/ Reap
  PROVE  TypeOK'
<1> USE DEF TypeOK, childVars
<1>1. CASE WorkerDies
  BY <1>1 DEF WorkerDies, WorkerStates
<1>2. CASE Expire
  BY <1>2 DEF Expire
<1>3. CASE LoseLock
  BY <1>3 DEF LoseLock
<1>4. CASE Reap
  <2>1. rows' \in [Steps -> {"none"} \cup StepStatus]
    BY <1>4 DEF Reap, Settled, StepStatus
  <2>2. job' \in [state : {"RUNNING"} \cup TerminalStates, reason : Reasons]
    BY <1>4 DEF Reap, TerminalStates, Reasons
  <2> QED
    BY <2>1, <2>2, <1>4 DEF Reap
<1> QED
  BY <1>1, <1>2, <1>3, <1>4

--------------------------------------------------------------------------------
\* The child

LEMMA ChildFrame == ASSUME ChildInv, UNCHANGED childVars PROVE ChildInv'
BY DEF ChildInv, Progress, Reports, Lines, Exits, Printed, childVars

LEMMA OneMore == \A n \in Nat \ {0} : (1 .. (n - 1)) \cup {n} = 1 .. n
OBVIOUS

\* A child that is killed has done what it reported, and perhaps the step it was at.
LEMMA KilledInv ==
  ASSUME TypeOK, ChildInv, Killed
  PROVE  ChildInv'
<1> USE PlanFacts DEF TypeOK, ChildInv, Killed, Steps
<1>1. Progress'
  <2>1. applied' = applied \/ (child = "acting" /\ applied' = 1 .. at)
    <3>1. CASE child = "acting"
      <4>1. applied = 1 .. (at - 1) /\ at \in Nat \ {0}
        BY <3>1 DEF Progress
      <4>2. (1 .. (at - 1)) \cup {at} = 1 .. at
        BY <4>1, OneMore
      <4> QED
        BY <3>1, <4>1, <4>2
    <3> QED
      BY <3>1
  <2> QED
    BY <2>1 DEF Progress
<1>2. Reports'
  BY DEF Reports
<1>3. Lines'
  BY DEF Lines
<1>4. Exits'
  BY DEF Exits, ExitCodes
<1> QED
  BY <1>1, <1>2, <1>3, <1>4

\* Going on to the next step, or to the end, after all steps so far took effect.
LEMMA ProceedFacts ==
  ASSUME TypeOK, Proceed, applied = 1 .. at
  PROVE  /\ child' \in {"announcing", "closing"}
         /\ child' = "announcing" => at' \in Steps /\ applied = 1 .. (at' - 1)
         /\ child' = "closing" => applied = Steps /\ at' = at
BY PlanFacts DEF TypeOK, Proceed, Steps

LEMMA ChildStepInv ==
  ASSUME TypeOK, ChildInv, ChildStep, TypeOK'
  PROVE  ChildInv'
<1> USE PlanFacts DEF ChildInv
<1>1. CASE Ready
  <2>1. child = "starting" /\ applied = 1 .. at /\ Proceed /\ UNCHANGED <<applied, outbox, emitted, exit>>
    BY <1>1 DEF Ready, Progress, TypeOK
  <2>2. /\ child' \in {"announcing", "closing"}
        /\ child' = "announcing" => at' \in Steps /\ applied = 1 .. (at' - 1)
        /\ child' = "closing" => applied = Steps /\ at' = at
    BY <2>1, ProceedFacts
  <2>3. Progress'
    BY <2>1, <2>2 DEF Progress
  <2>4. Reports'
    BY <2>2 DEF Reports
  <2>5. Lines'
    BY <2>1, <2>2 DEF Lines
  <2>6. Exits'
    BY <2>1, <2>2 DEF Exits
  <2> QED
    BY <2>3, <2>4, <2>5, <2>6
<1>2. CASE RuntimeFails
  <2> USE <1>2 DEF RuntimeFails
  <2>1. Progress'
    BY DEF Progress
  <2>2. Reports'
    BY DEF Reports, Line
  <2>3. Lines' /\ Exits'
    BY DEF Lines, Exits
  <2> QED
    BY <2>1, <2>2, <2>3
<1>3. CASE Announce
  <2> USE <1>3 DEF Announce
  <2>1. Progress'
    BY DEF Progress
  <2>2. Reports'
    BY DEF Reports
  <2>3. Lines'
    BY DEF Lines, Line, Progress, TypeOK
  <2>4. Exits'
    BY DEF Exits
  <2> QED
    BY <2>1, <2>2, <2>3, <2>4
<1>4. CASE Act
  <2>1. PICK result \in ResultsOf(Plan[at]) :
          /\ outbox' = result
          /\ \/ applied' = applied \cup {at}
             \/ result[1].type # "succeeded" /\ UNCHANGED applied
    BY <1>4 DEF Act
  <2>2. at \in Steps /\ applied = 1 .. (at - 1) /\ UNCHANGED <<at, emitted, exit>> /\ child' = "reporting"
    BY <1>4 DEF Act, Progress
  <2>3. applied' = 1 .. at \/ (result[1].type # "succeeded" /\ applied' = 1 .. (at - 1))
    <3>1. at \in Nat \ {0}
      BY <2>2 DEF Steps
    <3>2. (1 .. (at - 1)) \cup {at} = 1 .. at
      BY <3>1, OneMore
    <3> QED
      BY <2>1, <2>2, <3>2
  <2>4. Progress'
    BY <2>2, <2>3 DEF Progress
  <2>5. Reports'
    <3>1. /\ Len(result) \in {1, 2}
          /\ result[1].type \in {"succeeded", "uncertain", "failed", "runtime_failed"}
          /\ result[1].step = at
          /\ IF result[1].type = "failed" THEN Len(result) = 2 /\ result[2].type = "runtime_failed"
                                          ELSE Len(result) = 1
      BY <2>1 DEF ResultsOf, Line
    <3> QED
      BY <3>1, <2>1, <2>2, <2>3 DEF Reports
  <2>6. Lines'
    BY <2>2, <1>4 DEF Lines, Act
  <2>7. Exits'
    BY <2>2, <1>4 DEF Exits, Act
  <2> QED
    BY <2>4, <2>5, <2>6, <2>7
<1>5. CASE Report
  <2> DEFINE line == outbox[1]
  <2>1. /\ child = "reporting" /\ emitted' = Append(emitted, line)
        /\ UNCHANGED <<applied, exit>>
        /\ outbox \in Seq(Event) /\ emitted \in Seq(Event) /\ Len(outbox) \in {1, 2}
    BY <1>5 DEF Report, Reports, TypeOK
  <2>2. outbox' = Tail(outbox)
    BY <1>5 DEF Report
  <2>3. line.type \in DOMAIN RowStatus => line.step \in Steps
    BY <2>1 DEF Reports, RowStatus
  <2>4. ~\E k \in 1 .. Len(emitted) : emitted[k].type = "uncertain"
    BY <2>1 DEF Lines
  <2>5. exit = "none"
    BY <2>1 DEF Exits
  <2>6. CASE Len(outbox) = 2
    <3>1. child' = "reporting" /\ at' = at /\ line.type = "failed"
      BY <2>1, <2>6, <1>5 DEF Report, Reports
    <3>2. Len(outbox') = 1 /\ outbox'[1] = outbox[2]
      <4>1. ASSUME NEW S, NEW s \in Seq(S), Len(s) = 2
            PROVE  Len(Tail(s)) = 1 /\ Tail(s)[1] = s[2]
        <5>1. s # << >>
          BY <4>1
        <5>2. /\ Len(Tail(s)) = Len(s) - 1
              /\ \A i \in 1 .. Len(Tail(s)) : Tail(s)[i] = s[i + 1]
          BY <5>1, HeadTailProperties, Zenon
        <5>3. Len(Tail(s)) = 1 /\ 1 \in 1 .. Len(Tail(s)) /\ 1 + 1 = 2
          BY <4>1, <5>2
        <5>4. Tail(s)[1] = s[1 + 1]
          BY <5>2, <5>3, Zenon
        <5> QED
          BY <5>3, <5>4, Zenon
      <4> QED
        BY <4>1, <2>1, <2>2, <2>6
    <3>3. outbox'[1].type = "runtime_failed"
      BY <2>1, <3>1, <3>2 DEF Reports
    <3>4. Progress'
      BY <2>1, <3>1 DEF Progress
    <3>5. Reports'
      BY <3>2, <3>3 DEF Reports
    <3>6. Lines'
      BY <2>1, <2>3, <2>4, <3>1 DEF Lines
    <3>7. Exits'
      BY <2>1, <2>5, <3>1 DEF Exits
    <3> QED
      BY <3>4, <3>5, <3>6, <3>7
  <2>7. CASE Len(outbox) = 1 /\ line.type = "succeeded"
    <3>1. Proceed /\ applied = 1 .. at
      BY <2>1, <2>7, <1>5 DEF Report, Reports
    <3>2. /\ child' \in {"announcing", "closing"}
          /\ child' = "announcing" => at' \in Steps /\ applied = 1 .. (at' - 1)
          /\ child' = "closing" => applied = Steps /\ at' = at
      BY <3>1, ProceedFacts
    <3>3. Progress'
      BY <2>1, <3>1, <3>2 DEF Progress
    <3>4. Reports'
      BY <3>2 DEF Reports
    <3>5. Lines'
      BY <2>1, <2>3, <2>4, <2>7, <3>2 DEF Lines
    <3>6. Exits'
      BY <2>1, <2>5, <3>2 DEF Exits
    <3> QED
      BY <3>3, <3>4, <3>5, <3>6
  <2>8. CASE Len(outbox) = 1 /\ line.type # "succeeded"
    <3>1. child' = "closing" /\ at' = at
      BY <2>1, <2>8, <1>5 DEF Report
    <3>2. line.type \in {"uncertain", "runtime_failed"}
      BY <2>1, <2>8 DEF Reports
    <3>3. Progress'
      BY <2>1, <3>1 DEF Progress
    <3>4. Reports'
      BY <3>1 DEF Reports
    <3>5. Lines'
      BY <2>1, <2>3, <2>4, <3>1 DEF Lines
    <3>6. Printed("uncertain")' \/ Printed("runtime_failed")'
      <4>1. Len(emitted') = Len(emitted) + 1 /\ emitted'[Len(emitted) + 1] = line
        BY <2>1
      <4> QED
        BY <4>1, <2>1, <3>2 DEF Printed
    <3>7. Exits'
      BY <2>1, <2>5, <3>1, <3>6 DEF Exits
    <3> QED
      BY <3>3, <3>4, <3>5, <3>7
  <2> QED
    BY <2>1, <2>6, <2>7, <2>8
<1>6. CASE Pollute
  <2>1. PICK type \in {"garbage", "stray"} : emitted' = Append(emitted, Line(type, 0, "none"))
    BY <1>6 DEF Pollute
  <2>2. UNCHANGED <<child, at, applied, outbox, exit>> /\ child \in {"starting", "acting"}
    BY <1>6 DEF Pollute
  <2>3. Progress' /\ Reports'
    BY <2>2 DEF Progress, Reports
  <2>4. Lines'
    BY <2>1, <2>2 DEF Lines, Line, RowStatus, TypeOK
  <2>5. Exits'
    BY <2>2 DEF Exits
  <2> QED
    BY <2>3, <2>4, <2>5
<1>7. CASE PrintFails
  BY <1>7 DEF PrintFails, Progress, Reports, Lines, Exits, Printed
<1>8. CASE CloseClient
  BY <1>8 DEF CloseClient, Progress, Reports, Lines, Exits, Printed
<1>9. CASE ExitChild
  BY <1>9 DEF ExitChild, Progress, Reports, Lines, Exits, Printed
<1>10. CASE ChildDies
  BY <1>10, KilledInv DEF ChildDies
<1> QED
  BY <1>1, <1>2, <1>3, <1>4, <1>5, <1>6, <1>7, <1>8, <1>9, <1>10 DEF ChildStep

\* The worker touches the child when it launches it and when its time is up.
LEMMA OtherChildInv ==
  ASSUME TypeOK, ChildInv, AllRead, TypeOK',
         WorkerStep \/ WorkerDies \/ Expire \/ LoseLock \/ Reap
  PROVE  ChildInv'
<1>1. CASE Launch
  <2> USE <1>1 DEF Launch
  <2>1. child = "none"
    BY DEF AllRead
  <2>2. Progress'
    BY <2>1 DEF ChildInv, Progress
  <2>3. Reports' /\ Lines' /\ Exits'
    BY <2>1 DEF ChildInv, Reports, Lines, Exits
  <2> QED
    BY <2>2, <2>3 DEF ChildInv
<1>2. CASE TimeOut
  BY <1>2, KilledInv, ChildFrame DEF TimeOut
<1> QED
  BY <1>1, <1>2, ChildFrame
  DEF WorkerStep, ReadEvent, ReadGarbage, ReadStray, ReadEOF, ReapChild, Settle, Flag,
      Conclude, Release, WorkerDies, Expire, LoseLock, Reap

--------------------------------------------------------------------------------
\* The worker

\* The child's steps leave what the worker has seen alone.
LEMMA ChildStepExtends ==
  ASSUME TypeOK, ChildInv, ChildStep
  PROVE  /\ UNCHANGED workerVars
         /\ applied \subseteq applied'
         /\ child # "none" /\ (child \in {"eof", "exited"} => child' \in {"eof", "exited"})
         /\ child \in {"eof", "exited"} => emitted' = emitted
         /\ \A k \in 1 .. Len(emitted) : emitted'[k] = emitted[k]
<1> USE DEF TypeOK, ChildAlive
<1>1. CASE Announce \/ Pollute
  <2>1. /\ UNCHANGED workerVars /\ applied' = applied
        /\ child \in {"announcing", "starting", "acting"}
    BY <1>1 DEF Announce, Pollute
  <2>2. PICK line : emitted' = Append(emitted, line)
    BY <1>1 DEF Announce, Pollute
  <2> QED
    BY <2>1, <2>2
<1>2. CASE Report
  <2>1. UNCHANGED workerVars /\ applied' = applied /\ child = "reporting"
    BY <1>2 DEF Report
  <2>2. emitted' = Append(emitted, Head(outbox))
    BY <1>2 DEF Report
  <2> QED
    BY <2>1, <2>2
<1>3. CASE Ready \/ RuntimeFails \/ Act \/ PrintFails \/ CloseClient \/ ExitChild
  BY <1>3 DEF Ready, RuntimeFails, Act, PrintFails, CloseClient, ExitChild, Proceed
<1>4. CASE ChildDies
  BY <1>4 DEF ChildDies, Killed
<1> QED
  BY <1>1, <1>2, <1>3, <1>4 DEF ChildStep

LEMMA ChildStepRunInv ==
  ASSUME IInv, ChildStep, TypeOK'
  PROVE  RunInv'
<1> USE ChildStepExtends DEF IInv, RunInv, workerVars
<1>1. JournalFollows'
  <2>1. \A k \in 1 .. consumed : emitted'[k] = emitted[k]
    BY DEF TypeOK
  <2> QED
    BY <2>1 DEF JournalFollows
<1>2. AllRead'
  BY DEF AllRead
<1>3. VerdictFollows'
  BY DEF VerdictFollows, Earned, TypeOK
<1> QED
  BY <1>1, <1>2, <1>3

\* A plan that is concluded as COMPLETED from an orderly exit took effect.
LEMMA ReapChildVerdict ==
  ASSUME IInv, ReapChild, ending'.state = "COMPLETED"
  PROVE  applied = Steps \/ (Workflow = "account_update" /\ ending'.reason = "runtime_failed")
<1> USE DEF IInv, RunInv, ChildInv
<1> DEFINE e == Finalize(Workflow, Journal, exit, seen.runtimeFailed, seen.hardStop)
<1>1. ending' = e /\ e.state = "COMPLETED"
  BY DEF ReapChild, Conclusion
<1>2. \/ exit = "ok"
      \/ exit = "uncertain" /\ ~Has(Journal, "UNCERTAIN")
      \/ Workflow = "account_update" /\ e.reason = "runtime_failed"
  BY <1>1, CompletedBy, WorkflowAssumption
<1> HIDE DEF e
<1>3. ASSUME exit = "uncertain" PROVE Has(Journal, "UNCERTAIN")
  <2>1. PICK k \in 1 .. Len(emitted) : emitted[k].type = "uncertain"
    BY <1>3 DEF Exits, Printed
  <2>2. consumed = Len(emitted)
    BY DEF ReapChild, AllRead
  <2>3. rows[emitted[k].step] = "UNCERTAIN"
    BY <2>1, <2>2 DEF JournalFollows
  <2>4. emitted[k].step \in Steps
    BY <2>1 DEF Lines, RowStatus
  <2>5. [kind |-> Plan[emitted[k].step], status |-> "UNCERTAIN"] \in Journal
    BY <2>3, <2>4 DEF Journal
  <2> QED
    BY <2>5 DEF Has
<1> QED
  BY <1>1, <1>2, <1>3 DEF Exits

LEMMA WorkerStepRunInv ==
  ASSUME IInv, WorkerStep, TypeOK'
  PROVE  RunInv'
<1> USE DEF IInv, RunInv, childVars
<1>c. {"COMPLETED", "FAILED"} \subseteq TerminalStates
  BY DEF TerminalStates
<1>1. CASE Launch
  BY <1>1 DEF Launch, JournalFollows, AllRead, VerdictFollows, Earned
<1>2. CASE ReadEvent
  <2>1. JournalFollows'
    <3> SUFFICES ASSUME NEW k \in 1 .. (consumed + 1), emitted[k].type = "uncertain"
                 PROVE  rows'[emitted[k].step] = "UNCERTAIN"
      BY <1>2 DEF ReadEvent, JournalFollows
    <3>1. k \in 1 .. Len(emitted) /\ consumed + 1 \in 1 .. Len(emitted)
      BY <1>2 DEF ReadEvent, TypeOK
    <3>2. k = Len(emitted) /\ k = consumed + 1
      BY <3>1, <1>2 DEF ChildInv, Lines, ReadEvent, TypeOK
    <3>3. emitted[k].step \in Steps
      BY <3>1 DEF ChildInv, Lines, RowStatus
    <3> QED
      BY <3>2, <3>3, <1>2 DEF ReadEvent, NextLine, Recorded, RowStatus, TypeOK
  <2> QED
    BY <2>1, <1>2 DEF ReadEvent, AllRead, VerdictFollows, Earned
<1>3. CASE ReadGarbage
  <2>1. JournalFollows'
    BY <1>3 DEF ReadGarbage, JournalFollows, NextLine, TypeOK
  <2>2. VerdictFollows'
    BY <1>3, <1>c DEF ReadGarbage, VerdictFollows, Earned, Ending
  <2> QED
    BY <2>1, <2>2, <1>3 DEF ReadGarbage, AllRead
<1>4. CASE ReadStray
  <2>1. JournalFollows'
    BY <1>4 DEF ReadStray, JournalFollows, NextLine, TypeOK
  <2> QED
    BY <2>1, <1>4 DEF ReadStray, AllRead, VerdictFollows, Earned
<1>5. CASE ReadEOF
  BY <1>5 DEF ReadEOF, JournalFollows, AllRead, VerdictFollows, Earned
<1>6. CASE ReapChild
  <2>1. ending'.state \in TerminalStates
    BY <1>6, FinalizeType DEF ReapChild, Conclusion
  <2>2. Earned(ending)'
    BY <1>6, ReapChildVerdict DEF ReapChild, Earned, childVars
  <2>3. worker' \in {"settling", "flagging", "concluding"}
    BY <1>6 DEF ReapChild, Conclusion
  <2>4. UNCHANGED <<childVars, consumed, rows, job>> /\ worker = "waiting"
    BY <1>6 DEF ReapChild
  <2>5. VerdictFollows'
    BY <2>1, <2>2, <2>3, <2>4 DEF VerdictFollows, Earned
  <2> QED
    BY <2>3, <2>4, <2>5 DEF JournalFollows, AllRead
<1>7. CASE TimeOut
  <2>1. ending'.state = "FAILED"
    BY <1>7 DEF TimeOut, Conclusion, Ending
  <2>2. worker' \in {"settling", "flagging", "concluding"} /\ worker \in {"reading", "waiting"}
    BY <1>7 DEF TimeOut, Conclusion
  <2>3. UNCHANGED <<consumed, rows, job, emitted>>
    BY <1>7 DEF TimeOut, Killed
  <2>4. job'.state # "COMPLETED"
    BY <2>2, <2>3 DEF VerdictFollows, Earned
  <2>5. VerdictFollows'
    BY <2>1, <2>2, <2>3, <2>4, <1>c DEF VerdictFollows, Earned
  <2> QED
    BY <2>2, <2>3, <2>5 DEF JournalFollows, AllRead
<1>8. CASE Settle
  <2>1. JournalFollows'
    <3> SUFFICES ASSUME NEW k \in 1 .. consumed, emitted[k].type = "uncertain"
                 PROVE  rows'[emitted[k].step] = "UNCERTAIN"
      BY <1>8 DEF Settle, JournalFollows
    <3>1. emitted[k].step \in Steps /\ rows[emitted[k].step] = "UNCERTAIN"
      BY DEF ChildInv, Lines, RowStatus, JournalFollows, TypeOK
    <3> QED
      BY <3>1, <1>8 DEF Settle, Settled
  <2> QED
    BY <2>1, <1>8 DEF Settle, AllRead, VerdictFollows, Earned
<1>9. CASE Flag
  BY <1>9 DEF Flag, JournalFollows, AllRead, VerdictFollows, Earned
<1>10. CASE Conclude
  <2>1. VerdictFollows'
    BY <1>10 DEF Conclude, VerdictFollows, Earned
  <2> QED
    BY <2>1, <1>10 DEF Conclude, JournalFollows, AllRead
<1>11. CASE Release
  BY <1>11 DEF Release, JournalFollows, AllRead, VerdictFollows, Earned
<1> QED
  BY <1>1, <1>2, <1>3, <1>4, <1>5, <1>6, <1>7, <1>8, <1>9, <1>10, <1>11 DEF WorkerStep

LEMMA OtherStepRunInv ==
  ASSUME IInv, WorkerDies \/ Expire \/ LoseLock \/ Reap, TypeOK'
  PROVE  RunInv'
<1> USE DEF IInv, RunInv, childVars
<1>1. CASE WorkerDies
  BY <1>1 DEF WorkerDies, JournalFollows, AllRead, VerdictFollows, Earned
<1>2. CASE Expire
  BY <1>2 DEF Expire, JournalFollows, AllRead, VerdictFollows, Earned
<1>3. CASE LoseLock
  BY <1>3 DEF LoseLock, JournalFollows, AllRead, VerdictFollows, Earned
<1>4. CASE Reap
  <2>1. JournalFollows'
    <3> SUFFICES ASSUME NEW k \in 1 .. consumed, emitted[k].type = "uncertain"
                 PROVE  rows'[emitted[k].step] = "UNCERTAIN"
      BY <1>4 DEF Reap, JournalFollows
    <3>1. emitted[k].step \in Steps /\ rows[emitted[k].step] = "UNCERTAIN"
      BY DEF ChildInv, Lines, RowStatus, JournalFollows, TypeOK
    <3> QED
      BY <3>1, <1>4 DEF Reap, Settled
  <2>2. VerdictFollows'
    BY <1>4 DEF Reap, VerdictFollows, Earned
  <2> QED
    BY <2>1, <2>2, <1>4 DEF Reap, AllRead
<1> QED
  BY <1>1, <1>2, <1>3, <1>4

--------------------------------------------------------------------------------
\* The invariant, and the refinement

LEMMA StutterInv == ASSUME IInv, UNCHANGED vars PROVE IInv'
BY DEF IInv, TypeOK, ChildInv, Progress, Reports, Lines, Exits, Printed,
       RunInv, JournalFollows, AllRead, VerdictFollows, Earned, vars

LEMMA NextInv == IInv /\ [Next]_vars => IInv'
<1> SUFFICES ASSUME IInv, [Next]_vars PROVE IInv'
  OBVIOUS
<1>1. CASE ChildStep
  BY <1>1, ChildStepType, ChildStepInv, ChildStepRunInv DEF IInv
<1>2. CASE WorkerStep
  BY <1>2, WorkerStepType, OtherChildInv, WorkerStepRunInv DEF IInv, RunInv
<1>3. CASE WorkerDies \/ Expire \/ LoseLock \/ Reap
  BY <1>3, OtherStepType, OtherChildInv, OtherStepRunInv DEF IInv, RunInv
<1>4. CASE UNCHANGED vars
  BY <1>4, StutterInv
<1> QED
  BY <1>1, <1>2, <1>3, <1>4 DEF Next

LEMMA Invariance == Spec => []IInv
BY InitInv, NextInv, PTL DEF Spec

\* The variables of a run keep their types, for any plan and either workflow.
THEOREM TypeCorrect == Spec => []TypeOK
BY Invariance, PTL DEF IInv

\* A profile job that is COMPLETED has applied its whole plan.
THEOREM ProfileCompletedMeansApplied ==
  ASSUME Workflow = "profile"
  PROVE  Spec => []CompletedMeansApplied
<1>1. IInv => CompletedMeansApplied
  BY DEF IInv, RunInv, VerdictFollows, Earned, CompletedMeansApplied
<1> QED
  BY <1>1, Invariance, PTL

\* A step that applies something applies the next step of the plan.
LEMMA EffectsInOrder ==
  ASSUME IInv, [Next]_vars, applied' # applied
  PROVE  /\ job' = job
         /\ \E k \in Steps : applied = 1 .. (k - 1) /\ applied' = 1 .. k
<1>1. /\ child = "acting" /\ job' = job
      /\ applied' = applied \cup {at}
  BY DEF Next, ChildStep, Ready, RuntimeFails, Announce, Act, Report, Pollute, PrintFails,
         CloseClient, ExitChild, ChildDies, Killed, workerVars, childVars, vars,
         WorkerStep, Launch, ReadEvent, ReadGarbage, ReadStray, ReadEOF, ReapChild, TimeOut,
         Settle, Flag, Conclude, Release, WorkerDies, Expire, LoseLock, Reap
<1>2. at \in Steps /\ applied = 1 .. (at - 1)
  BY <1>1 DEF IInv, ChildInv, Progress
<1>3. at \in Nat \ {0}
  BY <1>2, PlanFacts DEF Steps
<1>4. (1 .. (at - 1)) \cup {at} = 1 .. at
  BY <1>3, OneMore
<1> QED
  BY <1>1, <1>2, <1>4

\* A step that gives a verdict gives the first one, and applies nothing.
LEMMA VerdictOnce ==
  ASSUME IInv, [Next]_vars, job' # job, IInv'
  PROVE  /\ job.state = "RUNNING" /\ job'.state \in TerminalStates
         /\ applied' = applied
<1>1. CASE Conclude
  BY <1>1 DEF Conclude, IInv, RunInv, VerdictFollows, Earned, childVars
<1>2. CASE Reap
  BY <1>2 DEF Reap, TerminalStates, childVars
<1>3. CASE ~Conclude /\ ~Reap
  BY <1>3 DEF Next, ChildStep, Ready, RuntimeFails, Announce, Act, Report, Pollute, PrintFails,
         CloseClient, ExitChild, ChildDies, workerVars, vars,
         WorkerStep, Launch, ReadEvent, ReadGarbage, ReadStray, ReadEOF, ReapChild, TimeOut,
         Settle, Flag, Release, WorkerDies, Expire, LoseLock
<1> QED
  BY <1>1, <1>2, <1>3

LEMMA NextRefines ==
  ASSUME IInv, [Next]_vars, IInv', Workflow = "profile"
  PROVE  [Execution!Next]_(Execution!vars)
<1> USE DEF Execution!Next, Execution!Apply, Execution!Conclude, Execution!vars
<1>1. CASE applied' # applied
  BY <1>1, EffectsInOrder DEF Steps
<1>2. CASE applied' = applied /\ job'.state # job.state
  <2>1. job.state = "RUNNING" /\ job'.state \in TerminalStates
    BY <1>2, VerdictOnce
  <2>2. job'.state = "COMPLETED" => applied = 1 .. Len(Plan)
    BY <1>2 DEF IInv, RunInv, VerdictFollows, Earned, Steps
  <2> QED
    BY <1>2, <2>1, <2>2
<1>3. CASE applied' = applied /\ job'.state = job.state
  BY <1>3
<1> QED
  BY <1>1, <1>2, <1>3

\* A run of a profile job executes its plan: the steps take effect in order and
\* at most once, one verdict is given, COMPLETED only for all of them.
THEOREM ProfileRunExecutesPlan ==
  ASSUME Workflow = "profile"
  PROVE  Spec => ExecutesPlan
<1>1. Init => Execution!Init
  BY DEF Init, Execution!Init
<1>2. IInv /\ [Next]_vars /\ IInv' => [Execution!Next]_(Execution!vars)
  BY NextRefines
<1> QED
  BY <1>1, <1>2, Invariance, PTL DEF Spec, ExecutesPlan, Execution!Spec

\* A step either leaves the verdict as it is read alone, or gives it, truthfully.
LEMMA VerdictEarned ==
  ASSUME IInv, [Next]_vars, IInv', job' # job
  PROVE  /\ Verdict = "RUNNING" /\ Verdict' \in TerminalStates
         /\ Verdict' = "COMPLETED" => applied = Steps
<1>1. /\ job.state = "RUNNING" /\ job'.state \in TerminalStates
      /\ applied' = applied
  BY VerdictOnce
<1>2. Verdict = "RUNNING"
  BY <1>1 DEF Verdict
<1>3. Verdict' \in TerminalStates
  BY <1>1 DEF Verdict, TerminalStates
<1>4. ASSUME Verdict' = "COMPLETED" PROVE applied = Steps
  <2>1. job'.state = "COMPLETED" /\ job'.reason # "runtime_failed"
    BY <1>1, <1>4 DEF Verdict
  <2> QED
    BY <2>1, <1>1 DEF IInv, RunInv, VerdictFollows, Earned, Steps
<1> QED
  BY <1>2, <1>3, <1>4

LEMMA NextReadsAsRefinement ==
  ASSUME IInv, [Next]_vars, IInv'
  PROVE  [Reading!Next]_(Reading!vars)
<1> USE DEF Reading!Next, Reading!Apply, Reading!Conclude, Reading!vars
<1>1. CASE applied' # applied
  <2>1. Verdict' = Verdict
    BY <1>1, EffectsInOrder DEF Verdict
  <2> QED
    BY <1>1, <2>1, EffectsInOrder DEF Steps
<1>2. CASE applied' = applied /\ job' # job
  BY <1>2, VerdictEarned DEF Steps
<1>3. CASE applied' = applied /\ job' = job
  BY <1>3 DEF Verdict
<1> QED
  BY <1>1, <1>2, <1>3

\* A run of either workflow executes its plan: the steps take effect in order and at
\* most once, one verdict is given, and a COMPLETED without failure_reason is true.
THEOREM RunExecutesPlanAsRead == Spec => ExecutesPlanAsRead
<1>1. Init => Reading!Init
  BY DEF Init, Reading!Init, Verdict
<1>2. IInv /\ [Next]_vars /\ IInv' => [Reading!Next]_(Reading!vars)
  BY NextReadsAsRefinement
<1> QED
  BY <1>1, <1>2, Invariance, PTL DEF Spec, ExecutesPlanAsRead, Reading!Spec

================================================================================
