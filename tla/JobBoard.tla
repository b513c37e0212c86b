-------------------------------- MODULE JobBoard --------------------------------
(***************************************************************************)
(* What the profile jobs of one account promise to the account and to the  *)
(* user who ordered them. Jobs come and go on a board, and back: a job     *)
(* that was given up may turn out to be at work still. But no two jobs on  *)
(* the board have one intent, plans are executed one at a time and each    *)
(* of them once at most, and a job that is over, with nobody at work on    *)
(* it, is neither put back on the board nor executed.                      *)
(***************************************************************************)
CONSTANTS
  Jobs,
  IntentOf    \* the intent of each job

VARIABLES
  active,     \* jobs on the board
  running,    \* jobs whose plan is being executed
  launched,   \* jobs whose plan was or is being executed
  over        \* jobs that have ended for good

vars == <<active, running, launched, over>>

Distinct(js) == \A i, j \in js : i # j => IntentOf[i] # IntentOf[j]

Init == active = {} /\ running = {} /\ launched = {} /\ over = {}

\* A plan is executed while no other one is, and for the first time.
Launch(j) ==
  /\ running = {} /\ j \notin launched \cup over
  /\ running' = {j} /\ launched' = launched \cup {j}
  /\ UNCHANGED <<active, over>>

\* Everything else: jobs leave the board, come on it one by one, stop or are over.
Move ==
  /\ \E j \in Jobs : active' \in SUBSET (active \cup {j})
  /\ Distinct(active')
  /\ running' \in SUBSET running
  /\ over' \in SUBSET Jobs /\ over \subseteq over' /\ over' \cap (active' \cup running') = {}
  /\ UNCHANGED launched

Next == Move \/ \E j \in Jobs : Launch(j)

Spec == Init /\ [][Next]_vars

================================================================================
