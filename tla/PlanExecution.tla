----------------------------- MODULE PlanExecution -----------------------------
(***************************************************************************)
(* What executing a profile plan promises to the account's owner: the      *)
(* steps take effect at Telegram in the plan's order, each at most once,   *)
(* the job gets at most one verdict, and the verdict COMPLETED is given    *)
(* only when every step has taken effect.                                  *)
(***************************************************************************)
EXTENDS Naturals

CONSTANTS Length, Verdicts

VARIABLES effects, verdict

vars == <<effects, verdict>>

Init == effects = {} /\ verdict = "RUNNING"

\* The next step takes effect. A job whose worker is gone may be concluded
\* while its last step is still on its way.
Apply ==
  /\ \E k \in 1 .. Length : effects = 1 .. (k - 1) /\ effects' = 1 .. k
  /\ UNCHANGED verdict

Conclude(v) ==
  /\ verdict = "RUNNING"
  /\ v = "COMPLETED" => effects = 1 .. Length
  /\ verdict' = v
  /\ UNCHANGED effects

Next == Apply \/ \E v \in Verdicts : Conclude(v)

Spec == Init /\ [][Next]_vars

================================================================================
