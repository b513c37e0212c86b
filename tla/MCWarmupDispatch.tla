------------------------- MODULE MCWarmupDispatch -------------------------
(***************************************************************************)
(* WarmupDispatch on small instances, and changed forms of its definitions  *)
(* (each the way the code could be wrong) that the properties tell apart.   *)
(***************************************************************************)
EXTENDS WarmupDispatch

\* A plan of one action a day, and one whose second day does two things.
PlanOfOne == [n \in 1 .. Duration |-> [x \in Actions |-> 1]]
PlanOfTwo == [n \in 1 .. Duration |-> [x \in Actions |-> IF n = 1 THEN 1 ELSE 2]]
=============================================================================
