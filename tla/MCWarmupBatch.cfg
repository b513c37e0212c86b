SPECIFICATION Spec
CONSTANTS
  Warmups = {s1, s2}
  Workers = {w1}
  Requests = {q1}
  Actions = {a1}
  Limits <- PlanOfOne
  Duration = 2
  MaxDay = 3
  PerWindow = 3
  Threshold = 2
  Rejected = {}
  Answers = {"ok", "failed", "flood", "late"}
  StaggerModes = {FALSE}
  MaxFaults = 1
  MaxAsked = 1
  None = None
INVARIANTS TypeOK DayLimit CompletedMeansWarmed ClaimReturned
CHECK_DEADLOCK FALSE
