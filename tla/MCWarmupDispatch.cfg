SPECIFICATION Spec
CONSTANTS
  Warmups = {s1}
  Workers = {w1}
  Requests = {q1}
  Actions = {a1, a2}
  Limits <- PlanOfOne
  Duration = 2
  MaxDay = 3
  PerWindow = 3
  Threshold = 2
  Rejected = {}
  Answers = {"ok", "failed", "flood", "late"}
  StaggerModes = {TRUE, FALSE}
  MaxFaults = 1
  MaxAsked = 2
  None = None
INVARIANTS TypeOK DayLimit CompletedMeansWarmed ClaimReturned
PROPERTIES ProgressKept SessionSettles
CHECK_DEADLOCK FALSE
