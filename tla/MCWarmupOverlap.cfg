SPECIFICATION Spec
CONSTANTS
  Warmups = {s1}
  Workers = {w1, w2}
  Requests = {q1}
  Actions = {a1}
  Limits <- PlanOfOne
  Duration = 2
  MaxDay = 3
  PerWindow = 3
  Threshold = 2
  Rejected = {}
  Answers = {"ok"}
  StaggerModes = {FALSE}
  MaxFaults = 0
  MaxAsked = 0
  None = None
INVARIANT DayLimit
CHECK_DEADLOCK FALSE
