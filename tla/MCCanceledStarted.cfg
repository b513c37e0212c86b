CONSTANTS
  j1 = j1
  j2 = j2
  NoJob = NoJob
  Jobs = {j1, j2}
  Workers = {w1, w2}
  IntentOf <- SameIntent
  ReaperEnabled = FALSE
  SchedulerRuns = FALSE
  InlineFallback = FALSE
  Disturbances = {}
SPECIFICATION Spec
PROPERTIES TerminalNotExecuted
CHECK_DEADLOCK FALSE
