CONSTANTS
  j1 = j1
  j2 = j2
  NoJob = NoJob
  Jobs = {j1, j2}
  Workers = {w1, w2}
  IntentOf <- TwoIntents
  ReaperEnabled = FALSE
  SchedulerRuns = FALSE
  InlineFallback = FALSE
  Disturbances = {"redis_restart"}
SPECIFICATION FairSpec
PROPERTIES QueuedEnds
CHECK_DEADLOCK FALSE
