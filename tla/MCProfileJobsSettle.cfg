CONSTANTS
  j1 = j1
  j2 = j2
  NoJob = NoJob
  Jobs = {j1, j2}
  Workers = {w1}
  IntentOf <- TwoIntents
  ReaperEnabled = TRUE
  SchedulerRuns = FALSE
  InlineFallback = TRUE
  Disturbances = {"worker_dies", "lock_lost", "redis_restart", "api_dies"}
SPECIFICATION FairSpec
PROPERTIES JobsSettle
CHECK_DEADLOCK FALSE
