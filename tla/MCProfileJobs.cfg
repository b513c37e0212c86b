CONSTANTS
  j1 = j1
  j2 = j2
  NoJob = NoJob
  Jobs = {j1, j2}
  Workers = {w1, w2}
  IntentOf <- SameIntent
  ReaperEnabled = TRUE
  SchedulerRuns = TRUE
  InlineFallback = FALSE
  Disturbances = {"worker_dies", "api_dies", "redis_restart", "enqueue_unacknowledged"}
SPECIFICATION Spec
SYMMETRY Symmetry
INVARIANTS TypeOK OneRunAtATime ExecutedOnce OneActivePerIntent
PROPERTY KeepsBoard
CHECK_DEADLOCK FALSE
