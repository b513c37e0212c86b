CONSTANTS
  Plan <- UpdatePlan
  Workflow = "account_update"
  ReaperEnabled = TRUE
SPECIFICATION FairSpec
INVARIANTS HardStopFlags PartialMeansBoth
PROPERTIES ExecutesPlanAsRead
CHECK_DEADLOCK FALSE
