CONSTANTS
  Plan <- UpdatePlan
  Workflow = "account_update"
  ReaperEnabled = TRUE
SPECIFICATION FairSpec
INVARIANTS CompletedMeansApplied
CHECK_DEADLOCK FALSE
