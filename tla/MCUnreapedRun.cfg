CONSTANTS
  Plan <- ProfilePlan
  Workflow = "profile"
  ReaperEnabled = FALSE
SPECIFICATION FairSpec
PROPERTIES JobSettles
CHECK_DEADLOCK FALSE
