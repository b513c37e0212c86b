CONSTANTS
  Plan <- ProfilePlan
  Workflow = "profile"
  ReaperEnabled = TRUE
SPECIFICATION FairSpec
INVARIANTS TypeOK EffectsJournaled RowsSettled ChildEndsFirst
PROPERTIES ExecutesPlan JobSettles
CHECK_DEADLOCK FALSE
