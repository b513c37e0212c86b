CONSTANTS
  NoOne = NoOne
  Requests = {r1, r2}
  Workers = {w1}
  RequireLimiter = TRUE
  Disturbances = {"process_dies", "late_error"}
SPECIFICATION FairSpec
INVARIANTS SentMeansDelivered OneAtTelegram
PROPERTIES RowLockReturned
CHECK_DEADLOCK FALSE
