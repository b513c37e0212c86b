CONSTANTS
  NoOne = NoOne
  Requests = {r1}
  Workers = {w1}
  RequireLimiter = FALSE
  Disturbances = {"process_dies"}
SPECIFICATION FairSpec
PROPERTIES DeliveryRecorded
CHECK_DEADLOCK FALSE
