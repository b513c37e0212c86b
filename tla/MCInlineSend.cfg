CONSTANTS
  NoOne = NoOne
  Requests = {r1, r2}
  Workers = {w1}
  RequireLimiter = TRUE
  Disturbances = {}
SPECIFICATION Spec
INVARIANTS DeliveredOnce
CHECK_DEADLOCK FALSE
