SPECIFICATION Spec
CONSTANTS
  Model = {m1, m2}
  NoModel = NoModel
  MaxAutoRetry = 1
  MaxKeys = 3
  MaxOps = 2
  MaxSteps = 3
PROPERTY TicketsWait
CHECK_DEADLOCK FALSE
