SPECIFICATION Spec
CONSTANTS
  Model = {m1, m2}
  NoModel = NoModel
  MaxAutoRetry = 1
  MaxKeys = 3
  MaxOps = 2
  MaxSteps = 3
SYMMETRY Symmetric
INVARIANTS TypeOK TicketOnce RemovedStays EveryDownloadKnown
CHECK_DEADLOCK FALSE
