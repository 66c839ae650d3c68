SPECIFICATION BudgetLiveSpec
CONSTANTS
  a = a  b = b  c = c  d = d
  Call <- Calls4
  SessionOf <- TwoSessions
  ClassOf <- Mixed
  MaxTotal = 1
  MaxClass <- OneEach
  MaxSession = 1
  MaxQueued = 2
  Timeouts = TRUE
CHECK_DEADLOCK FALSE
INVARIANTS BudgetInv MutationWaitsAside QueueBounded
PROPERTIES EveryCallSettles
