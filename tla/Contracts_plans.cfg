SPECIFICATION ContractLiveSpec
CONSTANTS
  c1 = c1  c2 = c2
  Contract = {c1, c2}
  None = None
  MaxPrompts = 2
  MaxExits = 1
  MaxLosses = 1
  MaxAborts = 1
  MaxTroubles = 2
CHECK_DEADLOCK FALSE
INVARIANTS ContractInv RunsOnce
PROPERTIES SettledStays ExecutionEnds
