SPECIFICATION HostSpec
CONSTANTS
  t1 = t1  t2 = t2  t3 = t3  c1 = c1  d = d
  Turn <- Turns3
  Caller <- OneClient
  Drainer = d
  NoTurn = NoTurn  Hole = Hole  NoKey = NoKey
  KeyOf <- NoKeys
  InputOf <- SameInput
  MaxQueued = 2
  MaxRestarts = 0
  EarlyCalls = FALSE
  StoreFaults = FALSE
  Calls = {"start"}
  Tails <- EndsOnce
  EarlyEvents = FALSE
  MaxCrashes = 1
  PromptFaults = FALSE
SYMMETRY Sym
CHECK_DEADLOCK FALSE
INVARIANTS ActiveHasRun
