SPECIFICATION OrderLiveSpec
CONSTANTS
  t1 = t1  t2 = t2  t3 = t3  t4 = t4  c1 = c1  d = d
  Turn <- Turns4
  Caller <- OneClient
  Drainer = d
  NoTurn = NoTurn  Hole = Hole  NoKey = NoKey
  KeyOf <- NoKeys
  InputOf <- SameInput
  MaxQueued = 2
  MaxRestarts = 1
  EarlyCalls = FALSE
  StoreFaults = FALSE
  Calls = {"start", "steer", "plan", "local"}
  Tails <- EndsOnce
  EarlyEvents = FALSE
  MaxCrashes = 0
  PromptFaults = TRUE
CONSTRAINT InOrder
ACTION_CONSTRAINT RestartsQueued
CHECK_DEADLOCK FALSE
INVARIANTS OneRunning SomethingWakes
PROPERTIES RestoredWaits QueueMoves
