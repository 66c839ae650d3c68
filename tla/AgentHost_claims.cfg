SPECIFICATION HostSpec
CONSTANTS
  t1 = t1  t2 = t2  t3 = t3  c1 = c1  d = d
  Turn <- Turns3
  Caller <- OneClient
  Drainer = d
  NoTurn = NoTurn  Hole = Hole  NoKey = NoKey
  KeyOf <- NoKeys
  InputOf <- SameInput
  MaxQueued = 2
  MaxRestarts = 1
  EarlyCalls = FALSE
  StoreFaults = TRUE
  Calls = {"start", "steer", "cancel", "send_now", "attach", "interrupt", "local", "plan"}
  Tails <- EndsTwice
  EarlyEvents = TRUE
  MaxCrashes = 1
  PromptFaults = TRUE
CONSTRAINT FewFaults
ACTION_CONSTRAINT RestartsQueued
SYMMETRY Sym
CHECK_DEADLOCK FALSE
INVARIANTS HostTypeOK
PROPERTIES NoLossNoRepeat NeverResurrected
