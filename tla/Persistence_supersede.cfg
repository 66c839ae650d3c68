SPECIFICATION PersistenceSpec
CONSTANTS
  other = other  reply1 = reply1  None = None
  Row = {other, reply1}
  SessionOf <- Two
  Reply = {reply1}
  Twice = {reply1}
  Deletable = {"s1"}
  MaxEntries = 2
  MaxExits = 2
  MaxLost = 1
  Timeouts = {reply1}
CHECK_DEADLOCK FALSE
INVARIANTS FinalSupersedes
