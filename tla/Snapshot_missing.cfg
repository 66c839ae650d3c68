SPECIFICATION SnapSpec
CONSTANTS
  a = a  m1 = m1
  Subscriber <- One
  Item <- OneItem
  MaxEvents = 3
  MaxOutstanding = 2
  MaxSequence = 3
  MaxEpoch = 1
CHECK_DEADLOCK FALSE
INVARIANTS NothingMissing
