SPECIFICATION SnapLiveSpec
CONSTANTS
  a = a  m1 = m1
  Subscriber <- One
  Item <- OneItem
  MaxEvents = 3
  MaxOutstanding = 2
  MaxSequence = 4
  MaxEpoch = 1
CHECK_DEADLOCK FALSE
INVARIANTS SnapInv LiveIsCurrent InFlightAsOfCursor
PROPERTIES NoSilentLoss ImplementsFeed CatchesUp
