SPECIFICATION OverlapSpec
CONSTANTS
  t1 = t1  t2 = t2  t3 = t3  c1 = c1  c2 = c2  k1 = k1
  Turn <- Turns3
  Caller = {c1, c2}
  NoTurn = NoTurn  Hole = Hole  NoKey = NoKey
  KeyOf <- Retried
  InputOf <- SameInput
  MaxQueued = 3
  MaxRestarts = 1
  EarlyCalls = FALSE
  StoreFaults = TRUE
CHECK_DEADLOCK FALSE
INVARIANTS QueueTypeOK ClaimedOnce ClaimedLeftStore SoundUndisturbed
