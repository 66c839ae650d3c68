SPECIFICATION MainLiveSpec
CONSTANTS
  r1 = r1  r2 = r2  p1 = p1  p2 = p2
  Run <- Runs2
  NoRun = NoRun
  Prompter <- Prompters2
  MaxAborts = 1
  MaxCrashes = 1
  MaxLosses = 1
CHECK_DEADLOCK FALSE
INVARIANTS MainInv ClosesOwnTurn
PROPERTIES ImplementsPort EveryTurnCloses MainFrees
