SPECIFICATION FairSpec
CONSTANTS
  c1 = c1
  c2 = c2
  Callers = {c1, c2}
  MayDo <- StopperMix
  Nobody = Nobody
  Nothing = Nothing
  MaxPosted = 3
  MaxLoose = 0
  Lengths = {2}
  Rewritten = {}
  Answers = {"took"}
INVARIANTS
  StopIsClean
PROPERTIES
  EveryStopReturns
  HeldIsLetGo
