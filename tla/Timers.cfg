SPECIFICATION FairSpec
CONSTANTS
  u3 = u3
  Users = {u1, u2, u3}
  Period <- Periods
  Word = 8
  FailsAt = {0, 2}
  Nobody = Nobody
INVARIANTS
  TimersAreInPlace
  ThreadWhileTimers
PROPERTIES
  EveryTimerIsCounted
  CallsReturn
