SPECIFICATION PollingSpec
CONSTANTS
  c1 = c1
  c2 = c2
  Callers = {c1}
  MayDo <- SyncMix
  Nobody = Nobody
  Nothing = Nothing
  MaxPosted = 4
  MaxLoose = 0
  Lengths = {2}
  Rewritten = {}
  Answers = {"took", "abort"}
INVARIANTS
  PendingIsOwed
PROPERTIES
  EverySynchronizeReturns
  PollingCatchesUp
