SPECIFICATION Spec
CONSTANTS
  c1 = c1
  c2 = c2
  Callers = {c1, c2}
  MayDo <- StopperMix
  Nobody = Nobody
  Nothing = Nothing
  MaxPosted = 2
  MaxLoose = 0
  Lengths = {2}
  Rewritten = {}
  Answers = {"took"}
INVARIANTS
  EqualMeansNothing
