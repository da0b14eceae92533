SPECIFICATION Spec
CONSTANTS
  c1 = c1
  c2 = c2
  Callers = {c1}
  MayDo <- PollMix
  Nobody = Nobody
  Nothing = Nothing
  MaxPosted = 3
  MaxLoose = 1
  Lengths = {2}
  Rewritten = {1, 3}
  Answers = {"took", "again", "abort"}
INVARIANTS
  TypeOK
  EqualMeansNothing
  HeardInOrder
  CaughtUpHeardAll
  HeldWhileRead
