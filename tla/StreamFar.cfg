\* Points a whole word apart.
SPECIFICATION Spec
CONSTANTS
  Junk = Junk
  Word = 16
  Want = 2
  Gaps <- FarGaps
  Values <- PlusMinus
  MaxMoment = 16
  MaxRoom = 8
INVARIANTS
  ReadingPutsItBackTogether
