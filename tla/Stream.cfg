\* Two asks for sound over points at most half a word apart, with two marks.
SPECIFICATION MarksSpec
CONSTANTS
  Junk = Junk
  Word = 10
  Want = 4
  Gaps <- NearGaps
  Values <- PlusMinus
  MaxMoment = 6
  MaxRoom = 8
  Step = 3
  Rate = 5
  Second = 4
  MaxMarks = 2
  MaxShort = 6
  Asks <- Asked
INVARIANTS
  MarksTypeOK
  PointsComeBack
  RingHoldsWhatIsOwed
  FrameIsOnTheLine
  MarkKeepsItsPlace
