SPECIFICATION FairSpec
CONSTANTS
  c1 = c1
  c2 = c2
  c3 = c3
  Clients = {c1, c2, c3}
  MayDo <- OwnerMix
  Nobody = Nobody
  Msgs = {m1, m2}
  NoMsg = NoMsg
INVARIANTS
  EveryReferenceIsOwed
  AnswerReachesItsSender
  SendAnswersTruly
  Quiet
  EndMeansGone
PROPERTIES
  ImplementsMailbox
  EverySendReturns
  EveryStopGetsQuiet
  EveryEndReturns
