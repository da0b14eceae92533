SPECIFICATION LiveSpec
CONSTANTS
  Script <- Two
  Room = 1
  MaxCalls = 2
INVARIANTS
  MuteIsUndone
  NoSettingIsLost
  SilenceHolds
  EndAfterSound
  ToldOnce
PROPERTIES
  EndIsTold
  CloseEnds
