CONSTANTS
  Keyboards = {1, 2}
  Joysticks = {}
  NoMapping = 0
  Debug = TRUE
  PlNbMax = 2
  PlIdMax = 3
  MatchMax = 1
  FlightMax = 2
SPECIFICATION Spec
INVARIANTS
  ScreensTypeOK
  FramesShowPlayers
  MappingsApart
  
  
PROPERTY JoiningEnds
CHECK_DEADLOCK FALSE
