CONSTANTS
  W = 3
  H = 6
  Colors = {1, 2, 3, 4}
  Conf <- MCConf
  KeyRepeat = 2
  Starts <- MCStarts
  StartCursor <- MCCursor
  KeySets <- MCKeySets
  Rows <- MCRows
  Garbages <- MCGarbages
  MaxEvents = 3
  MaxRaises = 1
SPECIFICATION Spec
INVARIANT LinesAreKept
CHECK_DEADLOCK FALSE
