CONSTANTS
  Peers = {a, b}
  Me = a
  Local = local
  LocalMax = 1
  PlNbMax = 2
  IdMax = 2
  ChanMax = 6
SPECIFICATION ClientSpec
INVARIANTS ClientTypeOK ViewConverges EventsAccepted
