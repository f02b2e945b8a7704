CONSTANTS
  easy = easy
  hard = hard
  Nicks = {Player, bob}
  Player = Player
  Confs <- MCConfs
  Custom = custom
  Unknown = unknown
  Invalid = invalid
  None = none
  LocalOnes <- MCLocal
  PlNbMax = 2
  AskMax = 3
  ChangeMax = 2
SPECIFICATION Spec
INVARIANTS SettingsTypeOK ResponsesMatch SettingsAgree OnlyHastyThrownOut
CHECK_DEADLOCK FALSE
