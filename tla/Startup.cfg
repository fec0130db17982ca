SPECIFICATION Spec
CONSTANTS
  Starts <- MCStarts
  DigitValue <- MCDigitValue
  IntMod = 64
  LongMod = 256
  POLL_TIME_DEFAULT = 6
  GATE_TIME_DEFAULT = 4
  TIMEO_NET_DEFAULT = 8
  MSEC = 4
  MAX_PORT = 24
  MAX_MESSAGE = 2
  FWD_BUF = 8
  START_AV_SZ = 2
INVARIANTS
  TypeOK
  SettingsFit
  ArrayFits
  OrdinaryLineKept
  PidFileGone
  ConfigReaches
