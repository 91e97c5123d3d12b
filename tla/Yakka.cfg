SPECIFICATION FairSpec
CONSTANTS
  MaxVars = 2
  MaxFuncs = 2
  MaxFuncLines = 4
  MaxOut = 20
  MaxRepeat = 3
  MaxCaptured = 5
  MaxText = 11
  MaxCalls = 2
  Scripts <- Sessions
  RunFile <- File
INVARIANTS YakkaSound RunsAsMeant
PROPERTIES Halts
\* A session ends with its last line.
CHECK_DEADLOCK FALSE
