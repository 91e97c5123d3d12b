SPECIFICATION Spec
CONSTANTS
  MaxVars = 2
  MaxFuncs = 2
  MaxFuncLines = 4
  MaxOut = 20
  MaxRepeat = 3
  MaxCaptured = 5
  MaxText = 11
  MaxCalls = 2
  Scripts <- Sessions
  RunFile <- File
INVARIANT TypedRunsAsFile
CHECK_DEADLOCK FALSE
