SPECIFICATION Spec
CONSTANTS
  Sessions = {TRUE, FALSE}
  PanicSize = 2
  MaxFaults = 1
  MaxSpurious = 1
  Lines <- MCLines
  Exceptions <- MCExceptions
  Ends <- MCEnds
INVARIANTS
  StartSound
  DevicesNeverPanic
PROPERTIES
  StartEnds
  RequestsServed
\* The kernel stops: in kernel_main's loop, in panic, or by a reset.
CHECK_DEADLOCK FALSE
