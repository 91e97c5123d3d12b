SPECIFICATION Spec
CONSTANTS
  MaxNodes = 4
  MaxData = 1
  Names = {"a", "b"}
  Bytes = {0, 1}
  Paths <- TreePaths
  Texts <- TreeTexts
INVARIANTS TreeSound LoopsOutOfReach PwdRoundTrip
PROPERTIES NamesStayDistinct LoopOnlyBySelfMove
\* A recursion that does not end stops the machine.
CHECK_DEADLOCK FALSE
