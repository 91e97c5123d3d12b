SPECIFICATION Spec
CONSTANTS
  MaxNodes = 3
  MaxData = 1
  Names = {"a", "b"}
  Bytes = {0}
  Paths <- RenamePaths
  Texts <- NoTexts
PROPERTY RenameKeepsTheFile
\* A recursion that does not end stops the machine.
CHECK_DEADLOCK FALSE
