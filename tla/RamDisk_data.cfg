SPECIFICATION CommandSpec
CONSTANTS
  MaxNodes = 3
  MaxData = 3
  Names <- DataNames
  Bytes <- DataBytes
  Paths <- DataPaths
  Texts <- DataTexts
  Typed <- Entered
  MaxArgs = 4
  ArgLen = 6
  MaxName = 4
  MaxList = 1
  Meanings <- MCMeanings
VIEW TheDisk
PROPERTIES ArgumentsArrive ReadBack OnlyWritersChangeContent FailuresChangeNothing MessagesAreTrue
\* A recursion that does not end stops the machine.
CHECK_DEADLOCK FALSE
