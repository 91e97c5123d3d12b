SPECIFICATION Spec
CONSTANTS
  Sources <- AllSources
  MaxDigits = 3
  MaxName = 6
  MaxStr = 4
  IntWord = 32
  Word = 64
  MaxArgs = 2
  Files <- SomeFiles
  MaxFiles = 2
  Functions = {"f"}
  Answers <- TypedLines
  Times = {0, 5}
INVARIANTS
  ParserSound
  ValueIsMeaning
  ExpressionsAreRead
  TokensMakeUpLine
\* A line is read to its end, or to a division no processor does.
CHECK_DEADLOCK FALSE
