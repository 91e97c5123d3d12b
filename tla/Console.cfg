SPECIFICATION Spec
CONSTANTS
  Width = 4
  Height = 3
  TabStop = 2
  MaxAbove = 1
  Glyphs <- MCGlyphs
INVARIANTS
  ScreenSound
PROPERTIES
  IsPaper
\* The bound on the rows that have scrolled off ends the text.
CHECK_DEADLOCK FALSE
