SPECIFICATION Spec
CONSTANTS
  N = 3
  Base <- MCBase
  Shifted <- MCShifted
  Keys = {"a", "lshift", "rshift", "print", "enter"}
  ShiftKeys = {"lshift", "rshift"}
  Make <- MCMake
  Break <- MCBreak
  Types <- MCTypes
  MaxStrokes = 3
INVARIANTS TypeOK TypedIsRead SleepsInterruptible
PROPERTIES RingIsQueue Drains
