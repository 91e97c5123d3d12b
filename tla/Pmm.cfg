SPECIFICATION PmmSpec
CONSTANTS
  PageSize = 4
  LeastMemory = 24
  MostMemory = 40
  KernelEnd = 5
  AddressWord = 256
  Boots <- SomeBoots
INVARIANTS PagesSound KernelKept PagesExist PanicIsFull
\* A panic halts the machine.
CHECK_DEADLOCK FALSE
