SPECIFICATION FairLoopSpec
CONSTANTS
  AddressSpace = 8
  MaxEntries = 2
  Blocks <- MCBlocks
INVARIANTS
  LoopIsExact
PROPERTIES
  Terminates
CHECK_DEADLOCK FALSE
