SPECIFICATION Spec
CONSTANTS
  AddressSpace = 20
  Cidr <- MCCidr
  Excludes <- MCExcludes
INVARIANTS
  TypeOK
  CounterAccurate
  ExcludedStaysTaken
PROPERTY ImplementsPool
