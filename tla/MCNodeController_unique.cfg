SPECIFICATION FairSpec
CONSTANTS
  a1 = a1
  a2 = a2
  n1 = n1
  n2 = n2
  Agent = {a1}
  Node = {n1, n2}
  AddressSpace = 4
  NumSubnets = 4
  Presets = {}
  MaxBirths = 2
  MaxUpsets = 0
INVARIANTS
  UniqueNodeSubnets
CHECK_DEADLOCK FALSE
