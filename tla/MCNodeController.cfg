SPECIFICATION FairSpec
CONSTANTS
  a1 = a1
  a2 = a2
  n1 = n1
  n2 = n2
  Agent = {a1, a2}
  Node = {n1}
  AddressSpace = 4
  NumSubnets = 4
  Presets = {2}
  MaxBirths = 2
  MaxUpsets = 1
INVARIANTS
  TypeOK
PROPERTIES
  SubnetsStay
  NodesSettle
CHECK_DEADLOCK FALSE
