SPECIFICATION FairServiceSpec
CONSTANTS
  e1 = e1
  e2 = e2
  n1 = n1
  n2 = n2
  NoService = NoService
  Specs <- SmallSpecs
  Endpoint = {e1, e2}
  Conditions <- SomeConditions
  Node = {n1, n2}
  NodeOf <- TwoNodes
  Switch = {w1, w2}
  MaxEdits = 3
  MaxUpsets = 2
INVARIANTS
  LoadBalancersSound
  NothingLeftBehind
PROPERTIES
  ServiceSettles
CHECK_DEADLOCK FALSE
