SPECIFICATION FairSpec
CONSTANTS
  Container = {c1, c2}
  MaxBirths = 2
  MaxDels = 3
  MaxUpsets = 1
INVARIANTS
  ReadyHasPath
  HostSound
  CheckIsSound
PROPERTIES
  RequestsEnd
CHECK_DEADLOCK FALSE
