SPECIFICATION Spec
CONSTANTS
  p1 = p1
  p2 = p2
  s1 = s1
  s2 = s2
  NoPod = NoPod
  NoSubnet = NoSubnet
  Pod = {p1, p2}
  Subnet = {s1}
  AddressSpace = 4
  CidrOf <- OneCidr
  ExcludesOf <- NoExcludes
  Explicit <- NoExplicit
  NamespaceSubnets <- NoNamespaces
  DefaultSubnets = {}
  InitiallyActive = {}
  HostNetworkPods = {}
  CompletingPods = {}
  Graceful = FALSE
  MaxBirths = 2
  MaxStatus = 0
  MaxFaults = 1
  MaxRestarts = 1
  MaxLag = 1
SYMMETRY PodSymmetry
INVARIANTS
  TypeOK
  UniqueUnlessReleasedInUse
  AddressIsGuarded
  PortsFollowPods
PROPERTIES
  AnnotationNeverChanges
CHECK_DEADLOCK FALSE
