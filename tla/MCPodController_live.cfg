SPECIFICATION FairSpec
CONSTANTS
  p1 = p1
  p2 = p2
  s1 = s1
  s2 = s2
  NoPod = NoPod
  NoSubnet = NoSubnet
  Pod = {p1}
  Subnet = {s1, s2}
  AddressSpace = 8
  CidrOf <- TwoCidrs
  ExcludesOf <- NoExcludes
  Explicit <- NoExplicit
  NamespaceSubnets <- SecondNamespace
  DefaultSubnets = {s1}
  InitiallyActive = {}
  HostNetworkPods = {}
  CompletingPods = {p1}
  Graceful = TRUE
  MaxBirths = 1
  MaxStatus = 1
  MaxFaults = 1
  MaxRestarts = 1
  MaxLag = 1
PROPERTIES
  DeletionOfRunningCompletes
  PodGetsNetwork
CHECK_DEADLOCK FALSE
