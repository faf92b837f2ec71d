SPECIFICATION FairSpec
CONSTANTS
  Subnet = {s1}
  NoSubnet = NoSubnet
  ExternalName = ext
  Pods = {p1}
  PoolOf <- SmallPools
  MaxBirths = 2
  MaxUpsets = 1
  MaxLag = 1
INVARIANTS
  AllocatorsSound
  StatusAddsUp
  SwitchFollowsSpec
PROPERTIES
  RespectsZStack
  OnlyDeletionRemoves
  SubnetSettles
CHECK_DEADLOCK FALSE
