SPECIFICATION FairSpec
CONSTANTS
  NoPolicy = NoPolicy
  Policies <- SmallPolicies
  Pods = {p1, p2}
  MaxPriority = 6
  RuleBase = 5
  MaxEdits = 5
  MaxUpsets = 2
INVARIANTS
  ACLsFollow
  NoACLsLeft
  DeniesSound
PROPERTIES
  PolicySettles
CHECK_DEADLOCK FALSE
