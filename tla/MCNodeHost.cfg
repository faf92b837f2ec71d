SPECIFICATION FairHostSpec
CONSTANTS
  Nic = {"eth1"}
  Cidr = {"c1", "c2"}
  Service = {"s1", "s2"}
  Ip = {"ip1", "ip2"}
  MaxHostUpsets = 2
INVARIANTS
  GatewaySound
  TunnelsFollowConfig
PROPERTIES
  AgentComesUp
CHECK_DEADLOCK FALSE
