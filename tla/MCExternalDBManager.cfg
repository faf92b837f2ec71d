SPECIFICATION FairSpec
CONSTANTS
  Callers = {a1}
  Loops = {l1, l2}
  Reconnects = {r1, r2}
  Free = Free
  MaxClients = 3
  MaxFailures = 1
  MaxCalls = 3
  Limits = {0, 1}
INVARIANTS
  ClientsSound
  ClosedStaysClosed
PROPERTIES
  CloseReturnsUnlessChecking
  Recovers
CHECK_DEADLOCK FALSE
