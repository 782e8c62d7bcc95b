SPECIFICATION Spec
CONSTANTS
  k1 = k1
  k2 = k2
  v1 = v1
  v2 = v2
  c1 = c1
  c2 = c2
  Callers = {k1, k2}
  Servers = {v1, v2}
  Connections = {c1, c2}
  None = None
  MaxCuts = 1
  MaxErrors = 1
  MaxFaults = 1
INVARIANTS
  AnswersOwn
  ConnectionsAccounted
  ListedServes
  ServingListed
PROPERTIES
  CallEnds
CHECK_DEADLOCK FALSE
