SPECIFICATION FairSpec
CONSTANTS
  n1 = n1
  n2 = n2
  a1 = a1
  a2 = a2
  b1 = b1
  w1 = w1
  w2 = w2
  w3 = w3
  Callers = {n1, n2}
  Apis = {a1, b1}
  Clients <- UniqueClients
  Topics = {"t"}
  Types = {"T"}
  AnyType = "*"
  Services = {"s"}
  Keys <- OneKey
  ParamValues <- ScalarOnly
  Workers = {w1, w2}
  MaxPending = 2
INVARIANT RegistrationsReachable
PROPERTY ClosedServeEnds
CHECK_DEADLOCK FALSE
