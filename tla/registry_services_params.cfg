SPECIFICATION Spec
CONSTANTS
  n1 = n1
  n2 = n2
  a1 = a1
  a2 = a2
  b1 = b1
  w1 = w1
  w2 = w2
  w3 = w3
  Callers = {n1, n2}
  Apis = {a1, a2, b1}
  Clients <- RestartClients
  Topics = {}
  Types = {"T", "U"}
  AnyType = "*"
  Services = {"s"}
  Keys <- NestedKeys
  ParamValues <- DictionaryOnly
  Workers = {w1, w2, w3}
  MaxPending = 2
SYMMETRY WorkerSymmetry
INVARIANTS
  NodeHasRegistration
  ServiceOwnerCurrent
PROPERTIES
  ServiceTakenByCall
CHECK_DEADLOCK FALSE
