SPECIFICATION Spec
CONSTANTS
  n1 = n1
  n2 = n2
  a1 = a1
  a2 = a2
  b1 = b1
  w1 = w1
  w2 = w2
  w3 = w3
  Callers = {n1, n2}
  Apis = {a1, a2, b1}
  Clients <- RestartClients
  Topics = {"t"}
  Types = {"T", "U"}
  AnyType = "*"
  Services = {}
  Keys <- NoKeys
  ParamValues <- ScalarOnly
  Workers = {w1, w2, w3}
  MaxPending = 2
SYMMETRY WorkerSymmetry
INVARIANTS
  TypeOK
  IndexSound
  TopicTypesMatchTopics
  NodeServed
PROPERTIES
  FirstTypeWins
  PublisherChangeNotified
CHECK_DEADLOCK FALSE
