SPECIFICATION Spec
CONSTANTS
  s1 = s1
  s2 = s2
  p1 = p1
  p2 = p2
  c1 = c1
  c2 = c2
  c3 = c3
  Streams = {s1, s2}
  Publishers = {p1, p2}
  Connections = {c1, c2, c3}
  MaxUpdates = 2
  MaxFaults = 1
SYMMETRY Symmetry
INVARIANTS
  EntriesLive
  RegistrationShared
CHECK_DEADLOCK FALSE
