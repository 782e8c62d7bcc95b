SPECIFICATION Spec
CONSTANTS
  u1 = u1
  u2 = u2
  h1 = h1
  h2 = h2
  w1 = w1
  m1 = m1
  m2 = m2
  Users = {u1, u2}
  Handlers = {h1, h2}
  Waiters = {w1}
  Messages = {m1, m2}
  MaxFaults = 1
SYMMETRY Symmetry
INVARIANTS
  ListedWhileOpen
  ReleasedAtEnd
  NoPeerMissed
  SentInOrder
  LatestSent
CHECK_DEADLOCK FALSE
