SPECIFICATION Spec
CONSTANTS
  c1 = c1
  Calls = {c1}
  Other = Other
  Open = Open
  Lost = Lost
  MaxQueue = 1
  MaxRestarts = 1
INVARIANTS
  LostMeansRestart
  EndStateAgrees
PROPERTIES
  FailsOnlyBehindTheEnd
  SettlesOnce
  GoalAnswered
  FeedbackEnds
CHECK_DEADLOCK FALSE
