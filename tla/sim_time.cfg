SPECIFICATION FairSpec
CONSTANTS
  s1 = s1
  s2 = s2
  Sleepers = {s1, s2}
  Durations = {1, 2}
  MaxTime = 3
  Run = "run"
  Nobody = "nobody"
INVARIANTS
  LockSound
  NoLostWakeup
PROPERTY SleepEnds
