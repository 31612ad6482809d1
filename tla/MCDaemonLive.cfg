CONSTANTS
  Pids = {p1, p2}
  MaxForks = 2
  MaxRestarts = 1
  ServerMaxInstances = 2
  max_connects = 0
  ShutTimes = {}
SPECIFICATION FairSpec
PROPERTIES
  TermStopsAll
  
  RestartHappens
\* The daemon and its children end.
CHECK_DEADLOCK FALSE
