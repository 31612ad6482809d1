CONSTANTS
  Pids = {p1, p2, p3}
  MaxForks = 3
  MaxRestarts = 1
  ServerMaxInstances = 2
  max_connects = 2
  ShutTimes = {"ahead", "passed"}
SYMMETRY PidSymmetry
SPECIFICATION Spec
INVARIANT ListIsChildren
INVARIANT MaxInstancesEnforced
PROPERTY RebindWithoutHolders
