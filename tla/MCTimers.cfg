SPECIFICATION Spec
CONSTANTS
  Ids = {0}
  Mods = {"m1"}
  MaxInterval = 3
  MaxStarts = 3
INVARIANT ArmedForNext
PROPERTY RemovedNeverFires
INVARIANT NeverLate
