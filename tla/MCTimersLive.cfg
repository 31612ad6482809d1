SPECIFICATION FairSpec
CONSTANTS
  Ids = {0}
  Mods = {"m1"}
  MaxInterval = 2
  MaxStarts = 2
PROPERTY TimersFire
PROPERTY SleepEnds
