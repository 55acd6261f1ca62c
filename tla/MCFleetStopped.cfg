CONSTANTS
  Runners = {"process"}
  MaxAttempts = 2
  Threshold = 2
  MaxLaunches = 3
  MaxProbes = 2
  MaxPids = 1
SPECIFICATION FairSpec
PROPERTY StoppedByHandStaysDown
CHECK_DEADLOCK FALSE
