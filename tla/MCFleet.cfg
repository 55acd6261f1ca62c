CONSTANTS
  Runners = {"process", "docker", "agent"}
  MaxAttempts = 2
  Threshold = 2
  MaxLaunches = 3
  MaxProbes = 2
  MaxPids = 2
SPECIFICATION FairSpec
INVARIANT OneInstance
INVARIANT OrphansAreFinished
INVARIANT StoppedStaysStopped
 
 
CHECK_DEADLOCK FALSE
