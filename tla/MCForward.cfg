CONSTANTS
  Pid = {1, 2}
  MaxFaults = 2
SPECIFICATION FairForward
INVARIANT NoOrphan
PROPERTIES StraySignals ConstructReturns DropReturnsUnlessRestarting
CHECK_DEADLOCK FALSE
