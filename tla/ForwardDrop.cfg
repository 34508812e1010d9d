CONSTANTS
  Pid = {1, 2}
  MaxFaults = 2
SPECIFICATION FairForward

PROPERTY DropReturns
CHECK_DEADLOCK FALSE
