CONSTANTS
  N = 3
  Modes = {"inject", "set", "mcp"}
SPECIFICATION FairSpec
INVARIANTS NoFileLeft RunsComplete OnlyAbandonedLeft
PROPERTIES Ends
CHECK_DEADLOCK FALSE
