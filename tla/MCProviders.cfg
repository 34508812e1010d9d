CONSTANTS
  Name = {x, y, z}
  Sources <- MCSources
SPECIFICATION FairSpec
INVARIANTS OwnValue NoneLost NothingLeft
PROPERTIES ScriptsEnd
CHECK_DEADLOCK FALSE
