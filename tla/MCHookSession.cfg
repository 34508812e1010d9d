CONSTANTS
  Shell = {s1, s2}
  MaxFaults = 1
SPECIFICATION HookSpec
SYMMETRY Symmetry
INVARIANTS HookTypeOK EnvRestored ForwardsTracked
PROPERTY UserFileTaken
