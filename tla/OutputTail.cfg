CONSTANTS
  A = A
  B = B
  N = N
  R = R
  Newline = N
  Return = R
  Letters <- MCLetters
  Values <- MCValues
  Maskable <- MCMaskable
  Outputs <- MCOutputs
  Terminals <- MCTerminals
  Platforms = {"linux", "macos"}
  Chunk = 5
SPECIFICATION Spec
INVARIANTS OutputComplete
CHECK_DEADLOCK FALSE
