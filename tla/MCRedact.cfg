CONSTANTS
  A = A
  B = B
  N = N
  R = R
  Newline = N
  Return = R
  Letters <- MCLetters
  Values <- MCValues
  Maskable <- MCMaskable
  Outputs <- MCOutputs
  Terminals <- MCTerminals
  Platforms = {"linux", "macos"}
  Chunk = 5
SPECIFICATION FairSpec
INVARIANTS TypeOK ChunkingInvisible NoSecretInClear HeldBack
PROPERTIES Returns
CHECK_DEADLOCK FALSE
