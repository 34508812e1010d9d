CONSTANTS
  Name = {k, odd, port}
  Numeric = {port}
  Odd = {odd}
  File = {f}
  Depth = 3
  K = k
SPECIFICATION MCSpec
INVARIANTS Overlaid RefusalExact RegularFilesAgree
CHECK_DEADLOCK FALSE
