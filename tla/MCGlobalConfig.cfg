CONSTANTS
  a = a
  b = b
  c = c
  NoUser = NoUser
  Procs <- MCProcs
  Plans <- MCPlans
  Outdated <- MCOutdated
  Day = 1
  MaxTime = 2
SPECIFICATION Spec
INVARIANTS ConfigWhole UserKeptUnlessRaced OncePerDay
CHECK_DEADLOCK FALSE
