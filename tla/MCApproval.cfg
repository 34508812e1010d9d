CONSTANTS
  Deploy = deploy
  Drop = drop
  Top = top
  Sub = sub
  D1 = d1
  D2 = d2
  NoText = none
  Unreadable = unreadable
  Commands = {deploy, drop}
  Dirs = {top, sub}
  Texts = {d1, d2}
  LadeFiles <- MCLadeFiles
  MaxWindow = 2
  MaxRuns = 3
SPECIFICATION MCSpec
INVARIANTS FreshConsent ApprovedAsShown ApprovesLastLine CodeHonoured
CHECK_DEADLOCK FALSE
