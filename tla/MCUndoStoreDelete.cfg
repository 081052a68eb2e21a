CONSTANTS
  s1 = s1
  s2 = s2
  p1 = p1
  p2 = p2
  p3 = p3
  Sessions <- MCOneSession
  Paths <- MCThreePaths
  Sizes <- MCSizes
  PutBudget = 4
  DeleteBudget = 3
  RenameAttempts = 2
  MaxOps = 3
  Null = Null
  Junk = Junk
SPECIFICATION Spec
PROPERTY DeleteDropsNothingElse
CHECK_DEADLOCK FALSE
