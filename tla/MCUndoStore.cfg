CONSTANTS
  s1 = s1
  s2 = s2
  p1 = p1
  p2 = p2
  p3 = p3
  Sessions <- MCSessions
  Paths <- MCPaths
  Sizes <- MCSizes
  PutBudget = 3
  DeleteBudget = 2
  RenameAttempts = 2
  MaxOps = 3
  Null = Null
  Junk = Junk
SPECIFICATION Spec
SYMMETRY Symmetric
INVARIANTS TypeOK LostOnlyInKnownWindows DumpWithinBudget
PROPERTIES EvictionDropsOldest DumpIsAMap
CHECK_DEADLOCK FALSE
