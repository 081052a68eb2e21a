CONSTANTS
  s1 = s1
  s2 = s2
  c1 = c1
  c2 = c2
  c3 = c3
  a = a
  b = b
  d = d
  Torn = Torn
  Null = Null
  Sessions <- MCOneSession
  Calls <- MCCalls
  Home <- MCOneHome
  Texts <- MCThreeTexts
  RenameAttempts = 1
  MaxForeign = 0
SPECIFICATION Spec
INVARIANT SnapshotKept
CHECK_DEADLOCK FALSE
