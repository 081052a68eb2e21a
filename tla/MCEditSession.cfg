CONSTANTS
  s1 = s1
  s2 = s2
  c1 = c1
  c2 = c2
  c3 = c3
  a = a
  b = b
  d = d
  Torn = Torn
  Null = Null
  Sessions <- MCSessions
  Calls <- MCCalls
  Home <- MCHome
  Texts <- MCTexts
  RenameAttempts = 2
  MaxForeign = 1
SPECIFICATION Spec
INVARIANTS TypeOK AnswersTellTheTruth SavedSurvives
PROPERTIES NoSiblingOverwrite EveryCallEnds
CHECK_DEADLOCK FALSE
