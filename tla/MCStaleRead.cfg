CONSTANTS
  c1 = c1
  c2 = c2
  Calls <- MCCalls
  ToleranceMs = 1
  MaxClock = 3
  MaxForeign = 2
SPECIFICATION Spec
SYMMETRY Symmetric
INVARIANTS TypeOK
PROPERTIES SilentOnlyInWindows NoSelfBlock BlockedOncePerDrift
