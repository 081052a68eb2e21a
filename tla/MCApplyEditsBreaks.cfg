SPECIFICATION Spec
SYMMETRY Symmetric
CONSTANTS
  Block = {b1, b2}
  LF = LF
  CR = CR
  SP = SP
  EscapedLF = EscapedLF
  Quote = Quote
  EscapedQuote = EscapedQuote
  CurlyQuote = CurlyQuote
  x = x
  y = y
  MaxExpandLines = 2
  AlreadyAppliedMin = 2
  AlreadyAppliedStrong = 3
  SurplusChars = 3
  Files <- CRLFFile
  Asks <- PlainAsks
INVARIANT NoLoneCR
CHECK_DEADLOCK FALSE
