SPECIFICATION Spec
CONSTANTS
  Keys <- MCKeys
  Values <- MCValues
  Typed <- MCTyped
  Fits <- MCFits
  Bound <- MCBound
  Default <- MCDefault
  Width <- MCWidth
  Unset = "unset"
  NoCache = NoCache
  Arrows <- MCArrows
  Flip <- MCFlip
  Typing <- MCTyping
  Stores <- MCStores
  ForeignFiles <- MCForeignFiles
  MaxNow = 1
  MaxCommits = 2
  MaxOpenings = 1
INVARIANTS TypeOK InLimits
PROPERTIES RunsWhatIsStored AsksFirst UntouchedStays SavesWhatIsShown
