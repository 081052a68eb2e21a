CONSTANTS
  none = none
  NoNote <- none
  Within <- MCWithin
  Values <- MCValues
  MaxPasses = 3
  MaxDecodes = 3
  Paths <- MCPaths
  PathTools = {"edit", "write"}
  Trimmed <- MCTrimmed
  HookFile <- MCHookFile
  GuardFile <- MCHookFile
  ToolFile <- MCToolFile
  Outside = {"o"}
  NoParent = {"x"}
  TtlMs = 1
  MaxPending = 2
  MaxAssociated = 1
  MaxNow = 2
  PendingMax = 3
  Tools = {"edit", "write", "bash"}
  MaxWindowSize = 3
  Threshold = 2
  AutoContinue = TRUE
  Signatures = {"A", "B", "C"}
  Batches <- MCBatches
  MaxShutdowns = 1
SPECIFICATION Spec
INVARIANTS TypeOK KeepsWhatWasSent DeletionsMeant PathNamed RepairSettles PassesSuffice
  NeverStricter NotesFit EnvelopeOnce AuditComplete AdvisedOnce
PROPERTIES NoteArrives BreaksAreLoops RetriesFire NoBlindOverwrite
CHECK_DEADLOCK FALSE
