SPECIFICATION FairSpec
CONSTANTS
  None = None
  Dunder <- MCDunder
  Call <- MCCall
  DefaultPosture <- Default
  ExecArgs <- MCExecArgs
  MaxWritten <- MCMaxWritten
  Capacity = 1
  Chunk = 2
CHECK_DEADLOCK FALSE
INVARIANTS TypeOK OnlyVettedRuns WiderPostureAccepts JoinedOutputComplete NothingLeftBehind ValidateForetellsRun
PROPERTIES ImplementsExecution CallEnds PipeDrains
