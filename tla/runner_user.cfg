SPECIFICATION Spec
CONSTANTS
  None = None
  Dunder <- MCDunder
  Call <- MCCall
  DefaultPosture <- Default
  ExecArgs <- MCExecArgs
  MaxWritten <- MCMaxWritten
  Capacity = 1
  Chunk = 2
CHECK_DEADLOCK FALSE
PROPERTIES SafeScriptIsWritten
