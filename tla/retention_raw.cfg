SPECIFICATION Spec
CONSTANTS
  None = None
  Torn = Torn
  Request <- MCRequest
  CleanupFlags <- MCCleanupFlags
  StatusFlags <- MCStatusFlags
  MaxTime = 3
CHECK_DEADLOCK FALSE
PROPERTIES CleanupTakesUnheldRawOnly
