SPECIFICATION Spec
CONSTANTS
  Proc = {p1}
  Body = {b1}
  MaxEvents = 2
  MaxOpens = 2
  MaxFaults = 0
CHECK_DEADLOCK FALSE
INVARIANT PrevIsEventHash
