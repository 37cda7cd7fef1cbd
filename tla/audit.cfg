SPECIFICATION Spec
CONSTANTS
  Proc = {p1, p2}
  Body = {b1, b2}
  MaxEvents = 2
  MaxOpens = 2
  MaxFaults = 1
SYMMETRY Processes
CHECK_DEADLOCK FALSE
INVARIANTS TypeOK HeadBindsHistory VerifiedHasOneWriter SoleRunVerifies ScanIsChainOK
PROPERTIES BrokenStaysBroken
