SPECIFICATION Spec
CONSTANTS
  Body = {}
  Top = 3
  None = None
  Entropy <- SharesOf
  Broken = Broken
  Absent = Absent
  Torn = Torn
  Proc = {p1, p2}
  Request <- MCRequest
  MaxRuns = 2
SYMMETRY Processes
CHECK_DEADLOCK FALSE
INVARIANTS TypeOK EvidenceIsLogged StoredSealsVerify LoneRunVerifies CacheHitSound
PROPERTY ImplementsEvidence
