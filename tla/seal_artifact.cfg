SPECIFICATION Spec
CONSTANTS
  Top = 3
  None = None
  Entropy <- SharesOf
  Broken = Broken
  Stray = Stray
  Artifact <- MCArtifact
  Config <- MCConfig
  AuditHead = {h1, h2}
  Sandbox = {None, sb}
  Routing <- MCRouting
  MaxEdits = 1
CHECK_DEADLOCK FALSE
INVARIANT ModifiedArtifactDetected
