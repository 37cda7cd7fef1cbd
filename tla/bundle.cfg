SPECIFICATION BundleSpec
CONSTANTS
  Body = {}
  Top = 3
  None = None
  Entropy <- SharesOf
  Broken = Broken
  Absent = Absent
  Torn = Torn
  Proc = {p1}
  Request <- MCRequest
  Replacement <- MCReplacement
  MaxRuns = 2
  Run = {r1, r2}
SYMMETRY RunIdsAlike
CHECK_DEADLOCK FALSE
INVARIANTS BundleTypeOK CompletedBundleVerifies SavedVerdictStands ManifestedBundleIsOneRun OkVouchesForParts CommandsAgree
PROPERTY BundleImplementsEvidence
