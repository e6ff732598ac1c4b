SPECIFICATION GateSpec
CONSTANTS
  Dimensions = {"test_depth", "evidence_completeness", "security_impact"}
  Required <- MCRequired
  Expiries = {2, 3}
  NoResult = NoResult
  CreatedAt = 2
  MaxGrades = 3
  MaxExceptions = 2
INVARIANTS
  GateTypeOK
  AcceptedIffEveryDimensionIs
  NothingHidden
PROPERTY
  GradesDoNotMix
