SPECIFICATION ReviewSpec
CONSTANTS
  Candidates <- MCCandidates
  Registries <- MCRegistries
  Sources <- MCSources
  Horizon = 2
  MaxEdits = 2
  NoArtifact = NoArtifact
  ByHand = ByHand
  Dimensions = {"design_consistency", "interaction_quality", "maintainability", "architecture_depth"}
  Required <- MCRequired
  Scopes <- MCScopes
INVARIANTS
  ReviewTypeOK
  ValidIsFounded
  CitationsUnambiguous
PROPERTIES
  ExitZeroIffGoverned
  TimeOnlyExpires
  ReviewJudgesFindings
