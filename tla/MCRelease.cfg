SPECIFICATION Spec
CONSTANTS
  Null = Null
  NoEvidence = NoEvidence
  NoReview = NoReview
  authority = authority
  other = other
  author = author
  reviewer = reviewer
  key1 = key1
  secret1 = secret1
  secret2 = secret2
  Authority = authority
  Other = other
  EvidenceInputs <- MCEvidenceInputs
  InputsPath = "inputs.json"
  Flags = {"--out", "--json", "--kind", "--summary", "--file", "--content"}
  Bare = Bare
  Drafts <- MCDrafts
  CheckReports <- MCCheckReports
  Manifests <- MCManifests
  Ring <- MCRing
  ForeignRing <- MCForeignRing
  Scopes <- MCScopes
INVARIANTS
  TypeOK
  VerdictIsRight
  DeployedWasDecided
PROPERTY
  ExitZeroIffReady
