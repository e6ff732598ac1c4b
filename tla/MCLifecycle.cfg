SPECIFICATION LifeSpec
CONSTANTS
  agent1 = agent1
  agent2 = agent2
  tool1 = tool1
  tool2 = tool2
  key1 = key1
  unknownKey = unknownKey
  secret1 = secret1
  secret2 = secret2
  nonce1 = nonce1
  nonce2 = nonce2
  Null = Null
  NoEvidence = NoEvidence
  NoReview = NoReview
  NoGrant = NoGrant
  NoReceipt = NoReceipt
  Running = Running
  Demo = Demo
  App = App
  Authority = Authority
  Author = Author
  ControlChars = {"newline"}
  LineSeparators = {"lineSeparator"}
  GrantIds = {"g1", "g2", "grant_demo_1"}
  Bodies <- MCBodies
  Requests <- MCRequests
  Callers <- MCCallers
  Times <- MCTimes
  Matching <- Matched
  Ring <- MCRing
  ForeignSignatures <- MCForeignSignatures
  MaxAllows = 4
CHECK_DEADLOCK FALSE
INVARIANTS
  LifeTypeOK
  AllowedByMintedGrant
  UseBudget
  DemoTellsWhatHappened
  RefusedForTheReasonShown
PROPERTIES
  AllowedWhileBudgetLasts
  PatternsMeanWhatTheySay
