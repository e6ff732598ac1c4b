SPECIFICATION FairScriptSpec
CONSTANTS
  Nodes = {1, 2, 3}
  Orders = {1, 2}
  Undeclared = Undeclared
  NoLayer = NoLayer
  Running = Running
  Elsewhere = Elsewhere
  Exceptions <- MCExceptions
  MaxFiles = 2
INVARIANTS
  ScriptTypeOK
  FoundIffCyclic
  ReportedAreCycles
  CyclesHaveACause
  ExitZeroIffSound
  ImpactIsExact
PROPERTY
  Exits
CHECK_DEADLOCK FALSE
