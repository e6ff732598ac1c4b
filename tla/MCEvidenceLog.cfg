SPECIFICATION Spec
CONSTANTS
  Null = Null
  Inputs = {test, build}
  authority = authority
  other = other
  key1 = key1
  secret1 = secret1
  secret2 = secret2
  Actors <- MCActors
  Authority = authority
  Ring <- MCRing
  ForeignRing <- MCForeignRing
  MaxLen = 3
  MaxSeals = 3
  MaxEdits = 3
INVARIANTS
  TypeOK
  ValidCopyWasSealed
