SPECIFICATION Spec
CONSTANTS
  Null = Null
  Procs = {p1, p2}
  Inputs = {test}
  Authority = cli
  key1 = key1
  secret1 = secret1
  secret2 = secret2
  Rings <- MCRings
  MaxSeals = 4
INVARIANT
  SealedIsKept
