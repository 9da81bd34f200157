SPECIFICATION Spec
CONSTANTS
  p1 = p1
  p2 = p2
  r1 = r1
  r2 = r2
  i1 = i1
  i2 = i2
  c1 = c1
  None = None
  Projects = {p1, p2}
  Actives = {p1, p2}
  Revs = {r1}
  Inits = {i1}
  Readers = {}
  MaxVerifyAttempts = 2
  MaxGeneration = 2
  MaxEdits = 2
  MaxQueue = 0
  MaxFaults = 0
  MaxRestarts = 0
INVARIANTS QuiescentFresh QuiescentVerified
PROPERTIES VerifiedKept
SYMMETRY Symmetry
CHECK_DEADLOCK FALSE
