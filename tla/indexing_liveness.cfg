SPECIFICATION FairSpec
CONSTANTS
  p1 = p1
  p2 = p2
  r1 = r1
  r2 = r2
  i1 = i1
  i2 = i2
  c1 = c1
  None = None
  Projects = {p1}
  Actives = {p1}
  Revs = {r1, r2}
  Inits = {}
  Readers = {}
  MaxVerifyAttempts = 2
  MaxGeneration = 3
  MaxEdits = 1
  MaxQueue = 1
  MaxFaults = 0
  MaxRestarts = 0
PROPERTIES Converges
CHECK_DEADLOCK FALSE
