SPECIFICATION FairSpec
CONSTANTS
  p1 = p1
  p2 = p2
  r1 = r1
  r2 = r2
  i1 = i1
  i2 = i2
  c1 = c1
  None = None
  Projects = {p1}
  Actives = {p1}
  Revs = {r1}
  Inits = {i1}
  Readers = {c1}
  MaxVerifyAttempts = 2
  MaxGeneration = 2
  MaxEdits = 0
  MaxQueue = 0
  MaxFaults = 1
  MaxRestarts = 1
INVARIANTS SingleFlight NoLostWakeup
PROPERTY Settles
CHECK_DEADLOCK FALSE
