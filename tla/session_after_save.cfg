SPECIFICATION Spec
CONSTANTS
  q1 = q1
  q2 = q2
  q3 = q3
  s1 = s1
  s2 = s2
  None = None
  Requests = {q1}
  Saves = {s1}
  LineEnds = {"lf", "mixed"}
  MaxEdits = 2
PROPERTIES SaveKeepsText
CHECK_DEADLOCK FALSE
