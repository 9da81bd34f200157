SPECIFICATION Spec
CONSTANTS
  q1 = q1
  q2 = q2
  q3 = q3
  s1 = s1
  s2 = s2
  None = None
  Requests = {q1, q2}
  Saves = {s1, s2}
  LineEnds = {"lf", "mixed"}
  MaxEdits = 2
INVARIANTS PreviewCurrent BaselineIsFile
PROPERTIES AnswersKeepText
CHECK_DEADLOCK FALSE
