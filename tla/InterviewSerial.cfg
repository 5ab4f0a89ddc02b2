CONSTANTS
  Req = {r1}
  Snapshot = {s1, s2}
  Key = {k1, k2}
  None = None
  Moves = {"paused", "questioning", "cancelled"}
  MaxQuestions = 2
  MaxHints = 2
  MaxFeedback = 2
SPECIFICATION Spec
PROPERTY ServesContract
CHECK_DEADLOCK FALSE
