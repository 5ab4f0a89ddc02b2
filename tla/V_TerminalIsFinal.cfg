CONSTANTS
  Req = {r1, r2}
  Snapshot = {s1, s2}
  Key = {k1}
  None = None
  Moves = {"paused", "questioning", "cancelled"}
  MaxQuestions = 1
  MaxHints = 0
  MaxFeedback = 1
SPECIFICATION Spec
PROPERTY TerminalIsFinal
SYMMETRY Symmetry
CHECK_DEADLOCK FALSE
