\* Two slots of one service; a voice service runs two operations.
CONSTANTS
  Run = {r1, r2}
  MaxDeltas = 1
  MaxAttempts = 2
  Tries = 2
  MaxRuns = 2
SPECIFICATION FairSpec
INVARIANTS TypeOK FreshOutput CallsAreBounded
PROPERTY RunsEnd
\* A service ends with its request or its socket.
CHECK_DEADLOCK FALSE
