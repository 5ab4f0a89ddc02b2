\* Two questions of two frames, one button and a resume, one lost connection.
CONSTANTS
  MaxStreams = 2
  MaxFrames = 2
  MaxControls = 1
  MaxBreaks = 1
  MaxInFlight = 4
  MaxAttempts = 1
SPECIFICATION Spec
INVARIANTS TypeOK HeardIsUncut ConfirmedOnce EndedIsQuiet
\* An interview that has ended is not started again.
CHECK_DEADLOCK FALSE
