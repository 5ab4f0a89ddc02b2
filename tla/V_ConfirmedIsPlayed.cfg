\* Two questions of two frames, no button and no lost connection.
CONSTANTS
  MaxStreams = 2
  MaxFrames = 2
  MaxControls = 0
  MaxBreaks = 0
  MaxInFlight = 3
  MaxAttempts = 1
SPECIFICATION Spec
INVARIANT ConfirmedIsPlayed
CHECK_DEADLOCK FALSE
