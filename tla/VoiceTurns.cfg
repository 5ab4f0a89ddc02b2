\* Three generations: two whole turns of the interviewer and a third, or
\* interruptions in their place; the candidate ends a turn by silence.
CONSTANTS
  Controls = {"start_turn", "playback_complete", "interrupt"}
  MaxGeneration = 3
SPECIFICATION Spec
INVARIANTS TypeOK PlaybackIsComplete EvaluatedOnce
\* The session ends and the socket is closed.
CHECK_DEADLOCK FALSE
