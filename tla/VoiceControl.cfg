\* Every control message, two generations.
CONSTANTS
  Controls = {"start_turn", "end_turn", "playback_complete", "interrupt", "pause", "resume",
              "stop", "cancel"}
  MaxGeneration = 2
SPECIFICATION FairSpec
PROPERTIES ControlsServed StreamsAreSerial
\* The session ends and the socket is closed.
CHECK_DEADLOCK FALSE
