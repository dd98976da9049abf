SPECIFICATION Spec
CONSTANTS
  MaxSeconds = 6
  RecvTimeout = 4
  MaxFrames = 2
PROPERTIES CommandsOrSilenceEnd
CHECK_DEADLOCK FALSE
