SPECIFICATION FairSpec
CONSTANTS
  MaxCommands = 3
  MaxFrames = 3
  MaxResponseFrames = 2
  MaxReply = 2
  MaxSessions = 2
  MaxDisturbances = 1
INVARIANTS InStep
PROPERTIES ExchangeKept CommandsEnd
CHECK_DEADLOCK FALSE
