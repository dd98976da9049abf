SPECIFICATION LiveSpec
CONSTANTS
  Op = "inspect"
  Slot = "9A"
  Slots = {"9A", "9C"}
  Neighbours = {"fido"}
  Sent <- MCSent
  MaxApdus = 3
  MaxInits = 1
  MaxExts = 1
  MaxLoads = 1
  MaxFrames = 2
  MaxPow = 1
INVARIANTS NeighboursUntouched ReadOnlyHarmless
PROPERTIES EndsUnlessChattering
CHECK_DEADLOCK FALSE
