SPECIFICATION Spec
CONSTANTS
  Op = "reset"
  Slot = "9A"
  Slots = {"9A", "9C"}
  Neighbours = {"fido"}
  Sent <- MCSent
  MaxApdus = 4
  MaxInits = 1
  MaxExts = 1
  MaxLoads = 1
  MaxFrames = 2
  MaxPow = 1
INVARIANTS SelectionTracked RetriesProtected DelaysTold
PROPERTIES NeighbourContentSurvives FenceHolds
CHECK_DEADLOCK FALSE
