SPECIFICATION HazardSpec
CONSTANTS
  Op = "attest"
  Slot = "9A"
  Slots = {"9A", "9C"}
  Neighbours = {"fido"}
  Sent <- MCSent
  MaxApdus = 3
  MaxInits = 1
  MaxExts = 2
  MaxLoads = 1
  MaxFrames = 1
  MaxPow = 1
INVARIANTS GuardsNeedNoTracking
CHECK_DEADLOCK FALSE
