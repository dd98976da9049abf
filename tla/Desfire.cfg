SPECIFICATION Spec
CONSTANTS
  Keys = {"zero", "k1"}
  ZERO = "zero"
  MaxContent = 2
  MaxRuns = 2
INVARIANTS ContentAccounted KeysRecoverable MirrorsHaveTemplate
PROPERTIES EraseTold
CHECK_DEADLOCK FALSE
