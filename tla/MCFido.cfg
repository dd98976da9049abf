SPECIFICATION Spec
CONSTANTS
  RelyingParties = {rp1, rp2}
  Ids = {a, b}
  MaxRetries = 2
  MaxRuns = 1
  MaxDisturbances = 1
SYMMETRY Symmetry
INVARIANTS ListedFaithfully OneAttempt PolicyReported
PROPERTIES WipeTold
CHECK_DEADLOCK FALSE
