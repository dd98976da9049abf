SPECIFICATION Spec
CONSTANTS
  MgmtValues = {m1, m2}
  EMPTY = empty
  NONE = none
  MaxBorn = 4
  MaxRuns = 1
  MaxDisturbances = 1
INVARIANTS FallbackCompletes NoMixedKey CertificateFits
PROPERTIES ReplacedWhenTold
SYMMETRY Symmetry
CHECK_DEADLOCK FALSE
