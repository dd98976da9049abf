SPECIFICATION Spec
CONSTANTS
  PINs = {p, q}
  None = None
  MaxTries = 2
  MaxRuns = 2
  Manual = TRUE
INVARIANTS OneTryPerRun SuccessUsable
PROPERTIES CertifiedKeyKept CertificateMatches
CHECK_DEADLOCK FALSE
