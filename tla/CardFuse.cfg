SPECIFICATION Spec
CONSTANTS
  Runs = {r1, r2}
  Paths = {p1}
  TestKey = TestKey
  OwnKey = OwnKey
  None = None
INVARIANTS KeyHeld KeyFileFirst
PROPERTIES KeyReplacedLast SuccessTruthful
CHECK_DEADLOCK FALSE
