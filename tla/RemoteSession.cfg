SPECIFICATION SessionSpec
CONSTANTS
  IsdAnswers = {"ok"}
INVARIANTS Authorized ReaderReleased
CHECK_DEADLOCK FALSE
