SPECIFICATION Spec
CONSTANTS
  Keys = {test, mine, theirs}
  TEST = test
  FACTORY = factory
  NONE = none
  MaxRuns = 1
  MaxDisturbances = 2
INVARIANTS RotationReported OneAttempt PlansTouchNothing
PROPERTIES FactoryKept
CHECK_DEADLOCK FALSE
