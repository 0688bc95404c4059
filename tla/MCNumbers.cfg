CONSTANTS
  None = None
  Panic = Panic
SPECIFICATION NumbersSpec
INVARIANTS IntegersAreExact FloatsAreExact LanesAreExact
CHECK_DEADLOCK FALSE
