SPECIFICATION OutputSpec
CONSTANTS
  LineKinds = {"plain"}
  MaxLines = 2
INVARIANTS
  TerminateReturnsAll
CHECK_DEADLOCK FALSE
