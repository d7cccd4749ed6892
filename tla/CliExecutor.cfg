SPECIFICATION CliSpec
CONSTANTS
  Calls = {c1, c2, c3, c4}
  CliLimit = 2
  Timeout = 2
  Grace = 1
INVARIANTS
  CliTypeOK
  FanOutCap
  NoOrphan
PROPERTIES
  TermEscalates
  RunsProgress
  EveryRunEnds
