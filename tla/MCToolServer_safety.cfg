SPECIFICATION Safety
CONSTANTS
  Calls = {k1, k2, k3, a1}
  CliCalls = {k1, k2, k3}
  ToolLimit = 3
  CliLimit = 1
  Timeout = 2
  Grace = 1
  Margin = 1
SYMMETRY KindSymmetry
INVARIANTS
  TypeOK
  PermitsConserved
  WakeupsKept
  NothingKept
  AnsweredMeansReaped
PROPERTIES
  PromiseSafety
  CallsProgress
