SPECIFICATION PoolSpec
CONSTANTS
  Readers = {r1, r2}
  Probes = {p1}
  Threads = {t1, t2, t3}
  ToolLimit = 2
  Timeout = 2
  Margin = 1
  TcpTimeout = 1
  ReadTime = 2
INVARIANTS
  VerdictsAreTrue
