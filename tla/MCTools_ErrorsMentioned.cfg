SPECIFICATION ToolsSpec
CONSTANTS
  g = g
  t = t
  w = w
  Words <- MCWords
  Rank <- MCRank
  Headers <- MCHeaders
  Streams <- MCStreams
  Ids = {1, 2}
  Servers = {"s1", "s2"}
  Registries <- MCRegistries
  LimitValues = {0, 1}
  LineKinds = {"auth", "authz", "network", "plain"}
  MaxLines = 3
  Parts = {0}
  MaxEnd = 3
  Values <- MCValues
  NoValue = NoValue
  ArgLists <- MCArgLists
  Layouts <- MCLayouts
  TopicNames <- MCNames
  NoFilter = NoFilter
  Brokers = {1, 2, 3}
  Replicated <- MCReplicated
  Placement <- MCPlacement
  Internal = {"__consumer_offsets"}
  TopicFilters = {"None", "a"}
  Exactly <- MCExactly
  Beginning <- MCBeginning
  MaxChanges = 2
  LogParts = {0, 1}
  Times = {1, 2}
  MaxLog = 3
  MaxTouches = 2
  Coordinators = {1, 2}
  GroupIds = {"x", "y"}
  StateNames = {"STABLE", "EMPTY"}
  NoState = NoState
  StateFilters = {"stable", "EMPTY"}
  UpperCase <- MCUpperCase
  AnyState = AnyState
  ConfigKeys = {"min.insync.replicas", "index.interval.bytes"}
  _NOTABLE_KEYS = {"min.insync.replicas"}
  Bindings <- MCBindings
  AclFilters <- MCAclFilters
  p1 = p1
  p2 = p2
  Partitions = {p1, p2}
  Members = {m1, m2}
  m1 = m1
  m2 = m2
  Assignments <- MCAssignments
  MaxOffset <- MCMaxOffset
  Readers = {r1, r2}
  Probes = {b1}
  Threads = {t1, t2}
  ToolLimit = 2
  Timeout = 2
  Margin = 1
  TcpTimeout = 1
  ReadTime = 2
INVARIANTS
  ErrorsMentioned
CHECK_DEADLOCK FALSE
