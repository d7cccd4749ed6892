SPECIFICATION Spec
CONSTANTS
  Calls = {k1, k2, a1}
  CliCalls = {k1, k2}
  ToolLimit = 2
  CliLimit = 1
  Timeout = 1
  Grace = 1
  Margin = 1
PROPERTIES
  EveryCallAnswered
  PromiseSpec
