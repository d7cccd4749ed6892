SPECIFICATION Safety
CONSTANTS
  Calls = {k1, k2, a1}
  CliCalls = {k1, k2}
  ToolLimit = 2
  CliLimit = 1
  Timeout = 2
  Grace = 1
  Margin = 1
INVARIANTS
  AnswersAreEnvelopes
