SPECIFICATION Spec
CONSTANTS
  Calls = {a, b}
  Severities = {1, 3}
  Hints = {1}
  QuietPeriod = 2
  Lease = 1
  MaxLag = 1
  MaxEpisodes = 1
  MaxTokens = 3
  MaxCount = 1
  MaxFaults = 1
  MaxPurges = 0
  Holds = {"diverted"}
  HeartbeatsKeepUp = FALSE
SYMMETRY CallSymmetry
INVARIANTS  HandledWasClaimed
