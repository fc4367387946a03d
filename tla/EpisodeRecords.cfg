SPECIFICATION Spec
CONSTANTS
  Calls = {a, b}
  Severities = {1}
  Hints = {1}
  QuietPeriod = 1
  Lease = 2
  MaxLag = 0
  MaxEpisodes = 2
  MaxTokens = 2
  MaxCount = 3
  MaxFaults = 0
  MaxPurges = 1
  Holds = {"suppressed"}
  HeartbeatsKeepUp = TRUE
SYMMETRY CallSymmetry
INVARIANTS TypeOK IncidentCatchesUp ResolutionSticks
