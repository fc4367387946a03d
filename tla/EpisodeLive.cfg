SPECIFICATION FairSpec
CONSTANTS
  Calls = {a, b}
  Severities = {3, 4}
  Hints = {4}
  QuietPeriod = 1
  Lease = 2
  MaxLag = 0
  MaxEpisodes = 1
  MaxTokens = 3
  MaxCount = 1
  MaxFaults = 1
  MaxPurges = 0
  Holds = {"failed"}
  HeartbeatsKeepUp = TRUE
 
PROPERTIES EveryRiseHandled
