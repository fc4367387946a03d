SPECIFICATION FairSpec
CONSTANTS
  Calls = {a, b}
  Origins = {"webhook", "detection"}
  Waits = {0, 2}
  AutoResolve = {TRUE, FALSE}
  Prompt = TRUE
  Faults = {"crash", "redis", "save", "provider"}
  MaxFaults = 2
INVARIANTS TypeOK AckedNotPaged AckKept OnCallMarkHonest
PROPERTIES EscalatedWithoutFaults
