SPECIFICATION PatternSpec
CONSTANTS
  Instances = {a}
  Patterns = {pat1}
  Services = {}
  AutoPromoteAfter = 2
  LegacyRoots <- AnyLegacyRoot
  Edits = {"label", "delete", "reassign", "reset_patterns"}
  MaxCount = 3
  MaxEdits = 4
  MaxKills = 1
  MaxFaults = 1
CHECK_DEADLOCK FALSE
INVARIANTS TrainingRestarts ReassignSticks
PROPERTIES PromotionReachesStore
