SPECIFICATION FleetSpec
CONSTANTS
  Instances = {a, b}
  Patterns = {pat1}
  Services = {svc1, svc2}
  AutoPromoteAfter = 2
  LegacyRoots <- NoLegacyRoot
  Edits = {"label", "delete", "reset_services", "create", "rename", "delete_service", "end_grace", "restart_grace"}
  MaxCount = 3
  MaxEdits = 3
  MaxKills = 1
  MaxFaults = 1
CHECK_DEADLOCK FALSE
SYMMETRY Replicas
INVARIANTS TypeOK TombstoneSticks VerdictKept  OperatorServicesHold StoredGraceEndHolds
