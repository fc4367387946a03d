SPECIFICATION LiveSpec
CONSTANTS
  Replicas = {a, b}
  Runs = {r1, r2}
  Events = {"get", "list", "cancel", "delete", "lapse", "timeout", "kill", "fault", "reply", "evict"}
  MaxEvents = 1
CHECK_DEADLOCK FALSE
INVARIANTS TypeOK HeldWhileWorking StatusTells
PROPERTIES KeepsExchange CancelStays EndsExchange RunsEnd
