SPECIFICATION Spec
CONSTANTS
  Rows = {r1, r2}
  NoCursor = NoCursor
  MaxTime = 2
  ReorderWindow = 1
  PersistInterval = 1
  Lookback = 2
  Backend = "signoz"
  TimeOnly = FALSE
  MaxItems = 1
  MaxScan = 4
  DedupMax = 2
  MaxClears = 1
  MaxStops = 1
  MaxKills = 1
  Faults = {"cursorSet", "dedupSave", "persist"}
SYMMETRY RowSymmetry
INVARIANTS  QuietClearIsFresh
