SPECIFICATION Spec
CONSTANTS
  Rows = {r1, r2}
  NoCursor = NoCursor
  MaxTime = 3
  ReorderWindow = 1
  PersistInterval = 1
  Lookback = 2
  Backend = "elasticsearch"
  TimeOnly = TRUE
  MaxItems = 1
  MaxScan = 2
  DedupMax = 2
  MaxClears = 0
  MaxStops = 1
  MaxKills = 1
  Faults = {"pull", "persist", "dedupSave"}
SYMMETRY RowSymmetry
INVARIANTS TypeOK RowsBeforeIds KillSafe NothingSkipped IdsCoverDurableCursor
