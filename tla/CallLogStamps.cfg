CONSTANTS
  Rows = {"r1", "r2"}
  Statuses = {"in_flight", "success", "error"}
  HistoryMax = 2
  MaxClears = 1
  Parts = {"log"}
SPECIFICATION SpecParts
INVARIANT PostClearTimestamps
CHECK_DEADLOCK FALSE
