CONSTANTS
  Rows = {"r1", "r2", "r3"}
  Statuses = {"in_flight", "success", "error"}
  HistoryMax = 2
  MaxClears = 2
  Parts = {"log", "history"}
SPECIFICATION SpecParts
INVARIANTS CountersAgree NoRowMissed TimelineExact
CHECK_DEADLOCK FALSE
