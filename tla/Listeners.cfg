CONSTANTS
  Threads = {"t", "u", "v"}
  Requests <- AllRequests
  Staged <- AllStaged
  Calls = {"a"}
  StagedCalls <- GrpcStaged
  Digests = {d1, d2}
  SuiRequests = {q1, q2, q3}
  Lag = 1
  EXECUTED_MEMORY_CAP = 1
  MaxClock = 1
  MaxResets = 1
  Parts = {"http", "ids", "grpc", "sui"}
SPECIFICATION SpecParts
INVARIANTS  RoutesExact GrpcRowExact 
SYMMETRY SuiSymmetry
CHECK_DEADLOCK FALSE
