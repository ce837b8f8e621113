CONSTANTS
  Providers = {"eth", "lava", "grpc", "sui"}
  Endpoints <- MCEndpoints
  Quirks <- MCQuirks
  Gated = {1, 3, 4, 5, 6}
  Shapes = {"right"}
  Menus <- MCMenus
  p1 = p1
  p2 = p2
  c1 = c1
  c2 = c2
  Pools = {p1, p2}
  Chains = {c1, c2}
  ChainOf <- OneChain
  Callers = {a}
  Resetters = {r, s}
  HttpPorts = {"h1"}
  GrpcPorts = {"g1"}
  Cache = {"c"}
  Control = "k"
  Resp = {"r"}
  RespControl = "rk"
  Imports = {TRUE, FALSE}
  MayBeTaken = {"h1", "g1", "c", "r"}
  MaxWrites = 2
  Parts = {"scenario", "resets", "life"}
SPECIFICATION SpecParts
INVARIANTS AnsweredIsStored  
 
SYMMETRY ResetSymmetry
CHECK_DEADLOCK FALSE
