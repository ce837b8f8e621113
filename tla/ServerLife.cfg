CONSTANTS
  HttpPorts = {"h1"}
  GrpcPorts = {"g1"}
  Cache = {"c"}
  Control = "k"
  Resp = {"r"}
  RespControl = "rk"
  Imports = {TRUE}
  MayBeTaken = {"g1"}
  MaxWrites = 2
  Parts = {"life", "conn", "reset", "grpc"}
SPECIFICATION SpecParts
PROPERTIES EverythingEnds PortsOpen
CHECK_DEADLOCK FALSE
