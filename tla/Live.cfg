CONSTANTS
  Providers = {"pr1"}
  Ports = {"h1"}
  Gated = {"h1"}
  ProviderOf <- OneProvider
  Grpc = {}
  Stoppable = {"h1"}
  Pools = {}
  Writers = {"w1"}
  Probers = {}
  MaxWrites = 2
  Parts = {"port", "proxy", "ws"}
SPECIFICATION SpecParts
PROPERTIES CallsAnswered PortsConvergeByRetry SessionsEnd
CHECK_DEADLOCK FALSE
