CONSTANTS
  h1 = h1
  g1 = g1
  u1 = u1
  w1 = w1
  w2 = w2
  r1 = r1
  Providers = {"pr1"}
  Ports = {h1}
  Gated = {h1}
  ProviderOf <- OneProvider
  Grpc = {}
  Stoppable = {h1}
  Pools = {}
  Writers = {w1, w2}
  Probers = {r1}
  MaxWrites = 2
SPECIFICATION Spec
INVARIANTS PromiseKept ReportMatchesPort OwnWish ReadyHonest StopIsFinal
SYMMETRY WriterSymmetry
CHECK_DEADLOCK FALSE
