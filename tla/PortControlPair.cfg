CONSTANTS
  h1 = h1
  g1 = g1
  u1 = u1
  w2 = w2
  w1 = w1
  r1 = r1
  Providers = {"pr1", "pr2"}
  Ports = {h1, g1, u1}
  Gated = {h1, g1}
  ProviderOf <- TwoProviders
  Grpc = {g1, u1}
  Stoppable = {}
  Pools <- TwoPools
  Writers = {w1}
  Probers = {}
  MaxWrites = 1
SPECIFICATION Spec
PROPERTY ImplementsService
