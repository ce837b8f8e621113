CONSTANTS
  r1 = r1
  r2 = r2
  r3 = r3
  h = h
  w = w
  m = m
  Requests = {r1, r2, r3}
  Endpoints = {h, w}
  Methods = {m}
  Transports = {"http", "ws"}
  TransportOf <- HttpAndWs
  Canned = {h}
  Graphql = {}
  Wires = {"good", "direct", "malformed", "raises"}
  Posts <- AllPosts
  MaxWrites = 2
  Extra <- MCExtra
  Places <- MCPlaces
  BadNames <- MCBadNames
  Parts = {"window", "blocks", "registry", "limits", "roots"}
SPECIFICATION SpecParts
INVARIANTS WindowExact  RegistryExact DocumentsExact
SYMMETRY RequestSymmetry
CHECK_DEADLOCK FALSE
