CONSTANTS
  c1 = c1
  c2 = c2
  m1 = m1
  m2 = m2
  Conns = {c1, c2}
  Movers = {m1, m2}
  MaxMoves = 2
  MaxResets = 1
  Parts = {"proxy", "read", "flush"}
SPECIFICATION SpecParts
INVARIANTS CutOffQuiet GateIsOwn NothingLeaks EntriesReported FlushExact
SYMMETRY ProxySymmetry
CHECK_DEADLOCK FALSE
