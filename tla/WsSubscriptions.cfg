CONSTANTS
  c1 = c1
  c2 = c2
  s1 = s1
  s2 = s2
  e1 = e1
  Conns = {c1, c2}
  Subs = {s1, s2}
  Emits = {e1}
  QueueMax = 1
  MaxFrames = 2
  Callers = {c1, c2}
  Plans <- AllPlans
  NullSize = 1
  Cut = 1
  DropSize = 6
  Parts = {"subscriptions", "frames", "port"}
SPECIFICATION SpecParts
INVARIANTS NoOrphan  FramesIntact RepliesAsPlanned
 
SYMMETRY Symmetric
CHECK_DEADLOCK FALSE
