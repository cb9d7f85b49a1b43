SPECIFICATION Spec
CONSTANTS
  Request = {r1, r2, r3}
  Schema = {s1}
  n1 = n1
  n2 = n2
  kpi = kpi
  a1 = a1
  a2 = a2
  NodeId = {n1, n2}
  Layered = {}
  Attr = {a1, a2}
  Edge <- PlainEdges
  Posted <- PlainPosted
  None = None
  MaxInFlight = 1
  MaxFaults = 1
  MaxCrashes = 1
SYMMETRY RequestSymmetry
INVARIANTS OneVertexPerSchema CacheMatchesGraph
PROPERTY ImplementsRegistry
CHECK_DEADLOCK FALSE
