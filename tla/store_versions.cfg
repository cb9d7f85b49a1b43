SPECIFICATION Spec
CONSTANTS
  Request = {r1, r2}
  Schema = {s1}
  n1 = n1
  n2 = n2
  kpi = kpi
  a1 = a1
  a2 = a2
  NodeId = {n1, n2}
  Layered = {}
  Attr = {a1, a2}
  Edge <- PlainEdges
  Posted <- PlainPosted
  None = None
  MaxInFlight = 1
  MaxFaults = 0
  MaxCrashes = 0
INVARIANT VersionIsSnapshot
CHECK_DEADLOCK FALSE
