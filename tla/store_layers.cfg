SPECIFICATION Spec
CONSTANTS
  Request = {r1, r2}
  Schema = {s1}
  n1 = n1
  n2 = n2
  kpi = kpi
  a1 = a1
  a2 = a2
  NodeId = {n1, kpi}
  Layered = {kpi}
  Attr = {a1, a2}
  Edge <- LayeredEdges
  Posted <- LayerDropped
  None = None
  MaxInFlight = 1
  MaxFaults = 0
  MaxCrashes = 0
INVARIANT AllNodesMirrored
CHECK_DEADLOCK FALSE
