SPECIFICATION FairSpec
CONSTANTS
  Request = {r1, r2}
  Schema = {s1, s2}
  n1 = n1
  n2 = n2
  kpi = kpi
  a1 = a1
  a2 = a2
  NodeId = {n1, kpi}
  Layered = {kpi}
  Attr = {a1, a2}
  Edge <- LayeredEdges
  Posted <- LayeredPosted
  None = None
  MaxInFlight = 2
  MaxFaults = 1
  MaxCrashes = 1
INVARIANTS GraphIntegrity CleanSaveMirrors IInv
PROPERTIES DeletesStayInSchema EveryCallEnds
CHECK_DEADLOCK FALSE
