SPECIFICATION Spec
CONSTANTS
  Request = {r1, r2, r3}
  s1 = s1
  n1 = n1
  kpi = kpi
  b1 = b1
  c1 = c1
  Schema = {s1, s2}
  NodeId = {n1, kpi}
  Behavior = {b1}
  Scenario = {c1}
  Layered = {kpi}
  Attr = {a1}
  None = None
  Document <- Documents
  Rel <- Relations
  Given <- GivenVertices
  GivenEdges <- GivenHasNode
  Links <- FieldLinks
  Touched = {b1, c1}
  MaxInFlight = 2
  MaxFaults = 1
SYMMETRY RequestSymmetry
INVARIANTS GraphIntegrity SerialUnique CleanSaveListed ReadersAgree CleanSyncShown
CHECK_DEADLOCK FALSE
