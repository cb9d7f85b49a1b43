SPECIFICATION Spec
CONSTANTS
  Request = {r1, r2}
  l1 = l1
  l2 = l2
  t1 = t1
  t2 = t2
  u1 = u1
  c1 = c1
  c2 = c2
  d1 = d1
  a1 = a1
  a2 = a2
  Label = {l1, l2}
  Table = {t1, t2, u1}
  Column = {c1, c2, d1}
  LabelOf <- LabelOfTable
  TableOf <- TableOfColumn
  Fk <- Keys
  Attr = {a1, a2}
  Posted <- RacePosted
  Foreign = {t1}
  None = None
  MaxInFlight = 2
SYMMETRY RequestSymmetry
INVARIANTS GraphIntegrity ForeignStays GraphBehindT2s CleanRefresh IInv
CHECK_DEADLOCK FALSE
