SPECIFICATION FairSpec
CONSTANTS
  d1 = d1
  s1 = s1
  s2 = s2
  t1 = t1
  t2 = t2
  t3 = t3
  c1 = c1
  c2 = c2
  p1 = p1
  p2 = p2
  n1 = n1
  n2 = n2
  g1 = g1
  w1 = w1
  k1 = k1
  y1 = y1
  a1 = a1
  Request = {r1, r2}
  Source = {d1}
  SchemaRow = {s1, s2}
  Table = {t1, t2, t3}
  Column = {c1, c2}
  Node = {p1, p2, n1, n2}
  Glossary = {g1}
  Term = {w1}
  Calendar = {k1}
  Day = {y1}
  Kind = {"FK_TO_TABLE", "ONE_TO_ONE"}
  OwnerOf <- Owns
  NameOf <- Names
  Text = {a1}
  Empty = Empty
  None = None
  Given <- GivenRows
  Parsed <- Files
  Described <- Lists
  Inferred <- Keys
  Drawn <- Drawings
  Process <- Processes
  MaxInFlight = 2
  MaxFaults = 1
INVARIANTS CommittedInOrder UserTextKept NoNeedlessDeadlock IInv
PROPERTY EveryCallEnds
CHECK_DEADLOCK FALSE
