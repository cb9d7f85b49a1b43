SPECIFICATION Spec
CONSTANTS
  Request = {r1, r2, r3}
  a1 = a1
  a2 = a2
  b = b
  old = old
  x1 = x1
  x2 = x2
  y = y
  z = z
  q1 = q1
  q2 = q2
  q3 = q3
  w1 = w1
  k1 = k1
  k2 = k2
  Table = {a1, a2, b}
  Column = {x1, x2, y, z}
  Address = {a1, a2, b, old}
  Shown <- Originals
  TableOf <- Tables
  Name <- Names
  ColName <- ColNames
  Fk <- Keys
  Query = {q1, q2, q3}
  Word = {w1}
  Code = {k1, k2}
  None = None
  TopK = 2
  Limits = {0, 1, 3}
  FetchK = 3
  LimitK = 2
  MinSimilarity = 3
  Given <- Start
  Posted <- Catalogs
  GivenQueries <- History
  MaxReads = 1
  Saved <- Saves
  Mapped <- Values
SYMMETRY RequestSymmetry
INVARIANTS SubschemaExact NeighboursKept SimilarTop MappingsExact
CHECK_DEADLOCK FALSE
