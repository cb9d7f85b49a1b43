SPECIFICATION Spec
CONSTANTS
  Request = {r1, r2, r3}
  Query = {q1}
  t1 = t1
  t2 = t2
  c1 = c1
  Table = {t1, t2}
  Column = {c1}
  Known = {t1, c1}
  Posted <- Reported
  None = None
  MaxTime = 1
  MaxInFlight = 2
  MaxFaults = 1
SYMMETRY RequestSymmetry
INVARIANTS SeenIsExact UsageHasRow CleanSaveRecorded IInv
INVARIANTS BestRunKept BestContextKept UsageMatchesRun
CHECK_DEADLOCK FALSE
