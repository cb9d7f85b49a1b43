SPECIFICATION FairSpec
CONSTANTS
  Request = {r1, r2}
  MaxFaults = 2
  MaxLives = 2
INVARIANTS HealthMeansReady NothingLeftOpen
PROPERTY StartsAnyway
CHECK_DEADLOCK FALSE
