SPECIFICATION Spec
CONSTANTS
  NoRow = NoRow
  HistoryIds = {h1, h2, h3}
  Period = 2
  MaxObjects = 2
  MaxHistory = 1
  MaxOrdinary = 1
  MaxTime = 10
  MaxCommits = 4
  MaxMishaps = 1
SYMMETRY Symmetry
INVARIANTS
  TypeOK
  PeriodsHoldTheirDays
  HistoryQuotaHeld
  OrdinaryHaveRoom
CHECK_DEADLOCK FALSE
