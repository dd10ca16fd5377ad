SPECIFICATION Spec
CONSTANTS
  None = None
  Hundred = 1000
  Entries <- MCEntries
  Sizes <- MCSizes
  Totals <- MCTotals
  MaxNow = 2
INVARIANTS
  MisreadAtMostOnce
  AlarmMatchesReading
  OrderedMeansReachable
PROPERTIES
  AlarmsEscalate
  StaleUntilTouched
