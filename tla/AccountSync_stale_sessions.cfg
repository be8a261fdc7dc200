SPECIFICATION Spec
CONSTANTS
  s1 = s1
  s2 = s2
  b1 = b1
  server = server
  script = script
  k1 = k1
  c1 = c1
  h1 = h1
  Sessions = {s1, s2}
  Backfills = {}
  Processes = {server}
  ProcessOf <- MCServerOnly
  Keys = {k1}
  ClosedFacts = {c1}
  HistoryFacts = {}
  KeyOf <- MCKeyOf
  MaxSize = 2
  MaxTime = 3
  Interval <- MCPositionsFirst
  Overlap = 1
  Recent = 1
  DayLength = 9
  Polymarket = FALSE
  Lookback = 2
  ReportsOpenTime = TRUE
SYMMETRY SessionSymmetry
INVARIANTS CursorCoversFacts
PROPERTIES PositionsNeverGoBack NoSilentDisappearance DeletedIsFrozen
CHECK_DEADLOCK FALSE
