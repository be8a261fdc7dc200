SPECIFICATION Spec
CONSTANTS
  s1 = s1
  s2 = s2
  b1 = b1
  server = server
  script = script
  k1 = k1
  c1 = c1
  h1 = h1
  Sessions = {s1}
  Backfills = {}
  Processes = {server}
  ProcessOf <- MCServerOnly
  Keys = {k1}
  ClosedFacts = {c1}
  HistoryFacts = {}
  KeyOf <- MCKeyOf
  MaxSize = 2
  MaxTime = 4
  Interval <- MCOften
  Overlap = 0
  Recent = 1
  DayLength = 9
  Polymarket = FALSE
  Lookback = 2
  ReportsOpenTime = TRUE
INVARIANTS HeldReductionsStored
CHECK_DEADLOCK FALSE
