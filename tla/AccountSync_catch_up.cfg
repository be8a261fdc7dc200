SPECIFICATION LiveSpec
CONSTANTS
  s1 = s1
  s2 = s2
  b1 = b1
  server = server
  script = script
  k1 = k1
  c1 = c1
  h1 = h1
  Sessions = {s1}
  Backfills = {}
  Processes = {server}
  ProcessOf <- MCServerOnly
  Keys = {}
  ClosedFacts = {}
  HistoryFacts = {h1}
  KeyOf <- MCKeyOf
  MaxSize = 0
  MaxTime = 4
  Interval <- MCPositionsFirst
  Overlap = 1
  Recent = 1
  DayLength = 9
  Polymarket = FALSE
  Lookback = 2
  ReportsOpenTime = TRUE
PROPERTIES EventuallyStored
CHECK_DEADLOCK FALSE
