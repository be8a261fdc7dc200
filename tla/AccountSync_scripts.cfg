SPECIFICATION Spec
CONSTANTS
  s1 = s1
  s2 = s2
  b1 = b1
  server = server
  script = script
  k1 = k1
  c1 = c1
  h1 = h1
  Sessions = {s1}
  Backfills = {b1}
  Processes = {server, script}
  ProcessOf <- MCScripts
  Keys = {}
  ClosedFacts = {}
  HistoryFacts = {h1}
  KeyOf <- MCKeyOf
  MaxSize = 0
  MaxTime = 3
  Interval <- MCHistory
  Overlap = 1
  Recent = 1
  DayLength = 9
  Polymarket = FALSE
  Lookback = 2
  ReportsOpenTime = TRUE
INVARIANTS TypeOK CursorCoversFacts
PROPERTIES PartialNeedsBackfill ImplementsMirror
CHECK_DEADLOCK FALSE
