SPECIFICATION Spec
CONSTANTS
  Cycles = {1, 2}
  PosIdOf <- MCOnePosition
  Ids = {i1, i2, i3}
  Syncs = {s1}
  Tools = {x1}
  s1 = s1  x1 = x1  i1 = i1  i2 = i2  i3 = i3
  StartTime = 2
  MaxTime = 3
  DayLength = 2
  Lookback = 1
  Unused = Unused  Gone = Gone
SYMMETRY IdSymmetry
INVARIANTS TypeOK 
PROPERTIES NoNewDuplicate NoCycleLost
