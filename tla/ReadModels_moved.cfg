SPECIFICATION Spec
CONSTANTS
  boot = boot  round = round  daily = daily  manual = manual
  w1 = w1  w2 = w2
  Jobs = {boot, round}
  Writers = {w1}
  Rows = {r1}
  Days = {d1, d2}
  NoDay = NoDay  Script = Script
  MaxTime = 4
  MaxAge = 1
  Kind <- KindOf
  JobOf <- OnlyRound
INVARIANTS
  CountedOnce
