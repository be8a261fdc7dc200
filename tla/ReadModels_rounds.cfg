SPECIFICATION LiveSpec
CONSTANTS
  boot = boot  round = round  daily = daily  manual = manual
  w1 = w1  w2 = w2
  Jobs = {boot, round, daily}
  Writers = {w1, w2}
  Rows = {r1}
  Days = {d1, d2}
  NoDay = NoDay  Script = Script
  MaxTime = 3
  MaxAge = 1
  Kind <- KindOf
  JobOf <- RoundAndScript
INVARIANTS
  TypeOK
  OnTimeRowsCounted
  AnswersAreRecent
PROPERTIES
  ModelsNeverGoBack
  TotalsConverge
