SPECIFICATION Spec
CONSTANTS
  a1 = a1  a2 = a2  s1 = s1  s2 = s2  t1 = t1  t2 = t2  w1 = w1
  Assets = {a1}
  Texts = {t1, t2}
  Syncs = {s1, s2}
  Workers = {w1}
  NoText = NoText  NoRow = NoRow  Free = Free  Never = Never
  Shows <- MCShows  CreatedAt <- MCCreatedAt
  MaxAttempts = 2
  RetryAfter = 0
  Batch = 1
  MaxTime = 2
INVARIANTS
  ShownIsOfSource
