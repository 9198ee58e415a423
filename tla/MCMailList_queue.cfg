SPECIFICATION Spec
CONSTANTS
  t1 = t1
  t2 = t2
  t3 = t3
  d1 = d1
  d2 = d2
  s1 = s1
  s2 = s2
  Tasks = {t1, t2}
  Domains = {d1, d2}
  Size <- SizeMixed
  Normal = {t1}
  Preferred = {t2}
  Level = 1
  RoundNum = 1
  Sessions = {s1}
  MaxAsk = 1
  Kinds <- KindsSuccess
  MaxAgain = 0
  MayPause = {t2}
  MayStop = {}
  MaxWater = 2
INVARIANT FinishedTried
SYMMETRY SymSessions
