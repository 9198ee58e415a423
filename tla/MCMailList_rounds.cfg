SPECIFICATION Spec
CONSTANTS
  t1 = t1
  t2 = t2
  t3 = t3
  d1 = d1
  d2 = d2
  s1 = s1
  s2 = s2
  Tasks = {t1}
  Domains = {d1}
  Size <- SizeTwo
  Normal = {}
  Preferred = {}
  Level = 0
  RoundNum = 2
  Sessions = {s1, s2}
  MaxAsk = 2
  Kinds <- KindsThree
  MaxAgain = 1
  MayPause = {t1}
  MayStop = {t1}
  MaxWater = 0
INVARIANT RoundCover
INVARIANT StopIsPrompt
INVARIANT FailuresCounted
INVARIANT RemainBound
SYMMETRY SymSessions
