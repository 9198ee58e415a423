SPECIFICATION FairSpec
CONSTANTS
  t1 = t1
  t2 = t2
  t3 = t3
  d1 = d1
  d2 = d2
  s1 = s1
  s2 = s2
  Tasks = {t1, t2, t3}
  Domains = {d1}
  Size <- SizeOne
  Normal = {t1, t2}
  Preferred = {t1}
  Level = 1
  RoundNum = 1
  Sessions = {s1}
  MaxAsk = 1
  Kinds = {}
  MaxAgain = 0
  MayPause = {t3}
  MayStop = {}
  MaxWater = 1
PROPERTY EventuallyFinished
