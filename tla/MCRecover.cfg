SPECIFICATION Spec
CONSTANTS
  t1 = t1
  s1 = s1
  p1 = p1
  p2 = p2
  Tasks = {t1}
  Size <- SizeTwo
  RoundNum = 1
  Sessions = {s1}
  Reporters = {p1, p2}
  Kinds <- KindsTwo
  MaxHeld = 3
  MaxBatch = 2
  MayStop = {t1}
  MaxTries = 2
  MaxCrashes = 1
INVARIANT AnsweredKept
INVARIANT FinishedTried
INVARIANT KnownIsWhole
PROPERTY StopIsKept
SYMMETRY SymReporters
CHECK_DEADLOCK FALSE
