SPECIFICATION Spec
CONSTANTS
  t1 = t1
  t2 = t2
  t3 = t3
  c1 = c1
  a1 = a1
  b1 = b1
  w1 = w1
  w2 = w2
  Tasks = {t1, t2}
  Mails = {a1, b1}
  TaskOf <- PairOf
  OverLimit = {}
  BadTasks = {}
  BadText = {}
  SeqLimit = 2
  Workers = {w1, w2}
  Batch = 2
  SoftLimit = 1
  MaxLag = 0
  MaxBreaks = 1
INVARIANTS
  TypeOK
  AtMostOnce
  OneAttempt
  SendingIsPending
  NoLoss
  ResultTrue
PROPERTIES
  IdleStopIsFinal
SYMMETRY ThreadSymmetry
