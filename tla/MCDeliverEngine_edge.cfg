SPECIFICATION Spec
CONSTANTS
  t1 = t1
  t2 = t2
  t3 = t3
  c1 = c1
  a1 = a1
  b1 = b1
  w1 = w1
  w2 = w2
  Tasks = {t1, t2, t3}
  Mails = {a1, b1, c1}
  TaskOf <- EachOf
  OverLimit = {t3}
  BadTasks = {}
  BadText = {a1}
  SeqLimit = 1
  Workers = {w1}
  Batch = 2
  SoftLimit = 1
  MaxLag = 2
  MaxBreaks = 0
INVARIANTS
  NoLoss
  TemplateRight
  ResultTrue
