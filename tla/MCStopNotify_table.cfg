SPECIFICATION FairSpec
CONSTANTS
  t1 = t1
  t2 = t2
  t3 = t3
  t4 = t4
  e1 = e1
  e2 = e2
  Tasks = {t1, t2, t3, t4}
  Engines = {e1, e2}
  MaxStop = 3
  Keep = 2
  Room = 1
  MaxTicks = 4
  MaxFails = 1
INVARIANT TypeOK
INVARIANT AnnouncedOnce
PROPERTY FreshKept
PROPERTY ImplementsOnce
PROPERTY EventuallyAnnounced
CHECK_DEADLOCK FALSE
