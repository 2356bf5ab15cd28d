SPECIFICATION FairSpec
CONSTANTS
  t1 = t1  t2 = t2  c1 = c1  c2 = c2  c3 = c3  l1 = l1  l2 = l2
  NoLoop = NoLoop
  NoOne = NoOne
  Threads = {t1, t2}
  Coros = {c1, c2, c3}
  LoopOf <- Loops
  MayCancel = TRUE
CHECK_DEADLOCK FALSE
INVARIANTS
  TypeOK
  RunsOnce
  OneVerdict
PROPERTY
  CallersEnd
