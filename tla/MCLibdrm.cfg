\* Three threads and three drms, every pair of nested drms per thread.
SPECIFICATION TestSpec
CONSTANTS
  d1 = d1
  d2 = d2
  d3 = d3
  t1 = t1
  t2 = t2
  t3 = t3
  Thread = {t1, t2, t3}
  Drm = {d1, d2, d3}
  None = None
  Scripts <- MCScripts
INVARIANTS GraphExact NoDeadlock
PROPERTIES RefusesOnlyDeadlock Finishes
CHECK_DEADLOCK FALSE
