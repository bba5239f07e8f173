\* Two wanted targets, of which the second depends on itself.
SPECIFICATION FairSpec
CONSTANTS
  a = a
  b = b
  c = c
  d = d
  Rule = {a, b, c, d}
  NoRule = NoRule
  Thread = {w1, w2}
  NoThread = NoThread
  Now = 3
  Makefiles <- CycleSecond
INVARIANTS CyclicTargetsDeleted
CHECK_DEADLOCK FALSE
