\* Two threads, when the system may wake a waiter spuriously.
SPECIFICATION BarrierFairSpec
CONSTANTS
  Thread = {t1, t2}
  NoThread = NoThread
  Rounds = 2
INVARIANTS Together
CHECK_DEADLOCK FALSE
