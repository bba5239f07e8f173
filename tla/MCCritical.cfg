\* Queues of one slot, of two, and without a bound; semaphores of one unit and of two; two rounds of a barrier;
\* for four threads.
SPECIFICATION FairSpec
CONSTANTS
  t1 = t1
  t2 = t2
  t3 = t3
  t4 = t4
  Thread = {t1, t2, t3, t4}
  NoThread = NoThread
  Value = {a, b}
  Node = {n1, n2, n3, n4}
  NULL = NULL
  MaxSizes = {0, 1, 2}
  QueueWorkloads <- MCQueueWorkloads
  Semaphores <- MCSemaphores
  SemmWorkloads <- MCSemmWorkloads
  Rounds = 2
INVARIANTS ListOK NoLostWakeup OneKindAsleep TogetherUndisturbed
PROPERTIES QueueCompletes FifoSpec SemmCompletes CounterSpec BarrierCompletes
CHECK_DEADLOCK FALSE
