\* Two jobs are evicted in turn.
SPECIFICATION SchedulerSpec
CONSTANTS
  Job = {1, 2, 3}
  Schemes = {"RR"}
  Workloads <- MCWorkloads
INVARIANTS RemainingExact
CHECK_DEADLOCK FALSE
