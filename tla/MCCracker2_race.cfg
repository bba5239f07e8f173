\* Two workers and one line: range_count is shared.
SPECIFICATION Cracker2Spec
CONSTANTS
  Threads = 2
  Tasks <- MCTasks
  MaxLines = 1
INVARIANTS RangeFinished
CHECK_DEADLOCK FALSE
