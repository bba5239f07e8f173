\* A process in the foreground, and SIGINT.
SPECIFICATION ShellSpec
CONSTANTS
  Process = {101, 102}
  NoProcess = NoProcess
  Lines <- MCLines
  MaxLines = 1
  MaxNested = 7
  Histories <- MCHistories
INVARIANTS ForegroundKnown
CHECK_DEADLOCK FALSE
