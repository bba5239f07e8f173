\* cracker1 with three workers; cracker2 with three workers and two lines; a chat
\* room with two slots and three guests, two of which send a message; mapreduce
\* with two mappers, each splitter of which writes more than a pipe holds.
SPECIFICATION FairSpec
CONSTANTS
  g1 = g1
  g2 = g2
  g3 = g3
  MAX_CLIENTS = 2
  Guest = {g1, g2, g3}
  Fd = {4, 5, 6}
  Talkers <- MCTalkers
  MainThread = main
  Worker = {1, 2, 3}
  None = None
  Inputs <- MCInputs
  Threads = 3
  Tasks <- MCTasks
  MaxLines = 2
  mapper_count = 2
  Pieces = 2
  PipeSize = 1
INVARIANTS TurnsTaken StatusesAgree SameOrder NobodyMissed
PROPERTIES Cracker1Ends Cracker2Ends ComesToRest MapreduceEnds
CHECK_DEADLOCK FALSE
