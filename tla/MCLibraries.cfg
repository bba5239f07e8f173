\* Two processes, three pages and six frames; a heap of 30 bytes with headers of 3
\* and marks of 1; three files of a disk with 8 blocks of 2; three jobs under each
\* scheme; two lines and two children of a shell.
SPECIFICATION Spec
CONSTANTS
  p1 = p1
  p2 = p2
  Pid = {p1, p2}
  Frame = {1, 2, 3, 4, 5, 6}
  Vpn1 = {0, 1}
  Vpn2 = {1, 2}
  NULL = NULL
  TlbSize = 1
  Segments <- MCSegments
  Testing <- MCTesting
  Writable <- MCWritable
  Calls <- MCCalls
  STRUCT_SIZE = 3
  DATA_SIZE_SIZE = 1
  Start = 1
  Limit = 30
  Large = 8
  Sizes = {1, 2, 10}
  Counts = {1, 2}
  Name = {"a", "b", "c", "/"}
  Invalid = {"/"}
  BlockSize = 2
  DATA_NUMBER = 8
  NUM_DIRECT_BLOCKS = 1
  NUM_INDIRECT = 2
  inode_count = 4
  Lengths = {0, 1, 3}
  MaxWrites = 4
  Job = {1, 2, 3}
  Schemes = {"FCFS", "SJF", "PRI", "PPRI", "PSRTF", "RR"}
  Workloads <- MCWorkloads
  Process = {101, 102}
  NoProcess = NoProcess
  Lines <- MCLines
  MaxLines = 2
  MaxNested = 7
  Histories <- MCHistories
INVARIANTS FramesOwned TlbTrue HeapExact FilesKept StatisticsExact SchemeKept EndsClean
PROPERTIES MemorySpec AllocatorSpec
