\* Two mappers; each splitter writes more than a pipe holds.
SPECIFICATION MapreduceFairSpec
CONSTANTS
  mapper_count = 2
  Pieces = 2
  PipeSize = 1
PROPERTIES MainReturns
CHECK_DEADLOCK FALSE
