\* Three workers on small makefiles with shared dependencies, files and cycles.
SPECIFICATION FairSpec
CONSTANTS
  a = a
  b = b
  c = c
  d = d
  Rule = {a, b, c, d}
  NoRule = NoRule
  Thread = {w1, w2, w3}
  NoThread = NoThread
  Now = 3
  Makefiles <- MCMakefiles
INVARIANTS DependenciesFirst OneOwner FailureSpreads
PROPERTIES Ends
CHECK_DEADLOCK FALSE
