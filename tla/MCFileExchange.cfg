\* Three clients, two names, uploads of up to two bytes.
SPECIFICATION FairSpec
CONSTANTS
  c1 = c1
  c2 = c2
  c3 = c3
  a = a
  b = b
  Client = {c1, c2, c3}
  Name = {a, b}
  NULL = NULL
  Garbage = {0, 5}
  Word = 2
  Upper = {0, 1}
  NameLength <- Lengths
  Sessions <- MCSessions
INVARIANTS StoredIsListed ListExact CleanExit NothingMissing AnswersWhole
PROPERTIES AllAnswered
CHECK_DEADLOCK FALSE
