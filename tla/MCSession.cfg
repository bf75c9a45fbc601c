CONSTANTS
  Node = {0, 1, 2, 3}
  Relation = {2, 4, 5}
  None = None
  Malformed = Malformed
  Kind = {"file", "function"}
  FileKind = "file"
  Reason = {"dynamic", "ambiguous"}
  DefaultLimit = 2
  MaxLimit = 3
  Sessions <- MCSessions
SPECIFICATION Spec
INVARIANTS
  TypeOK
  DistancesExact
  AnswerHonest
  ChainShortest
  QueueMonotone
  Backtracks
  PathsComplete
  ListsExact
  DiffExact
  StatsAgree
PROPERTIES
  Answered
CHECK_DEADLOCK FALSE
