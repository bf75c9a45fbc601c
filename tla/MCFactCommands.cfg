CONSTANTS
  p1 = p1
  p2 = p2
  d1 = d1
  d2 = d2
  Proc = {p1, p2}
  Dir = {d1, d2}
  NodeKey = {1, 2}
  Path <- MCPath
  NoPath = NoPath
  NoText = NoText
  Malformed = Malformed
  Absent = Absent
  Torn = Torn
  Relation = {"calls"}
  Detail <- MCDetail
  ExternalId = {"sha256:a", "sha256:b", "sha256:c"}
  Compact <- MCCompact
  Call <- MCCall
  MaxCalls = 2
  MaxFaults = 1
  MaxDiscards = 1
SPECIFICATION Spec
INVARIANTS
  TypeOK
  OpenedWhole
  FactsSurvive
  UpdatesLeaveNothing
  FactsReadBack
PROPERTIES
  PublishesAtomically
CHECK_DEADLOCK FALSE
