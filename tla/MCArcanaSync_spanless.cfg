CONSTANTS
  p1 = p1
  p2 = p2
  Proc = {p1}
  NoProc = NoProc
  NodeKey = {0, 1, 2, 3}
  Path <- MCPath
  NoPath = "none"
  Relation = {"calls"}
  Detail <- MCDetail
  Language = {"go"}
  NoObject = NoObject
  NoId = "none"
  Lexicon <- MCSpanlessLexicon
  Absent = Absent
  Torn = Torn
  Id <- TwoIds
  MaxScans = 2
  MaxFaults = 0
SPECIFICATION Spec
INVARIANTS
  ContentMatchesLexicon
