CONSTANTS
  p1 = p1
  p2 = p2
  Proc = {p1, p2}
  NoName = "none"
  Graph <- MCGraph
  Absent = Absent
  Existing <- MCExisting
  Name = {"m0", "b0", "o0", "m1", "b1", "m2"}
  Call <- SameCompaction
  MaxFaults = 0
SPECIFICATION Spec
INVARIANTS
  PublishedOpens
