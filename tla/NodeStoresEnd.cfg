SPECIFICATION FairSpec
CONSTANTS
  Parts = {"neo4j", "postgres"}
  MaxCalls = 2
  root = root
  a = a
  b = b
  c1 = c1
  c2 = c2
  p1 = p1
  p2 = p2
  p3 = p3
  x = x
  y = y
  k1 = k1
  k2 = k2
  s = s
  t = t
  Absent = Absent
  Nobody = Nobody
  Orphan = Orphan
INVARIANT PayloadsWhole
PROPERTY CallsEnd
CHECK_DEADLOCK FALSE
