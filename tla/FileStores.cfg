SPECIFICATION FilesSpec
CONSTANTS
  c1 = c1
  c2 = c2
  c3 = c3
  p1 = p1
  p2 = p2
  o1 = o1
  root = root
  odd = odd
  child = child
  grandchild = grandchild
  a = a
  b = b
  x = x
  y = y
  tokens = tokens
  Absent = Absent
  Ids = {c1, c2, c3}
  Meters = {tokens}
  Keys = {1, 2}
  Windows = {3}
  MeterOf <- MCMeterOf
  Limit <- MCLimit
  Span <- MCSpan
  Lease = 2
  MaxTime = 3
  Requests <- MCRequests
  Charges <- MCCharges
SYMMETRY Symmetry
INVARIANTS LateSettlementCharges WindowBound
PROPERTIES KeepsPromise LogsHold PayloadsArrive
CHECK_DEADLOCK FALSE
