SPECIFICATION Spec
CONSTANTS
  s1 = s1
  s2 = s2
  c1 = c1
  c2 = c2
  tokens = tokens
  Sessions = {s1, s2}
  NoId = NoId
  Ids = {c1, c2}
  Meters = {tokens}
  Keys = {1, 2}
  Windows = {3}
  MeterOf <- MCMeterOf
  Limit <- MCLimit
  Span <- MCSpan
  Lease = 1
  MaxTime = 2
  Requests <- MCRequests
  Charges <- MCCharges
SYMMETRY Symmetry
INVARIANTS
  CapacityBound
  WindowBound
  ChargedExactlyOnce
  LedgerCoversCharges
  DeadlocksMix
PROPERTIES
  TombstonesPermanent
