SPECIFICATION Spec
CONSTANTS
  c1 = c1
  c2 = c2
  c3 = c3
  tokens = tokens
  minute = minute
  Ids = {c1, c2, c3}
  Meters = {tokens}
  Keys = {1, 2}
  Windows = {minute}
  MeterOf <- MCMeterOf
  Limit <- MCLimit
  Span <- MCSpan
  Lease = 2
  MaxTime = 3
  Requests <- MCRequests
  Charges <- MCCharges
SYMMETRY Symmetry
INVARIANTS
  LedgerCoversCharges
  ChargedExactlyOnce
  CapacityBound
  WindowBound
  NoRecentEventLost
PROPERTIES
  TombstonesPermanent
  ExpiryIsFinal
  KeepsPromise
