SPECIFICATION Spec
CONSTANTS
  c1 = c1
  c2 = c2
  c3 = c3
  w1 = w1
  w2 = w2
  tokens = tokens
  Ids = {c1, c2}
  Workers = {w1, w2}
  Owner <- MCOwner
  Plan <- MCPlan
  Actuals <- MCActuals
  NodeOf <- MCNodeOf
  Shared = {}
  Estimated = {tokens}
  Meters = {tokens}
  Keys = {1}
  Windows = {}
  MeterOf <- MCMeterOf
  Limit <- MCLimit
  Span <- MCSpan
  Lease = 2
  MaxTime = 1
  Horizon = 10
CHECK_DEADLOCK FALSE
INVARIANTS
  ExactWithinLimit
