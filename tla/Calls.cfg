SPECIFICATION CallsSpec
CONSTANTS
  r1 = r1
  r2 = r2
  call = call
  send = send
  drop = drop
  x = x
  y = y
  None = None
  Absent = Absent
  w1 = w1
  w2 = w2
  o1 = o1
  same = same
  alike = alike
  other = other
  t1 = t1
  t2 = t2
  t3 = t3
  Unreported = Unreported
  l1 = l1
  l2 = l2
  p1 = p1
  p2 = p2
  Registrable <- RegistrableSchemas
  Arguments <- SomeArguments
  SecretPair <- ASecret
  TwoArguments <- ValidOrNot
  Referring <- ReferringSchemas
INVARIANTS CallsAccounted AnswersWhole
PROPERTIES RecordsTrue ToolsGuarded
CHECK_DEADLOCK FALSE
