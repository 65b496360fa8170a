SPECIFICATION TeamsSpec
CONSTANTS
  v1 = v1
  v2 = v2
  w1 = w1
  w2 = w2
  yes = yes
  no = no
  maybe = maybe
  p1 = p1
  p2 = p2
  Unset = Unset
  Unbound = Unbound
  Absent = Absent
  NoResult = NoResult
  None = None
  root = root
  agent = agent
  call1 = call1
  nested = nested
  deep = deep
  odd = odd
  under = under
  root2 = root2
  other = other
  x = x
  y = y
  near = near
  far = far
  st1 = st1
  st2 = st2
  st3 = st3
  v = v
  w = w
  Reviewers = {v1, v2}
  Workers = {w1, w2}
  Decisions <- MCDecisions
  Approving <- MCApproving
  Undecided = Undecided
  MaxRepeats = 2
  MaxRecords = 2
SYMMETRY Symmetry
INVARIANTS DispatchApproved AccountsTrue
PROPERTIES BindsOnce TeamsAgree MergesKeep
CHECK_DEADLOCK FALSE
