SPECIFICATION Spec
CONSTANTS
  Session = {s1}
  Growing = {s1}
  Opaque = {}
  Checkout = {c1}
  c1 = c1
  Linked = {}
  RepoOf <- OneRepo
  Origin = {o1, o2}
  o1 = o1
  First <- Cloned
  Guess = Guess
  Proc = {p1, p2}
  MaxVersion = 2
  MaxMoves = 1
  MaxRebuilds = 1
  MaxFaults = 1
  None = None
CHECK_DEADLOCK FALSE
INVARIANTS TypeOK MemoNamesOrigin
PROPERTIES RefreshKeepsColdRows RefreshesLeaveItAlone RefreshesSettle
