SPECIFICATION DashboardSpec
CONSTANTS
  MaxGen = 3
  Hash = {h1, h2}
  Docs = {d1, d2}
  h1 = h1
  h2 = h2
  d1 = d1
  d2 = d2
  Corpus <- Faithful
  Count <- Grows
  Schema = {1}
  None = None
CHECK_DEADLOCK FALSE
INVARIANT CurrentIsComplete
