SPECIFICATION Spec
CONSTANTS
  ours = ours
  theirs = theirs
  p1 = p1
  p2 = p2
  s1 = s1
  s2 = s2
  Proc = {p1, p2}
  Repo = {ours, theirs}
  Source = {s1, s2}
  Project <- Ours
  Policy = {1, 2}
  Reverts = FALSE
  l1 = l1
  l2 = l2
  Layout = {l1, l2}
  MaxEdits = 2
  None = None
SYMMETRY Symmetry
INVARIANTS TypeOK ServedIsOneMoment FeedIsWhatItsKeySays SlotsServeTheirSource OwnerIsSole
PROPERTIES FailsOnlyWhenRaced
