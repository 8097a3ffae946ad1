SPECIFICATION Spec
CONSTANTS
  MaxGen = 3
  Hash = {h1, h2}
  Docs = {d1, d2}
  h1 = h1
  h2 = h2
  d1 = d1
  d2 = d2
  Corpus <- Faithful
  Count <- Grows
  Schema = {1, 2}
  None = None
CHECK_DEADLOCK FALSE
INVARIANTS TypeOK CurrentIsComplete DiskIsBounded DeepFailsClosed LexicalServesItsManifest VectorsFitTheManifest
PROPERTIES DenseSurvives ViewIsAtomic
