SPECIFICATION Spec
CONSTANTS
  Session = {s1}
  Secret = {}
  Rule = {"open"}
  Effect <- RuleEffect
  Layout = {l1, l2}
  Cwd = {c1}
  Growing = {s1}
  Fragile = {s1}
  MaxVersion = 2
  None = None
INVARIANT LedgerNotAheadOfCurrent
PROPERTY RescanRepairs
