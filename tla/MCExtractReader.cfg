SPECIFICATION ReaderSpec
CONSTANTS
  Session = {s1, s2}
  Secret = {s2}
  Rule = {"open", "private"}
  Effect <- RuleEffect
  Layout = {l1}
  Cwd = {c1}
  Growing = {}
  Fragile = {}
  MaxVersion = 1
  None = None
INVARIANTS TypeOK CurrentRespectsRules ServedRespectsRules
