SPECIFICATION Spec
CONSTANTS
  Session = {s1}
  Secret = {}
  Rule = {"open"}
  Effect <- RuleEffect
  Layout = {l1}
  Cwd = {c1}
  Growing = {s1}
  Fragile = {}
  MaxVersion = 3
  None = None
INVARIANT CurrentReflectsDigest
