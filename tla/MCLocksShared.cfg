SPECIFICATION Spec
CONSTANTS
  server = server
  s1 = s1
  s2 = s2
  cli1 = cli1
  cli2 = cli2
  Proc = {server, cli1}
  Thread = {s1, s2, cli1}
  Hindered = {}
  ProcOf <- ServerAndCommands
CHECK_DEADLOCK FALSE
INVARIANT MutualExclusion
