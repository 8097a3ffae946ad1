SPECIFICATION FairSpec
CONSTANTS
  server = server
  s1 = s1
  s2 = s2
  cli1 = cli1
  cli2 = cli2
  Proc = {server, cli1, cli2}
  Thread = {s1, s2, cli1, cli2}
  Hindered = {cli1}
  ProcOf <- ServerAndCommands
CHECK_DEADLOCK FALSE
INVARIANTS TypeOK LoneExclusion LocalExclusion LockFollowsHandle KillAdviceNamesHolder
PROPERTIES HandlesAreLocks AcquireReturns
