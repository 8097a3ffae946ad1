------------------------------- MODULE MCLocks -------------------------------
(***************************************************************************)
(* AicxLocks for a process with two threads on the lock (the MCP server,   *)
(* whose tool calls run on blocking threads) beside CLI commands, which    *)
(* have one each.                                                          *)
(***************************************************************************)
EXTENDS AicxLocks, TLC

CONSTANTS server, s1, s2, cli1, cli2

ServerAndCommands ==
    [t \in Thread |-> IF t \in {s1, s2} THEN server ELSE t]
=============================================================================
