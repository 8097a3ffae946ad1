---------------------------- MODULE MCMcpSessions ----------------------------
(* McpSessions with few ids and requests. *)
EXTENDS McpSessions
=============================================================================
