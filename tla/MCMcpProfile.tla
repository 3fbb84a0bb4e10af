---------------------------- MODULE MCMcpProfile ----------------------------
(* TLC instance of McpProfile: an update disables the profile for MCP.      *)
EXTENDS McpProfile, TLC
Alternating == [v \in Version |-> v % 2 = 0]
=============================================================================
