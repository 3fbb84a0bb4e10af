---------------------------- MODULE MCMcpAdapters ----------------------------
(* TLC instance of McpAdapters: the profile is enabled in every version.    *)
EXTENDS McpAdapters
AlwaysEnabled == [v \in Version |-> TRUE]
=============================================================================
