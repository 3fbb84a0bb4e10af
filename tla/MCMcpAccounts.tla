---------------------------- MODULE MCMcpAccounts ----------------------------
(* TLC instance of McpAccounts with a clean-up that probes first.           *)
EXTENDS McpAccounts, TLC
Symmetry == Permutations(Ref) \cup Permutations(Revoker)
=============================================================================
