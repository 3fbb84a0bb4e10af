----------------------------- MODULE McpProfile -----------------------------
(***************************************************************************)
(* What stands behind a profile that is served over MCP: the adapters that *)
(* its calls share, and the managed account they may connect with.  The    *)
(* account's operations reach the adapters only as an administrator of     *)
(* McpAdapters does (SetCredential, ClearCredential, Invalidate), so each  *)
(* side is checked with the other one standing still.                      *)
(***************************************************************************)
EXTENDS McpAdapters, McpAccounts

VARIABLE side

McpInit == side \in {"adapters", "account"} /\ AdapterInit /\ AccountInit

McpNext ==
    /\ UNCHANGED side
    /\ \/ side = "adapters" /\ AdapterNext /\ UNCHANGED accountVars
       \/ side = "account" /\ AccountNext /\ UNCHANGED adapterVars

McpSpec == McpInit /\ [][McpNext]_<<side, adapterVars, accountVars>>

\* Liveness is asked of the adapters only, and under RetireFairness.
McpFairSpec == McpSpec /\ (side = "adapters" => RetireFairness)
=============================================================================
