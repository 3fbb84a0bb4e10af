----------------------------- MODULE McpAccounts -----------------------------
(***************************************************************************)
(* The managed read-only database account behind MCP for one profile:      *)
(* PrepareMCPAccount, ProvisionMCPAccount and RevokeMCPAccount             *)
(* (internal/api/mcp.go), the account rows (internal/store/mcp.go,         *)
(* migrate.go), the database statements (internal/mcp/provisioner.go), the *)
(* enable switch (internal/api/connections.go) and the setup flow of the   *)
(* desktop (apps/desktop/src/lib/mcp-managed-account.ts).  The application *)
(* may die between any two steps and start again; a store write may fail;  *)
(* a database statement may fail before or after it took effect.           *)
(*                                                                         *)
(* An account reference stands for the principal name derived from it and  *)
(* for the credential generated for it.                                    *)
(***************************************************************************)
EXTENDS Absent, Naturals, FiniteSets

CONSTANTS
    Creator,     \* desktop setup flows: prepare, provision, discard
    Revoker,     \* calls of RevokeMCPAccount
    Switch,      \* calls of SetConnectionMCPEnabled
    Ref,         \* account references; each is generated once (bound)
    ProbesFirst  \* does the clean-up look for the principal first (PostgreSQL)?

AccountProcess == Creator \cup Revoker \cup Switch

ASSUME AccountAssumption ==
    /\ Creator \cap (Revoker \cup Switch) = {} /\ Revoker \cap Switch = {}
    /\ ProbesFirst \in BOOLEAN
    /\ None \notin AccountProcess \cup Ref

VARIABLES
    account,    \* the row of mcp_managed_accounts, or NoAccount
    enabled,    \* connection_profiles.mcp_enabled
    memory,     \* the credential the AdapterManager holds, or None
    busy,       \* McpService.provisioning and revoking: the operation that runs
    principals, \* the generated principals that exist in the database
    used,       \* the references generated so far
    flow, my      \* control state and locals of each operation

persistent == <<account, enabled, principals, used>>
accountVars == <<persistent, memory, busy, flow, my>>

States == {"prepared", "provisioning", "recovery_required", "ready",
           "revoke_failed", "keychain_cleanup_pending"}
NoAccount == [ref |-> None, state |-> "prepared", saved |-> FALSE]
Account   == [ref : Ref, state : States, saved : BOOLEAN]

FlowPCs == {"idle", "create", "save", "load", "unprepare", "set", "provision", "read",
        "connect", "write", "cleanup", "forget", "mark", "ready", "discard",
        "revoke", "revokeRead", "disable", "clear", "drop", "pending", "delete",
        "enable"}
FlowLocal == [ref : Ref \cup {None}, credential : Ref \cup {None}, state : States]

\* Where an operation holds the claim: only one does, and none after it returned.
Working == {"read", "connect", "write", "cleanup", "forget", "mark", "ready",
            "revokeRead", "disable", "clear", "drop", "pending", "delete"}

\* Types, and the claim that the running operation holds.
AccountTypeOK ==
    /\ account \in Account \cup {NoAccount}
    /\ enabled \in BOOLEAN
    /\ memory \in Ref \cup {None}
    /\ busy \in AccountProcess \cup {None}
    /\ principals \subseteq used /\ used \subseteq Ref
    /\ flow \in [AccountProcess -> FlowPCs]
    /\ my \in [AccountProcess -> FlowLocal]
    /\ \A p \in AccountProcess : busy = p <=> flow[p] \in Working

AccountInit ==
    /\ account = NoAccount /\ enabled = FALSE
    /\ memory = None /\ busy = None
    /\ principals = {} /\ used = {}
    /\ flow = [p \in AccountProcess |-> "idle"]
    /\ my = [p \in AccountProcess |-> [ref |-> None, credential |-> None, state |-> "prepared"]]

FlowTo(p, where) == flow' = [flow EXCEPT ![p] = where]

\* UPDATE mcp_managed_accounts SET state: no row, no effect.
SetState(s) ==
    account' = IF account = NoAccount THEN NoAccount ELSE [account EXCEPT !.state = s]

\* A store write whose error the code ignores.
TrySetState(s) == SetState(s) \/ UNCHANGED account

-----------------------------------------------------------------------------
(* PrepareMCPAccount.                                                       *)

PrepareCheck(c) ==
    /\ flow[c] = "idle"
    /\ account = NoAccount
    /\ \E r \in Ref \ used :
          /\ used' = used \cup {r}
          /\ my' = [my EXCEPT ![c].ref = r]
    /\ FlowTo(c, "create")
    /\ UNCHANGED <<account, enabled, principals, memory, busy>>

\* CreateMCPManagedAccount: the profile is the primary key, so a second row fails.
PrepareCreate(c) ==
    /\ flow[c] = "create"
    /\ \/ /\ account = NoAccount
          /\ account' = [ref |-> my[c].ref, state |-> "prepared", saved |-> FALSE]
          /\ FlowTo(c, "save")
       \/ FlowTo(c, "idle") /\ UNCHANGED account
    /\ UNCHANGED <<enabled, principals, used, memory, busy, my>>

\* SaveMCPManagedCredential refuses without a row.
PrepareSave(c) ==
    /\ flow[c] = "save"
    /\ \/ /\ account # NoAccount
          /\ account' = [account EXCEPT !.saved = TRUE]
          /\ FlowTo(c, "load")
       \/ FlowTo(c, "unprepare") /\ UNCHANGED account
    /\ UNCHANGED <<enabled, principals, used, memory, busy, my>>

\* LoadMCPManagedCredential and IsManagedCredentialForProfile.
PrepareLoad(c) ==
    /\ flow[c] = "load"
    /\ \/ account.ref = my[c].ref /\ account.saved /\ FlowTo(c, "set")
       \/ FlowTo(c, "unprepare")
    /\ UNCHANGED <<persistent, memory, busy, my>>

\* fail, once the row was created: ClearMCPManagedAccount, errors ignored.
PrepareFails(c) ==
    /\ flow[c] = "unprepare"
    /\ account' = NoAccount \/ UNCHANGED account
    /\ FlowTo(c, "idle")
    /\ UNCHANGED <<enabled, principals, used, memory, busy, my>>

\* Manager.SetCredential; the setup flow goes on with the provision.
PrepareSet(c) ==
    /\ flow[c] = "set"
    /\ memory' = my[c].ref
    /\ FlowTo(c, "provision")
    /\ UNCHANGED <<persistent, busy, my>>

Prepare(c) ==
    \/ PrepareCheck(c) \/ PrepareCreate(c) \/ PrepareSave(c) \/ PrepareLoad(c)
    \/ PrepareFails(c) \/ PrepareSet(c)

-----------------------------------------------------------------------------
(* ProvisionMCPAccount.                                                     *)

\* An operation that finds another one running fails.
Claim(p, next, otherwise) ==
    IF busy = None THEN busy' = p /\ FlowTo(p, next)
                   ELSE UNCHANGED busy /\ FlowTo(p, otherwise)

ProvisionBegin(c) ==
    /\ flow[c] = "provision"
    /\ Claim(c, "read", "discard")
    /\ UNCHANGED <<persistent, memory, my>>

\* The row and the credential in memory, or an error of one of the reads.  They are two
\* reads: busy, or the row that exists, excludes what could change one in between.
ProvisionRead(c) ==
    /\ flow[c] = "read"
    /\ \/ /\ account # NoAccount /\ account.state = "prepared" /\ memory # None
          /\ my' = [my EXCEPT ![c].ref = account.ref, ![c].credential = memory]
          /\ FlowTo(c, "connect") /\ UNCHANGED busy
       \/ FlowTo(c, "discard") /\ busy' = None /\ UNCHANGED my
    /\ UNCHANGED <<persistent, memory>>

\* The administrator connects and the name is free; beforeFirstWrite stores the
\* state.  Any of them may fail, and nothing has been written yet.
ProvisionConnect(c) ==
    /\ flow[c] = "connect"
    /\ \/ account # NoAccount /\ SetState("provisioning") /\ FlowTo(c, "write") /\ UNCHANGED my
       \/ /\ UNCHANGED account
          /\ my' = [my EXCEPT ![c].state = "prepared"]
          /\ FlowTo(c, "forget")
    /\ UNCHANGED <<enabled, principals, used, memory, busy>>

\* CREATE, GRANT and the verification: all of them, or one fails and the
\* principal may exist or not.
ProvisionWrite(c) ==
    /\ flow[c] = "write"
    /\ \/ principals' = principals \cup {my[c].credential} /\ FlowTo(c, "ready")
       \/ principals' = principals \cup {my[c].credential} /\ FlowTo(c, "cleanup")
       \/ UNCHANGED principals /\ FlowTo(c, "cleanup")
    /\ UNCHANGED <<account, enabled, used, memory, busy, my>>

(***************************************************************************)
(* fail, after the first write: drop the principal; CleanupFailed when that *)
(* fails.  The PostgreSQL one asks first whether the role exists, and takes *)
(* no answer for no.                                                        *)
(***************************************************************************)
CleanUp(c) ==
    /\ flow[c] = "cleanup"
    /\ \/ /\ principals' = principals \ {my[c].credential}
          /\ my' = [my EXCEPT ![c].state = "prepared"]
       \/ /\ principals' = principals \ {my[c].credential} \/ UNCHANGED principals
          /\ my' = [my EXCEPT ![c].state = "recovery_required"]
       \/ /\ ProbesFirst
          /\ UNCHANGED principals
          /\ my' = [my EXCEPT ![c].state = "prepared"]
    /\ FlowTo(c, "forget")
    /\ UNCHANGED <<account, enabled, used, memory, busy>>

\* Manager.ClearCredential.
ProvisionForget(c) ==
    /\ flow[c] = "forget"
    /\ memory' = None
    /\ FlowTo(c, "mark")
    /\ UNCHANGED <<persistent, busy, my>>

ProvisionFailed(c) ==
    /\ flow[c] = "mark"
    /\ TrySetState(my[c].state)
    /\ busy' = None
    /\ FlowTo(c, "discard")
    /\ UNCHANGED <<enabled, principals, used, memory, my>>

ProvisionReady(c) ==
    /\ flow[c] = "ready"
    /\ TrySetState("ready")
    /\ busy' = None
    /\ FlowTo(c, "idle")
    /\ UNCHANGED <<enabled, principals, used, memory, my>>

\* The setup flow revokes an account that a failed setup left prepared.
DiscardAccount(c) ==
    /\ flow[c] = "discard"
    /\ \/ account # NoAccount /\ account.state = "prepared" /\ FlowTo(c, "revoke")
       \/ FlowTo(c, "idle")
    /\ UNCHANGED <<persistent, memory, busy, my>>

Provision(c) ==
    \/ ProvisionBegin(c) \/ ProvisionRead(c) \/ ProvisionConnect(c)
    \/ ProvisionWrite(c) \/ CleanUp(c) \/ ProvisionForget(c)
    \/ ProvisionFailed(c) \/ ProvisionReady(c) \/ DiscardAccount(c)

-----------------------------------------------------------------------------
(* RevokeMCPAccount.                                                        *)

RevokeCall(p) ==
    /\ flow[p] = "idle"
    /\ FlowTo(p, "revoke")
    /\ UNCHANGED <<persistent, memory, busy, my>>

\* Mutant: a revoke does not look for a provision that runs.
RevokeUnclaimed(p) ==
    /\ flow[p] = "revoke"
    /\ busy' = p
    /\ FlowTo(p, "revokeRead")
    /\ UNCHANGED <<persistent, memory, my>>

RevokeBegin(p) ==
    /\ flow[p] = "revoke"
    /\ Claim(p, "revokeRead", "idle")
    /\ UNCHANGED <<persistent, memory, my>>

RevokeRead(p) ==
    /\ flow[p] = "revokeRead"
    /\ \/ /\ account # NoAccount
          /\ my' = [my EXCEPT ![p].ref = account.ref, ![p].state = account.state]
          /\ FlowTo(p, "disable") /\ UNCHANGED busy
       \/ FlowTo(p, "idle") /\ busy' = None /\ UNCHANGED my
    /\ UNCHANGED <<persistent, memory>>

RevokeDisable(p) ==
    /\ flow[p] = "disable"
    /\ \/ enabled' = FALSE /\ FlowTo(p, "clear") /\ UNCHANGED busy
       \/ FlowTo(p, "idle") /\ busy' = None /\ UNCHANGED enabled
    /\ UNCHANGED <<account, principals, used, memory, my>>

\* Mutant: the credential stays in memory.
RevokeKeepsCredential(p) ==
    /\ flow[p] = "clear"
    /\ FlowTo(p, IF my[p].state \in {"prepared", "keychain_cleanup_pending"}
               THEN "pending" ELSE "drop")
    /\ UNCHANGED <<persistent, memory, busy, my>>

\* ClearCredential.  An account no database write was begun for needs no drop.
RevokeClear(p) ==
    /\ flow[p] = "clear"
    /\ memory' = None
    /\ FlowTo(p, IF my[p].state \in {"prepared", "keychain_cleanup_pending"}
               THEN "pending" ELSE "drop")
    /\ UNCHANGED <<persistent, busy, my>>

RevokeDrop(p) ==
    /\ flow[p] = "drop"
    /\ \/ /\ principals' = principals \ {my[p].ref}
          /\ FlowTo(p, "pending") /\ UNCHANGED <<account, busy>>
       \/ /\ principals' = principals \ {my[p].ref} \/ UNCHANGED principals
          /\ TrySetState("revoke_failed")
          /\ busy' = None
          /\ FlowTo(p, "idle")
    /\ UNCHANGED <<enabled, used, memory, my>>

RevokePending(p) ==
    /\ flow[p] = "pending"
    /\ TrySetState("keychain_cleanup_pending")
    /\ FlowTo(p, "delete")
    /\ UNCHANGED <<enabled, principals, used, memory, busy, my>>

RevokeDelete(p) ==
    /\ flow[p] = "delete"
    /\ account' = NoAccount \/ UNCHANGED account
    /\ busy' = None
    /\ FlowTo(p, "idle")
    /\ UNCHANGED <<enabled, principals, used, memory, my>>

Revoke(p) ==
    \/ RevokeBegin(p) \/ RevokeRead(p) \/ RevokeDisable(p) \/ RevokeClear(p)
    \/ RevokeDrop(p) \/ RevokePending(p) \/ RevokeDelete(p)

-----------------------------------------------------------------------------
(* SetConnectionMCPEnabled.                                                 *)

EnableCheck(w) ==
    /\ flow[w] = "idle"
    /\ account # NoAccount /\ account.state = "ready" /\ account.saved
    /\ FlowTo(w, "enable")
    /\ UNCHANGED <<persistent, memory, busy, my>>

EnableStore(w) ==
    /\ flow[w] = "enable"
    /\ enabled' = TRUE
    /\ FlowTo(w, "idle")
    /\ UNCHANGED <<account, principals, used, memory, busy, my>>

Disable(w) ==
    /\ flow[w] = "idle"
    /\ enabled
    /\ enabled' = FALSE
    /\ UNCHANGED <<account, principals, used, memory, busy, flow, my>>

-----------------------------------------------------------------------------
\* Mutant: an interrupted provision may start over.
RecoveredAsPrepared(s) == IF s = "provisioning" THEN "prepared" ELSE s

\* migrate, on start: an interrupted create may have reached the database.
Recovered(s) == IF s = "provisioning" THEN "recovery_required" ELSE s

\* The application dies, and starts again: the rows are migrated and NewRuntime
\* loads the credential of a ready account.
Restart ==
    /\ account' = [account EXCEPT !.state = Recovered(@)]
    /\ memory' = IF account.state = "ready" /\ account.saved THEN account.ref ELSE None
    /\ busy' = None
    /\ flow' = [p \in AccountProcess |-> "idle"]
    /\ UNCHANGED <<enabled, principals, used, my>>

AccountNext ==
    \/ \E c \in Creator : Prepare(c) \/ Provision(c)
    \/ \E p \in Revoker : RevokeCall(p)
    \/ \E p \in Creator \cup Revoker : Revoke(p)
    \/ \E w \in Switch : EnableCheck(w) \/ EnableStore(w) \/ Disable(w)
    \/ Restart

AccountSpec == AccountInit /\ [][AccountNext]_accountVars

-----------------------------------------------------------------------------
(* Correctness.                                                             *)

\* "A prepared account has made no database change, so a failed setup can discard it
\* safely" (mcp-managed-account.ts): revoke deletes its row without a statement.
PreparedIsUnused == account.state = "prepared" => account.ref \notin principals

\* A principal in the database has its row, in a state from which revoke drops it:
\* no login is left behind, whatever failed and whenever the application died.
PrincipalIsRecorded ==
    \A r \in principals :
        account.ref = r /\ account.state \notin {"prepared", "keychain_cleanup_pending"}

\* WithConnection would serve a call with the managed credential (manager.go).
CanServe == enabled /\ account.state = "ready" /\ memory # None

\* A principal is created or dropped only while no MCP call can be let in with it,
\* even if the profile is enabled again meanwhile: revoke clears the credential first.
PrincipalChangesUnserved == [][principals' # principals => ~CanServe']_accountVars

=============================================================================
