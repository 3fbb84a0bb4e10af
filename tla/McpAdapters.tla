----------------------------- MODULE McpAdapters -----------------------------
(***************************************************************************)
(* The MCP AdapterManager (internal/mcp/manager.go) for one profile: the   *)
(* calls of MCP clients in WithConnection, and what retires the adapter    *)
(* they share: a profile update (internal/api/connections.go), a new       *)
(* credential, and CloseAll.  Its maps are keyed by profile id, so         *)
(* profiles do not meet.                                                   *)
(*                                                                         *)
(* Profile and credential are version numbers.  Enabled tells whether a    *)
(* version of the profile may be served over MCP.  An adapter is named by  *)
(* the call that created it.                                               *)
(***************************************************************************)
EXTENDS Absent, Naturals, FiniteSets

CONSTANTS
    Caller,      \* calls of WithConnection
    Updater,     \* UpdateConnection, SetConnectionMCPEnabled
    Rotator,     \* SetCredential, ClearCredential
    Closer,      \* CloseAll
    Entry,       \* identities of *entry values, at least one per call
    MaxCalls,    \* MaxConcurrentCallsPerProfile
    Enabled      \* Enabled[v]: is version v of the profile enabled for MCP?

Admin   == Updater \cup Rotator \cup Closer
AdapterProcess == Caller \cup Admin
Version == 0 .. Cardinality(Updater)
Secret  == 0 .. Cardinality(Rotator)

ASSUME AdapterAssumption ==
    /\ IsFiniteSet(AdapterProcess \cup Entry)
    /\ Caller \cap Admin = {} /\ Updater \cap (Rotator \cup Closer) = {}
    /\ Rotator \cap Closer = {}
    /\ Cardinality(Entry) >= Cardinality(Caller)
    /\ MaxCalls \in Nat \ {0}
    /\ Enabled \in [Version -> BOOLEAN]
    /\ None \notin AdapterProcess \cup Entry \cup Version \cup Secret

VARIABLES
    profile,     \* the stored version of the profile
    credential,  \* m.credentials: the version held, or None
    mapped,      \* m.entries: the entry of the profile, or None
    inflight,    \* e.inflight
    creating,    \* e.createMu: the call that holds it
    adapter,     \* e.sql or e.mongo: the adapter stored in the entry
    closed,      \* the entries with e.closed
    open,        \* adapters created and not yet closed
    settled,     \* newest versions whose Invalidate has returned (history)
    pc, at,      \* control state of each call and the entry it works on
    held,        \* the adapter a call serves, or an administrator closes
    seen         \* the versions each call has read, or an administrator stored

entryVars == <<mapped, inflight, creating, adapter, closed>>
adapterVars == <<profile, credential, entryVars, open, settled, pc, at, held, seen>>

AdapterPCs == {"idle", "credential", "join", "create", "connect", "store", "discard",
        "serve", "leave", "drop", "close", "closeAdapter", "done"}
Versions == [profile : Version \cup {None}, credential : Secret \cup {None}]

AdapterTypeOK ==
    /\ profile \in Version /\ credential \in Secret \cup {None}
    /\ mapped \in Entry \cup {None}
    /\ inflight \in [Entry -> 0 .. MaxCalls]
    /\ creating \in [Entry -> Caller \cup {None}]
    /\ adapter \in [Entry -> Caller \cup {None}]
    /\ closed \subseteq Entry /\ open \subseteq Caller
    /\ settled \in [profile : Version, credential : Secret]
    /\ pc \in [AdapterProcess -> AdapterPCs]
    /\ at \in [AdapterProcess -> Entry \cup {None}]
    /\ held \in [AdapterProcess -> Caller \cup {None}]
    /\ seen \in [AdapterProcess -> Versions]

AdapterInit ==
    /\ profile = 0 /\ credential = 0
    /\ mapped = None
    /\ inflight = [e \in Entry |-> 0]
    /\ creating = [e \in Entry |-> None]
    /\ adapter = [e \in Entry |-> None]
    /\ closed = {} /\ open = {}
    /\ settled = [profile |-> 0, credential |-> 0]
    /\ pc = [p \in AdapterProcess |-> "idle"]
    /\ at = [p \in AdapterProcess |-> None]
    /\ held = [p \in AdapterProcess |-> None]
    /\ seen = [p \in AdapterProcess |-> [profile |-> None, credential |-> None]]

Goto(p, where) == pc' = [pc EXCEPT ![p] = where]

\* The entry of the profile, or a new one: no map and no goroutine has referred to it.
Used(e) == e \in closed \cup {mapped} \/ \E p \in AdapterProcess : at[p] = e
EntryFor == IF mapped # None THEN mapped ELSE CHOOSE e \in Entry : ~Used(e)

-----------------------------------------------------------------------------
(* WithConnection.                                                          *)

\* The profile is read from the store and found enabled, or the call is refused.
ReadProfile(c) ==
    /\ pc[c] = "idle"
    /\ seen' = [seen EXCEPT ![c].profile = profile]
    /\ Goto(c, IF Enabled[profile] THEN "credential" ELSE "done")
    /\ UNCHANGED <<profile, credential, entryVars, open, settled, at, held>>

ReadCredential(c) ==
    /\ pc[c] = "credential"
    /\ seen' = [seen EXCEPT ![c].credential = credential]
    /\ Goto(c, IF credential # None THEN "join" ELSE "done")
    /\ UNCHANGED <<profile, credential, entryVars, open, settled, at, held>>

\* entryFor and the concurrency guard, under m.mu.
Join(c) ==
    /\ pc[c] = "join"
    /\ LET e == EntryFor IN
          /\ mapped' = e
          /\ IF inflight[e] >= MaxCalls
             THEN Goto(c, "done") /\ UNCHANGED <<inflight, at>>
             ELSE /\ inflight' = [inflight EXCEPT ![e] = @ + 1]
                  /\ at' = [at EXCEPT ![c] = e]
                  /\ Goto(c, "create")
    /\ UNCHANGED <<profile, credential, creating, adapter, closed, open, settled, held, seen>>

(***************************************************************************)
(* connection: createMu is taken and current() read; without an adapter to  *)
(* create, createMu is given back at once.                                  *)
(***************************************************************************)
Enter(c) ==
    /\ pc[c] = "create"
    /\ creating[at[c]] = None
    /\ LET e == at[c] IN
       \/ /\ e \in closed
          /\ Goto(c, "leave") /\ UNCHANGED <<creating, held>>
       \/ /\ e \notin closed /\ adapter[e] # None
          /\ held' = [held EXCEPT ![c] = adapter[e]]
          /\ Goto(c, "serve") /\ UNCHANGED creating
       \/ /\ e \notin closed /\ adapter[e] = None
          /\ creating' = [creating EXCEPT ![e] = c]
          /\ Goto(c, "connect") /\ UNCHANGED held
    /\ UNCHANGED <<profile, credential, mapped, inflight, adapter, closed, open, settled, at, seen>>

\* newSQLAdapter or createMongoAdapter returns, with the versions the call read.
Connect(c) ==
    /\ pc[c] = "connect"
    /\ \/ open' = open \cup {c} /\ Goto(c, "store") /\ UNCHANGED creating
       \/ creating' = [creating EXCEPT ![at[c]] = None] /\ Goto(c, "leave") /\ UNCHANGED open
    /\ UNCHANGED <<profile, credential, mapped, inflight, adapter, closed, settled, at, held, seen>>

\* Mutant: the entry is not found closed.
StoreUnchecked(c) ==
    /\ pc[c] = "store"
    /\ adapter' = [adapter EXCEPT ![at[c]] = c]
    /\ held' = [held EXCEPT ![c] = c]
    /\ creating' = [creating EXCEPT ![at[c]] = None]
    /\ Goto(c, "serve")
    /\ UNCHANGED <<profile, credential, mapped, inflight, closed, open, settled, at, seen>>

\* The adapter is stored under e.mu; one created for a retired entry is not.
Store(c) ==
    /\ pc[c] = "store"
    /\ IF at[c] \in closed
       THEN Goto(c, "discard") /\ UNCHANGED <<adapter, held, creating>>
       ELSE /\ adapter' = [adapter EXCEPT ![at[c]] = c]
            /\ held' = [held EXCEPT ![c] = c]
            /\ creating' = [creating EXCEPT ![at[c]] = None]
            /\ Goto(c, "serve")
    /\ UNCHANGED <<profile, credential, mapped, inflight, closed, open, settled, at, seen>>

\* It is closed by its creator, which then gives createMu back.
Discard(c) ==
    /\ pc[c] = "discard"
    /\ open' = open \ {c}
    /\ creating' = [creating EXCEPT ![at[c]] = None]
    /\ Goto(c, "leave")
    /\ UNCHANGED <<profile, credential, mapped, inflight, adapter, closed, settled, at, held, seen>>

\* fn returns: with an answer, or with the error of an adapter closed meanwhile.
Serve(c) ==
    /\ pc[c] = "serve"
    /\ Goto(c, "leave")
    /\ UNCHANGED <<profile, credential, entryVars, open, settled, at, held, seen>>

Leave(c) ==
    /\ pc[c] = "leave"
    /\ inflight' = [inflight EXCEPT ![at[c]] = @ - 1]
    /\ Goto(c, "done")
    /\ UNCHANGED <<profile, credential, mapped, creating, adapter, closed>>
    /\ UNCHANGED <<open, settled, at, held, seen>>

Call(c) ==
    \/ ReadProfile(c) \/ ReadCredential(c) \/ Join(c) \/ Enter(c)
    \/ Store(c) \/ Discard(c) \/ Serve(c) \/ Leave(c)

-----------------------------------------------------------------------------
(* What retires the entry.                                                  *)

UpdateProfile(u) ==
    /\ pc[u] = "idle"
    /\ profile' = profile + 1
    /\ seen' = [seen EXCEPT ![u].profile = profile + 1]
    /\ Goto(u, "drop")
    /\ UNCHANGED <<credential, entryVars, open, settled, at, held>>

\* SetCredential or ClearCredential, under m.mu.
SetCredential(r) ==
    /\ pc[r] = "idle"
    /\ LET w == Cardinality({q \in Rotator : pc[q] # "idle"}) + 1 IN
          /\ credential' \in {w, None}
          /\ seen' = [seen EXCEPT ![r].credential = w]
    /\ Goto(r, "drop")
    /\ UNCHANGED <<profile, entryVars, open, settled, at, held>>

\* Invalidate: the entry leaves the map under m.mu ...
Drop(a) ==
    /\ pc[a] = "drop"
    /\ mapped' = None
    /\ at' = [at EXCEPT ![a] = mapped]
    /\ Goto(a, "close")
    /\ UNCHANGED <<profile, credential, inflight, creating, adapter, closed>>
    /\ UNCHANGED <<open, settled, held, seen>>

\* CloseAll: so does every credential.
CloseAll(a) ==
    /\ pc[a] = "idle"
    /\ mapped' = None /\ credential' = None
    /\ at' = [at EXCEPT ![a] = mapped]
    /\ Goto(a, "close")
    /\ UNCHANGED <<profile, inflight, creating, adapter, closed, open, settled, held, seen>>

Settle(a) ==
    LET newest(s, v) == IF v # None /\ v > s THEN v ELSE s IN
    settled' = [profile    |-> newest(settled.profile, seen[a].profile),
                credential |-> newest(settled.credential, seen[a].credential)]

\* Mutant: the entry is closed under createMu, behind a connect that may not return.
CloseEntryWaits(a) ==
    /\ pc[a] = "close"
    /\ \A e \in {at[a]} \ {None} : creating[e] = None
    /\ IF at[a] = None
       THEN Settle(a) /\ Goto(a, "done") /\ UNCHANGED <<adapter, closed, held>>
       ELSE /\ closed' = closed \cup {at[a]}
            /\ held' = [held EXCEPT ![a] = adapter[at[a]]]
            /\ adapter' = [adapter EXCEPT ![at[a]] = None]
            /\ Goto(a, "closeAdapter")
            /\ UNCHANGED settled
    /\ UNCHANGED <<profile, credential, mapped, inflight, creating, open, at, seen>>

\* ... and closeEntry retires it for good under e.mu ...
CloseEntry(a) ==
    /\ pc[a] = "close"
    /\ IF at[a] = None
       THEN Settle(a) /\ Goto(a, "done") /\ UNCHANGED <<adapter, closed, held>>
       ELSE /\ closed' = closed \cup {at[a]}
            /\ held' = [held EXCEPT ![a] = adapter[at[a]]]
            /\ adapter' = [adapter EXCEPT ![at[a]] = None]
            /\ Goto(a, "closeAdapter")
            /\ UNCHANGED settled
    /\ UNCHANGED <<profile, credential, mapped, inflight, creating, open, at, seen>>

\* ... then the adapter taken from it is closed, which a pool may put off until the calls
\* that use it have given their connections back: the step is the closing's end, and
\* RetireFairness owes it only then.
CloseAdapter(a) ==
    /\ pc[a] = "closeAdapter"
    /\ open' = open \ {held[a]}
    /\ Settle(a)
    /\ Goto(a, "done")
    /\ UNCHANGED <<profile, credential, entryVars, at, held, seen>>

Retire(a) == Drop(a) \/ CloseEntry(a) \/ CloseAdapter(a)

\* Calls on an adapter are bounded by QueryTimeoutMs; a connect is owed nothing, nor is a
\* call that waits for createMu.
InUse(d) == \E c \in Caller : pc[c] = "serve" /\ held[c] = d
RetireFairness ==
    /\ \A a \in Admin :
          /\ WF_adapterVars(Drop(a)) /\ WF_adapterVars(CloseEntry(a))
          /\ WF_adapterVars(CloseAdapter(a) /\ ~InUse(held[a]))
    /\ \A c \in Caller : WF_adapterVars(Serve(c))

-----------------------------------------------------------------------------
AllReturned ==
    /\ \A p \in AdapterProcess : pc[p] = "done"
    /\ UNCHANGED adapterVars

AdapterNext ==
    \/ \E c \in Caller : Call(c) \/ Connect(c)
    \/ \E u \in Updater : UpdateProfile(u)
    \/ \E r \in Rotator : SetCredential(r)
    \/ \E k \in Closer : CloseAll(k)
    \/ \E a \in Admin : Retire(a)
    \/ AllReturned

AdapterSpec == AdapterInit /\ [][AdapterNext]_adapterVars

-----------------------------------------------------------------------------
(* Correctness.                                                             *)

\* An open adapter is stored in the entry in use, or somebody is about to store or
\* to close it: none is left on an entry nobody will close (entry.connection).
NoLeakedAdapter ==
    \A c \in open :
        \/ mapped # None /\ adapter[mapped] = c
        \/ pc[c] \in {"store", "discard"}
        \/ \E a \in Admin :
              \/ pc[a] = "close" /\ at[a] # None /\ adapter[at[a]] = c
              \/ pc[a] = "closeAdapter" /\ held[a] = c

\* Concurrent first calls share one adapter: no entry ever has two that are open
\* (createMu).
OneAdapterPerEntry ==
    \A c, d \in open : at[c] = at[d] => c = d

\* Every open adapter has one owner, and every entry one adapter.
AdaptersAreOwned == NoLeakedAdapter /\ OneAdapterPerEntry

\* Invalidate and CloseAll return, also while an adapter of their entry is connecting and
\* never gets an answer (closeEntry "never waits on an adapter that is still connecting").
\* Under RetireFairness: calls that use an adapter end, connects need not.
RetireReturns ==
    \A a \in Admin : pc[a] \in {"drop", "close", "closeAdapter"} ~> pc[a] = "done"

\* "Invalidate drops and closes the cached adapter so a disabled/edited/deleted
\* profile cannot serve calls through a stale connection" (manager.go): once it has
\* returned, the adapter in use was not made from an older profile or credential.
NoStaleAdapter ==
    mapped # None /\ adapter[mapped] # None =>
        /\ seen[adapter[mapped]].profile >= settled.profile
        /\ seen[adapter[mapped]].credential >= settled.credential

=============================================================================
