----------------------------- MODULE GuiRequests -----------------------------
(***************************************************************************)
(* The native side of GUI requests: the job registry shared by the SQL,    *)
(* Mongo and Redis services (internal/api/request-jobs.go), RunQuery, the  *)
(* cached metadata lookups and CancelQuery (internal/api/sql.go,           *)
(* internal/api/cache.go), and the order in which UpdateConnection         *)
(* disturbs them (internal/api/connections.go).                            *)
(*                                                                         *)
(* The provider manager appears as what ProviderManager shows of it: Get   *)
(* serves the mapped provider, or builds one from the stored profile, and  *)
(* Invalidate unmaps it.  A profile is a version number; Policy gives the  *)
(* write policy stored with a version.                                     *)
(***************************************************************************)
EXTENDS Naturals, FiniteSets

CONSTANTS
    Query,       \* RunQuery calls from the frontend, each with its own request id
    Listing,     \* ListTables, ListSchemas, GetTableColumns... of one cache key
    Update,      \* UpdateConnection calls
    MaxActive,   \* maxGUIRequests
    MaxEarly,    \* maxEarlyRequestCancels
    Policy,      \* Policy[v]: may the version v of the profile be written to?
    None

Process == Query \cup Listing \cup Update
Version == 0 .. Cardinality(Update)

ASSUME GuiAssumption ==
    /\ IsFiniteSet(Query \cup Update)
    /\ Query \cap Listing = {} /\ (Query \cup Listing) \cap Update = {}
    /\ MaxActive \in Nat \ {0} /\ MaxEarly \in Nat
    /\ Policy \in [Version -> {"writable", "readOnly"}]
    /\ None \notin Process \cup Version

VARIABLES
    active,     \* jobs.active: the queries with a job
    cancelled,  \* the jobs whose context is cancelled
    early,      \* jobs.early: tombstones younger than earlyRequestCancelTTL
    expired,    \* jobs.early: tombstones past it and not yet pruned
    closing,    \* requestJobs.close: "no", "waiting", "done"
    slot,       \* s.queries[connection]: the query CancelQuery would cancel
    profile,    \* the stored version of the profile
    provider,   \* the version the mapped provider was built from
    cache,      \* the version the cached metadata was read from
    settled,    \* the newest version whose UpdateConnection has returned (history)
    accepted,   \* the queries whose cancellation was accepted (history)
    pc,         \* control state of each call
    seen        \* the version each call works with: of the policy, then the provider

jobVars == <<active, cancelled, early, expired, closing>>
dataVars == <<profile, provider, cache>>
history == <<settled, accepted>>
vars == <<jobVars, slot, dataVars, history, pc, seen>>

PCs == {"idle", "policy", "lookup", "register", "running", "deregister", "finish",
        "fill", "cancelJobs", "clearCache", "invalidate", "done"}

\* Types, and the bounds of the two registries (maxGUIRequests, maxEarlyRequestCancels).
TypeOK ==
    /\ active \subseteq Query /\ cancelled \subseteq Query
    /\ early \subseteq Query /\ expired \subseteq Query
    /\ closing \in {"no", "waiting", "done"}
    /\ slot \in Query \cup {None}
    /\ profile \in Version
    /\ provider \in Version \cup {None} /\ cache \in Version \cup {None}
    /\ settled \in Version /\ accepted \subseteq Query
    /\ Cardinality(active) <= MaxActive /\ Cardinality(early \cup expired) <= MaxEarly
    /\ pc \in [Process -> PCs]
    /\ seen \in [Process -> [policy : Version \cup {None}, data : Version \cup {None}]]

Init ==
    /\ active = {} /\ cancelled = {} /\ early = {} /\ expired = {}
    /\ closing = "no"
    /\ slot = None
    /\ profile = 0 /\ provider = None /\ cache = None
    /\ settled = 0 /\ accepted = {}
    /\ pc = [p \in Process |-> "idle"]
    /\ seen = [p \in Process |-> [policy |-> None, data |-> None]]

Goto(p, where) == pc' = [pc EXCEPT ![p] = where]

\* database.DB.Get, as ProviderManager has it: v is the version served.
Lookup(v) ==
    IF provider = None THEN v = profile /\ provider' = profile
                       ELSE v = provider /\ UNCHANGED provider

-----------------------------------------------------------------------------
(* requestJobs.                                                             *)

\* Mutant: a tombstone does not stop the request it names.
BeginIgnoresTombstone(q) ==
    /\ pc[q] = "idle"
    /\ closing = "no" /\ Cardinality(active) < MaxActive
    /\ active' = active \cup {q}
    /\ early' = early \ {q} /\ expired' = expired \ {q}
    /\ Goto(q, "policy")
    /\ UNCHANGED <<cancelled, closing, slot, dataVars, history, seen>>

Begin(q) ==
    /\ pc[q] = "idle"
    /\ closing = "no" /\ Cardinality(active) < MaxActive
    /\ q \notin early
    /\ active' = active \cup {q}
    /\ expired' = expired \ {q}
    /\ Goto(q, "policy")
    /\ UNCHANGED <<cancelled, early, closing, slot, dataVars, history, seen>>

\* The request is answered with an error and never reaches the database.
BeginRefused(q) ==
    /\ pc[q] = "idle"
    /\ closing # "no" \/ Cardinality(active) >= MaxActive
    /\ Goto(q, "done")
    /\ UNCHANGED <<jobVars, slot, dataVars, history, seen>>

BeginCancelled(q) ==
    /\ pc[q] = "idle"
    /\ closing = "no" /\ Cardinality(active) < MaxActive
    /\ q \in early
    /\ early' = early \ {q}
    /\ Goto(q, "done")
    /\ UNCHANGED <<active, cancelled, expired, closing, slot, dataVars, history, seen>>

\* Mutant: the job leaves the registry before the deferred calls ahead of it.
FinishEarly(q) ==
    /\ pc[q] \in {"running", "finish"}
    /\ active' = active \ {q}
    /\ cancelled' = cancelled \cup {q}
    /\ Goto(q, IF pc[q] = "running" THEN "deregister" ELSE "done")
    /\ UNCHANGED <<early, expired, closing, slot, dataVars, history, seen>>

Finish(q) ==
    /\ pc[q] = "finish"
    /\ active' = active \ {q}
    /\ cancelled' = cancelled \cup {q}
    /\ Goto(q, "done")
    /\ UNCHANGED <<early, expired, closing, slot, dataVars, history, seen>>

\* cancel(id), under jobs.mu, once per query: the frontend's AbortSignal fires
\* before the call has come, while it runs, or before its answer is read.
CancelEffect(q) ==
    \/ /\ closing = "no" /\ q \in active
       /\ cancelled' = cancelled \cup {q}
       /\ accepted' = accepted \cup {q}
       /\ UNCHANGED <<early, expired>>
    \/ /\ closing = "no" /\ q \notin active
       /\ expired' = {}
       /\ IF Cardinality(early) < MaxEarly \/ q \in early
          THEN early' = early \cup {q} /\ accepted' = accepted \cup {q}
          ELSE UNCHANGED <<early, accepted>>
       /\ UNCHANGED cancelled
    \/ /\ closing # "no"
       /\ UNCHANGED <<cancelled, early, expired, accepted>>

CancelRequest(q) ==
    /\ q \notin accepted
    /\ CancelEffect(q)
    /\ UNCHANGED <<active, closing, slot, dataVars, settled, pc, seen>>

\* earlyRequestCancelTTL passes for a tombstone.
TombstoneExpires(q) ==
    /\ q \in early
    /\ early' = early \ {q}
    /\ expired' = expired \cup {q}
    /\ accepted' = accepted \ {q}
    /\ UNCHANGED <<active, cancelled, closing, slot, dataVars, settled, pc, seen>>

\* close: the root context is cancelled, and with it every job.
Close ==
    /\ closing = "no"
    /\ closing' = "waiting"
    /\ cancelled' = cancelled \cup active
    /\ early' = {} /\ expired' = {}
    /\ UNCHANGED <<active, slot, dataVars, history, pc, seen>>

InFlight == {q \in Query : pc[q] \notin {"idle", "done"}}   \* jobs.wg

\* Mutant: close does not wait for the native calls.
CloseWithoutWait ==
    /\ closing = "waiting"
    /\ closing' = "done"
    /\ UNCHANGED <<active, cancelled, early, expired, slot, dataVars, history, pc, seen>>

CloseReturns ==
    /\ closing = "waiting"
    /\ InFlight = {}
    /\ closing' = "done"
    /\ UNCHANGED <<active, cancelled, early, expired, slot, dataVars, history, pc, seen>>

-----------------------------------------------------------------------------
(* RunQuery, of a statement that writes: the policy is read after the job   *)
(* is registered, the slot is set after the lookup, and the deferred calls  *)
(* run in the opposite order.                                               *)

ReadPolicy(q) ==
    /\ pc[q] = "policy"
    /\ seen' = [seen EXCEPT ![q].policy = profile]
    /\ Goto(q, IF Policy[profile] = "writable" THEN "lookup" ELSE "finish")
    /\ UNCHANGED <<jobVars, slot, dataVars, history>>

\* The lookup and the statement fail, or are cancelled, at any time.
GetProvider(q) ==
    /\ pc[q] = "lookup"
    /\ \/ (\E v \in Version : Lookup(v)) /\ Goto(q, "register")
       \/ Goto(q, "finish") /\ UNCHANGED provider
    /\ UNCHANGED <<jobVars, slot, profile, cache, history, seen>>

\* Mutant: a query found cancelled never gets to finish its job.
RegisterUncancelled(q) ==
    /\ pc[q] = "register" /\ q \notin cancelled
    /\ Goto(q, "running") /\ slot' = q
    /\ UNCHANGED <<jobVars, dataVars, history, seen>>

Register(q) ==
    /\ pc[q] = "register"
    /\ IF q \in cancelled
       THEN Goto(q, "finish") /\ UNCHANGED slot
       ELSE Goto(q, "running") /\ slot' = q
    /\ UNCHANGED <<jobVars, dataVars, history, seen>>

StatementReturns(q) ==
    /\ pc[q] = "running"
    /\ Goto(q, "deregister")
    /\ UNCHANGED <<jobVars, slot, dataVars, history, seen>>

Deregister(q) ==
    /\ pc[q] = "deregister"
    /\ slot' = IF slot = q THEN None ELSE slot
    /\ Goto(q, "finish")
    /\ UNCHANGED <<jobVars, dataVars, history, seen>>

RunQuery(q) ==
    \/ Begin(q) \/ BeginRefused(q) \/ BeginCancelled(q)
    \/ ReadPolicy(q) \/ GetProvider(q) \/ Register(q)
    \/ StatementReturns(q) \/ Deregister(q) \/ Finish(q)

CancelQuery ==
    /\ slot # None
    /\ CancelEffect(slot)
    /\ UNCHANGED <<active, closing, slot, dataVars, settled, pc, seen>>

-----------------------------------------------------------------------------
(* A cached metadata lookup: get, and on a miss the provider, then set.     *)

CacheGet(l) ==
    /\ pc[l] = "idle"
    /\ IF cache # None
       THEN Goto(l, "done") /\ seen' = [seen EXCEPT ![l].data = cache]
       ELSE Goto(l, "lookup") /\ UNCHANGED seen
    /\ UNCHANGED <<jobVars, slot, dataVars, history>>

ListMetadata(l) ==
    /\ pc[l] = "lookup"
    /\ \/ /\ \E v \in Version : Lookup(v) /\ seen' = [seen EXCEPT ![l].data = v]
          /\ Goto(l, "fill")
       \/ Goto(l, "done") /\ UNCHANGED <<provider, seen>>
    /\ UNCHANGED <<jobVars, slot, profile, cache, history>>

CacheSet(l) ==
    /\ pc[l] = "fill"
    /\ cache' = seen[l].data
    /\ Goto(l, "done")
    /\ UNCHANGED <<jobVars, slot, profile, provider, history, seen>>

List(l) == CacheGet(l) \/ ListMetadata(l) \/ CacheSet(l)

\* schemaCacheTime passes, or the LRU evicts the key.
CacheExpires ==
    /\ cache # None
    /\ cache' = None
    /\ UNCHANGED <<jobVars, slot, profile, provider, history, pc, seen>>

-----------------------------------------------------------------------------
(* UpdateConnection: the store, then invalidateConnection.                  *)

UpdateProfile(u) ==
    /\ pc[u] = "idle"
    /\ profile' = profile + 1
    /\ seen' = [seen EXCEPT ![u].data = profile + 1]
    /\ Goto(u, "cancelJobs")
    /\ UNCHANGED <<jobVars, slot, provider, cache, history>>

\* Mutant: only the query in the connection's slot is cancelled.
CancelSlotOnly(u) ==
    /\ pc[u] = "cancelJobs"
    /\ cancelled' = cancelled \cup (active \cap {slot})
    /\ Goto(u, "clearCache")
    /\ UNCHANGED <<active, early, expired, closing, slot, dataVars, history, seen>>

CancelConnection(u) ==
    /\ pc[u] = "cancelJobs"
    /\ cancelled' = cancelled \cup active
    /\ Goto(u, "clearCache")
    /\ UNCHANGED <<active, early, expired, closing, slot, dataVars, history, seen>>

ClearConnection(u) ==
    /\ pc[u] = "clearCache"
    /\ cache' = None
    /\ Goto(u, "invalidate")
    /\ UNCHANGED <<jobVars, slot, profile, provider, history, seen>>

Invalidate(u) ==
    /\ pc[u] = "invalidate"
    /\ provider' = None
    /\ settled' = IF seen[u].data > settled THEN seen[u].data ELSE settled
    /\ Goto(u, "done")
    /\ UNCHANGED <<jobVars, slot, profile, cache, accepted, seen>>

UpdateConnection(u) ==
    UpdateProfile(u) \/ CancelConnection(u) \/ ClearConnection(u) \/ Invalidate(u)

-----------------------------------------------------------------------------
AllReturned ==
    /\ \A p \in Process : pc[p] = "done"
    /\ UNCHANGED vars

Next ==
    \/ \E q \in Query : RunQuery(q) \/ CancelRequest(q) \/ TombstoneExpires(q)
    \/ \E l \in Listing : List(l)
    \/ \E u \in Update : UpdateConnection(u)
    \/ CancelQuery \/ CacheExpires
    \/ Close \/ CloseReturns
    \/ AllReturned

Spec == Init /\ [][Next]_vars

\* The runtime runs every call that has begun and can go on, a statement returns
\* once its context is cancelled (assumed of the drivers; others may run for ever),
\* and close goes on when it can.
Proceeds(q) ==
    /\ pc[q] # "idle"
    /\ pc[q] = "running" => q \in cancelled
    /\ RunQuery(q)

Fairness ==
    /\ \A q \in Query : WF_vars(Proceeds(q))
    /\ WF_vars(CloseReturns)

FairSpec == Spec /\ Fairness

-----------------------------------------------------------------------------
(* Correctness.                                                             *)

Executing == {q \in Query : pc[q] = "running"}

\* A cancellation that was accepted is not lost, even when it overtakes the call it
\* cancels: the statement does not start, or runs with a cancelled context.
CancelledIsStopped == Executing \cap accepted \subseteq cancelled

\* Once an update that makes the connection read-only has returned, a statement let
\* in under the former policy is cancelled: begin comes before the policy is read,
\* and the store before cancelConnection.
PolicyIsRespected ==
    Policy[settled] = "readOnly" =>
        \A q \in Executing \ cancelled : seen[q].policy >= settled

\* The slot of the connection names a running query, so CancelQuery never plants a
\* tombstone under an id that is not used again.
SlotIsRunning ==
    slot # None => slot \in active /\ pc[slot] \in {"running", "deregister"}

\* When close has returned no native call holds a job, and none gets one: the
\* providers can be torn down (main.go, OnShutdown).
NoJobAfterClose == closing = "done" => InFlight = {} /\ active = {}

\* The application can always be closed: close returns.
CloseTerminates == closing = "waiting" ~> closing = "done"

\* "Profile edits and deletion also invalidate caches that depend on that profile"
\* (docs/llm/workflows/connections-and-workspace.md): metadata read through an older
\* profile is not served once the update has returned.
NoStaleMetadata == cache # None => cache >= settled

=============================================================================
