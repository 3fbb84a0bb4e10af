-------------------------- MODULE GuiRequestsProofs --------------------------
(***************************************************************************)
(* Theorems about GuiRequests, for any queries, listings, updates and      *)
(* limits of the registry: the two registries keep within their limits, a  *)
(* cancellation that was accepted stops its query, an update to read-only  *)
(* leaves no statement running under the former policy, the connection's   *)
(* slot names a running query, no job outlives close, and close waits only *)
(* for calls that are cancelled and come nearer to their end at each step. *)
(*                                                                         *)
(* The invariant ties the registry to the calls (a query has a job exactly *)
(* between begin and finish), follows an accepted cancellation from its    *)
(* tombstone to the job's context, and gives each update that has passed   *)
(* cancelConnection, and then each one that has returned, a version below  *)
(* which no uncancelled query has read its policy.                         *)
(***************************************************************************)
EXTENDS GuiRequests, FiniteSetTheorems, TLAPS

\* The updates that have stored their profile: the version counts them.
Stored == {u \in Update : pc[u] # "idle"}

Types ==
    /\ active \subseteq Query /\ cancelled \subseteq Query
    /\ early \subseteq Query /\ expired \subseteq Query /\ accepted \subseteq Query
    /\ closing \in {"no", "waiting", "done"}
    /\ slot \in Query \cup {None}
    /\ profile \in Version /\ profile = Cardinality(Stored)
    /\ provider \in Version \cup {None} /\ cache \in Version \cup {None}
    /\ settled \in Version
    /\ pc \in [Process -> PCs]
    /\ seen \in [Process -> [policy : Version \cup {None}, data : Version \cup {None}]]

\* maxGUIRequests and maxEarlyRequestCancels.
Bounds ==
    Cardinality(active) <= MaxActive /\ Cardinality(early \cup expired) <= MaxEarly

\* A query has a job from its begin to its finish, and the slot while it may be cancelled.
Registered ==
    /\ \A q \in Query : q \in active <=> pc[q] \notin {"idle", "done"}
    /\ slot # None => pc[slot] \in {"running", "deregister"}
    /\ closing = "done" => active = {}

\* An accepted cancellation waits in a tombstone, or the query has no way to begin, or the
\* job's context is cancelled.
Accepting ==
    \A q \in accepted :
        /\ pc[q] = "idle" => q \in early \/ closing # "no"
        /\ pc[q] \notin {"idle", "done"} => q \in cancelled

\* The queries that read their policy before the version v and go on.
Admitted == {q \in Query \ cancelled : pc[q] \in {"lookup", "register", "running"}}
NoneBefore(v) ==
    /\ v <= profile
    /\ \A q \in Admitted : seen[q].policy >= v

Policed ==
    /\ \A q \in Query : pc[q] \in {"lookup", "register", "running"} => seen[q].policy \in Version
    /\ \A u \in Update : pc[u] # "idle" => seen[u].data \in Version /\ seen[u].data <= profile
    /\ \A u \in Update : pc[u] \in {"clearCache", "invalidate", "done"} => NoneBefore(seen[u].data)
    /\ \A l \in Listing : pc[l] = "fill" => seen[l].data \in Version
    /\ NoneBefore(settled)

IInv == Types /\ Bounds /\ Registered /\ Accepting /\ Policed

USE GuiAssumption DEF Process

-----------------------------------------------------------------------------
(* The registries and the count of versions.                                *)

\* Stored versions are naturals, and so is the number of every job's policy.
LEMMA VersionsAreNumbers ==
    /\ IsFiniteSet(Update) /\ IsFiniteSet(Query) /\ Cardinality(Update) \in Nat
    /\ Version \subseteq Nat /\ 0 \in Version
<1>1. IsFiniteSet(Update) /\ IsFiniteSet(Query)
  BY FS_Subset
<1>2. QED
  BY <1>1, FS_CardinalityType DEF Version

\* An update that has not stored its profile yet has a version left for it.
LEMMA NextVersion ==
    ASSUME NEW S, S \subseteq Update, NEW u \in Update, u \notin S
    PROVE  /\ Cardinality(S \cup {u}) = Cardinality(S) + 1
           /\ Cardinality(S) \in Nat /\ Cardinality(S \cup {u}) \in Version
<1>1. IsFiniteSet(S) /\ IsFiniteSet(S \cup {u})
  BY VersionsAreNumbers, FS_Subset
<1>2. Cardinality(S \cup {u}) = Cardinality(S) + 1 /\ Cardinality(S) \in Nat
  BY <1>1, FS_AddElement, FS_CardinalityType
<1>3. Cardinality(S \cup {u}) <= Cardinality(Update)
  BY VersionsAreNumbers, FS_Subset
<1>4. QED
  BY <1>2, <1>3, VersionsAreNumbers DEF Version

\* A registry that gains a member below its limit, or only loses members, stays within it.
LEMMA WithinLimit ==
    ASSUME NEW S, IsFiniteSet(S), NEW T, NEW max \in Nat, Cardinality(S) <= max,
           \/ T \subseteq S
           \/ \E q : T = S \cup {q} /\ (Cardinality(S) < max \/ q \in S)
    PROVE  Cardinality(T) <= max
<1>1. Cardinality(S) \in Nat
  BY FS_CardinalityType
<1>2. CASE T \subseteq S
  BY <1>1, <1>2, FS_Subset, FS_CardinalityType
<1>3. ASSUME NEW q, T = S \cup {q}, Cardinality(S) < max \/ q \in S
      PROVE  Cardinality(T) <= max
  <2>1. CASE q \in S
    BY <1>3, <2>1, <1>2
  <2>2. CASE q \notin S
    <3>1. Cardinality(T) = Cardinality(S) + 1
      BY <1>3, <2>2, FS_AddElement
    <3>2. Cardinality(S) < max
      BY <1>3, <2>2
    <3>3. QED
      BY <1>1, <3>1, <3>2
  <2>3. QED
    BY <2>1, <2>2
<1>4. QED
  BY <1>2, <1>3

\* No step takes a registry over its limit.
LEMMA BoundsOK ==
    ASSUME Types, Bounds, [Next]_vars
    PROVE  Bounds'
<1>1. IsFiniteSet(active) /\ IsFiniteSet(early \cup expired) /\ IsFiniteSet(early)
  BY VersionsAreNumbers, FS_Subset DEF Types
<1>2. \/ active' \subseteq active
      \/ \E q : active' = active \cup {q} /\ Cardinality(active) < MaxActive
  <2> USE DEF jobVars
  <2>1. CASE \E q \in Query : RunQuery(q)
    <3>1. PICK q \in Query : RunQuery(q)
      BY <2>1
    <3>2. Cardinality(active) \in Nat
      BY <1>1, FS_CardinalityType
    <3>3. QED
      BY <3>1, <3>2 DEF RunQuery, Begin, BeginRefused, BeginCancelled, ReadPolicy, GetProvider,
                 Register, StatementReturns, Deregister, Finish
  <2>2. CASE \E q \in Query : CancelRequest(q) \/ TombstoneExpires(q)
    BY <2>2 DEF CancelRequest, TombstoneExpires
  <2>3. CASE \E l \in Listing : List(l)
    BY <2>3 DEF List, CacheGet, ListMetadata, CacheSet
  <2>4. CASE \E u \in Update : UpdateConnection(u)
    BY <2>4 DEF UpdateConnection, UpdateProfile, CancelConnection, ClearConnection, Invalidate
  <2>5. QED
    BY <2>1, <2>2, <2>3, <2>4
    DEF Next, CancelQuery, CacheExpires, Close, CloseReturns, AllReturned, vars
<1>3. \/ early' \cup expired' \subseteq early \cup expired
      \/ expired' = {} /\ \E q : /\ early' = early \cup {q}
                                 /\ Cardinality(early) < MaxEarly \/ q \in early
  <2> USE DEF jobVars
  <2>1. CASE \E q \in Query : RunQuery(q)
    BY <2>1 DEF RunQuery, Begin, BeginRefused, BeginCancelled, ReadPolicy, GetProvider,
                Register, StatementReturns, Deregister, Finish
  <2>2. ASSUME NEW q \in Query, CancelRequest(q) \/ TombstoneExpires(q) \/ CancelEffect(q)
        PROVE  \/ early' \cup expired' \subseteq early \cup expired
               \/ expired' = {} /\ \E r : /\ early' = early \cup {r}
                                          /\ Cardinality(early) < MaxEarly \/ r \in early
    BY <2>2 DEF CancelRequest, TombstoneExpires, CancelEffect
  <2>3. CASE \E l \in Listing : List(l)
    BY <2>3 DEF List, CacheGet, ListMetadata, CacheSet
  <2>4. CASE \E u \in Update : UpdateConnection(u)
    BY <2>4 DEF UpdateConnection, UpdateProfile, CancelConnection, ClearConnection, Invalidate
  <2>5. QED
    BY <2>1, <2>2, <2>3, <2>4
    DEF Next, CancelQuery, CacheExpires, Close, CloseReturns, AllReturned, vars, Types
<1>4. Cardinality(active') <= MaxActive
  BY <1>1, <1>2, WithinLimit DEF Bounds
<1>5. Cardinality(early' \cup expired') <= MaxEarly
  <2>1. Cardinality(early) <= MaxEarly
    BY <1>1, WithinLimit DEF Bounds
  <2>2. CASE early' \cup expired' \subseteq early \cup expired
    BY <1>1, <2>2, WithinLimit DEF Bounds
  <2>3. ASSUME NEW q, expired' = {}, early' = early \cup {q},
               Cardinality(early) < MaxEarly \/ q \in early
        PROVE  Cardinality(early' \cup expired') <= MaxEarly
    <3>1. early' \cup expired' = early \cup {q}
      BY <2>3
    <3>2. QED
      BY <1>1, <2>1, <2>3, <3>1, WithinLimit
  <2>4. QED
    BY <1>3, <2>2, <2>3
<1>6. QED
  BY <1>4, <1>5 DEF Bounds

-----------------------------------------------------------------------------
(* What each step keeps of the rest.                                        *)

Rest == Types /\ Registered /\ Accepting /\ Policed

\* The invariant holds when the service is built: no job, no cancellation, nothing cached.
LEMMA InitInv == Init => IInv
<1> SUFFICES ASSUME Init PROVE IInv
  OBVIOUS
<1>1. Stored = {} /\ Cardinality({}) = 0
  BY FS_EmptySet DEF Init, Stored
<1>2. Types
  BY <1>1, VersionsAreNumbers DEF Init, Types, PCs
<1>3. Bounds
  BY <1>1 DEF Init, Bounds
<1>4. Registered /\ Accepting
  BY DEF Init, Registered, Accepting
<1>5. Policed
  BY VersionsAreNumbers DEF Init, Policed, NoneBefore, Admitted
<1>6. QED
  BY <1>2, <1>3, <1>4, <1>5 DEF IInv

\* RunQuery: a job is registered before the policy is read.
LEMMA RunQueryOK ==
    ASSUME Rest, NEW q \in Query, RunQuery(q)
    PROVE  Rest'
<1> USE VersionsAreNumbers DEF Rest, jobVars, dataVars, history, Goto
<1>1. CASE Begin(q)
  <2>1. Types'
    BY <1>1, ZenonT(60) DEF Begin, Types, Stored, PCs
  <2>2. Registered' /\ Accepting'
    BY <1>1, <2>1 DEF Begin, Types, Registered, Accepting
  <2>3. Policed'
    BY <1>1, <2>1 DEF Begin, Types, Registered, Policed, NoneBefore, Admitted
  <2>4. QED
    BY <2>1, <2>2, <2>3
<1>2. CASE BeginRefused(q)
  <2>1. Types'
    BY <1>2, ZenonT(60) DEF BeginRefused, Types, Stored, PCs
  <2>2. Registered' /\ Accepting'
    BY <1>2, <2>1 DEF BeginRefused, Types, Registered, Accepting
  <2>3. Policed'
    BY <1>2, <2>1 DEF BeginRefused, Types, Registered, Policed, NoneBefore, Admitted
  <2>4. QED
    BY <2>1, <2>2, <2>3
<1>3. CASE BeginCancelled(q)
  <2>1. Types'
    BY <1>3, ZenonT(60) DEF BeginCancelled, Types, Stored, PCs
  <2>2. Registered' /\ Accepting'
    BY <1>3, <2>1 DEF BeginCancelled, Types, Registered, Accepting
  <2>3. Policed'
    BY <1>3, <2>1 DEF BeginCancelled, Types, Registered, Policed, NoneBefore, Admitted
  <2>4. QED
    BY <2>1, <2>2, <2>3
<1>4. CASE ReadPolicy(q)
  <2>1. Types'
    BY <1>4, ZenonT(60) DEF ReadPolicy, Types, Stored, PCs
  <2>2. Registered' /\ Accepting'
    BY <1>4, <2>1 DEF ReadPolicy, Types, Registered, Accepting
  <2>3. Policed'
    BY <1>4, <2>1 DEF ReadPolicy, Types, Registered, Policed, NoneBefore, Admitted
  <2>4. QED
    BY <2>1, <2>2, <2>3
<1>5. CASE GetProvider(q)
  <2>1. Types'
    <3>1. Stored' = Stored
      BY <1>5 DEF GetProvider, Lookup, Types, Stored
    <3>2. seen' \in [Process -> [policy : Version \cup {None}, data : Version \cup {None}]]
      BY <1>5 DEF GetProvider, Lookup, Types
    <3>3. QED
      BY <1>5, <3>1, <3>2 DEF GetProvider, Lookup, Types, PCs
  <2>2. Registered' /\ Accepting'
    BY <1>5, <2>1 DEF GetProvider, Types, Registered, Accepting
  <2>3. Policed'
    BY <1>5, <2>1 DEF GetProvider, Types, Registered, Policed, NoneBefore, Admitted
  <2>4. QED
    BY <2>1, <2>2, <2>3
<1>6. CASE Register(q)
  <2>1. Types'
    BY <1>6 DEF Register, Types, Stored, PCs
  <2>2. Registered' /\ Accepting'
    BY <1>6, <2>1 DEF Register, Types, Registered, Accepting
  <2>3. Policed'
    BY <1>6, <2>1 DEF Register, Types, Registered, Policed, NoneBefore, Admitted
  <2>4. QED
    BY <2>1, <2>2, <2>3
<1>7. CASE StatementReturns(q)
  <2>1. Types'
    BY <1>7 DEF StatementReturns, Types, Stored, PCs
  <2>2. Registered' /\ Accepting'
    BY <1>7, <2>1 DEF StatementReturns, Types, Registered, Accepting
  <2>3. Policed'
    BY <1>7, <2>1 DEF StatementReturns, Types, Registered, Policed, NoneBefore, Admitted
  <2>4. QED
    BY <2>1, <2>2, <2>3
<1>8. CASE Deregister(q)
  <2>1. Types'
    BY <1>8 DEF Deregister, Types, Stored, PCs
  <2>2. Registered' /\ Accepting'
    BY <1>8, <2>1 DEF Deregister, Types, Registered, Accepting
  <2>3. Policed'
    BY <1>8, <2>1 DEF Deregister, Types, Registered, Policed, NoneBefore, Admitted
  <2>4. QED
    BY <2>1, <2>2, <2>3
<1>9. CASE Finish(q)
  <2>1. Types'
    BY <1>9 DEF Finish, Types, Stored, PCs
  <2>2. Registered' /\ Accepting'
    BY <1>9, <2>1 DEF Finish, Types, Registered, Accepting
  <2>3. Policed'
    BY <1>9, <2>1 DEF Finish, Types, Registered, Policed, NoneBefore, Admitted
  <2>4. QED
    BY <2>1, <2>2, <2>3
<1>10. QED
  BY <1>1, <1>2, <1>3, <1>4, <1>5, <1>6, <1>7, <1>8, <1>9 DEF RunQuery

\* The frontend's cancellation, before, during or after its query.
LEMMA CancellingOK ==
    ASSUME Rest, NEW q \in Query, CancelRequest(q) \/ TombstoneExpires(q)
    PROVE  Rest'
<1> USE VersionsAreNumbers DEF Rest, jobVars, dataVars, history, Goto
<1>1. CASE CancelRequest(q)
  <2>1. Types'
    <3>1. Stored' = Stored
      BY <1>1 DEF CancelRequest, CancelEffect, Types, Stored
    <3>2. seen' \in [Process -> [policy : Version \cup {None}, data : Version \cup {None}]]
      BY <1>1 DEF CancelRequest, CancelEffect, Types
    <3>3. QED
      BY <1>1, <3>1, <3>2 DEF CancelRequest, CancelEffect, Types, PCs
  <2>2. Registered' /\ Accepting'
    BY <1>1, <2>1 DEF CancelRequest, CancelEffect, Types, Registered, Accepting
  <2>3. Policed'
    BY <1>1, <2>1 DEF CancelRequest, CancelEffect, Types, Registered, Policed,
                        NoneBefore, Admitted
  <2>4. QED
    BY <2>1, <2>2, <2>3
<1>2. CASE TombstoneExpires(q)
  <2>1. Types'
    BY <1>2 DEF TombstoneExpires, Types, Stored, PCs
  <2>2. Registered' /\ Accepting'
    BY <1>2, <2>1 DEF TombstoneExpires, Types, Registered, Accepting
  <2>3. Policed'
    BY <1>2, <2>1 DEF TombstoneExpires, Types, Registered, Policed, NoneBefore, Admitted
  <2>4. QED
    BY <2>1, <2>2, <2>3
<1>3. QED
  BY <1>1, <1>2

\* A metadata listing touches no job and no policy.
LEMMA ListOK ==
    ASSUME Rest, NEW l \in Listing, List(l)
    PROVE  Rest'
<1> USE VersionsAreNumbers DEF Rest, jobVars, dataVars, history, Goto
<1>1. CASE CacheGet(l)
  <2>1. Types'
    <3>1. Stored' = Stored
      BY <1>1 DEF CacheGet, Types, Stored
    <3>2. seen' \in [Process -> [policy : Version \cup {None}, data : Version \cup {None}]]
      BY <1>1 DEF CacheGet, Types
    <3>3. QED
      BY <1>1, <3>1, <3>2 DEF CacheGet, Types, PCs
  <2>2. Registered' /\ Accepting'
    BY <1>1, <2>1 DEF CacheGet, Types, Registered, Accepting
  <2>3. Policed'
    BY <1>1, <2>1 DEF CacheGet, Types, Registered, Policed, NoneBefore, Admitted
  <2>4. QED
    BY <2>1, <2>2, <2>3
<1>2. CASE ListMetadata(l)
  <2>1. Types'
    <3>1. Stored' = Stored
      BY <1>2 DEF ListMetadata, Lookup, Types, Stored
    <3>2. seen' \in [Process -> [policy : Version \cup {None}, data : Version \cup {None}]]
      BY <1>2 DEF ListMetadata, Lookup, Types
    <3>3. QED
      BY <1>2, <3>1, <3>2 DEF ListMetadata, Lookup, Types, PCs
  <2>2. Registered' /\ Accepting'
    BY <1>2, <2>1 DEF ListMetadata, Types, Registered, Accepting
  <2>3. Policed'
    BY <1>2, <2>1 DEF ListMetadata, Types, Registered, Policed, NoneBefore, Admitted
  <2>4. QED
    BY <2>1, <2>2, <2>3
<1>3. CASE CacheSet(l)
  <2>1. Types'
    BY <1>3 DEF CacheSet, Types, Stored, PCs
  <2>2. Registered' /\ Accepting'
    BY <1>3, <2>1 DEF CacheSet, Types, Registered, Accepting
  <2>3. Policed'
    BY <1>3, <2>1 DEF CacheSet, Types, Registered, Policed, NoneBefore, Admitted
  <2>4. QED
    BY <2>1, <2>2, <2>3
<1>4. QED
  BY <1>1, <1>2, <1>3 DEF List

\* UpdateConnection: the profile is stored before the jobs are cancelled.
LEMMA UpdateConnectionOK ==
    ASSUME Rest, NEW u \in Update, UpdateConnection(u)
    PROVE  Rest'
<1> USE VersionsAreNumbers DEF Rest, jobVars, dataVars, history, Goto
<1>1. CASE UpdateProfile(u)
  <2>1. Types'
    <3>1. Stored' = Stored \cup {u} /\ u \notin Stored /\ Stored \subseteq Update
      BY <1>1 DEF UpdateProfile, Types, Stored
    <3>2. profile + 1 = Cardinality(Stored') /\ profile + 1 \in Version
      BY <3>1, NextVersion DEF Types
    <3>3. seen' \in [Process -> [policy : Version \cup {None}, data : Version \cup {None}]]
      BY <1>1, <3>2 DEF UpdateProfile, Types
    <3>4. QED
      BY <1>1, <3>2, <3>3 DEF UpdateProfile, Types, PCs
  <2>2. Registered' /\ Accepting'
    BY <1>1, <2>1 DEF UpdateProfile, Types, Registered, Accepting
  <2>3. Policed'
    BY <1>1, <2>1 DEF UpdateProfile, Types, Registered, Policed, NoneBefore, Admitted
  <2>4. QED
    BY <2>1, <2>2, <2>3
<1>2. CASE CancelConnection(u)
  <2>1. Types'
    BY <1>2 DEF CancelConnection, Types, Stored, PCs
  <2>2. Registered' /\ Accepting'
    BY <1>2, <2>1 DEF CancelConnection, Types, Registered, Accepting
  <2>3. Policed'
    BY <1>2, <2>1 DEF CancelConnection, Types, Registered, Policed, NoneBefore, Admitted
  <2>4. QED
    BY <2>1, <2>2, <2>3
<1>3. CASE ClearConnection(u)
  <2>1. Types'
    BY <1>3 DEF ClearConnection, Types, Stored, PCs
  <2>2. Registered' /\ Accepting'
    BY <1>3, <2>1 DEF ClearConnection, Types, Registered, Accepting
  <2>3. Policed'
    BY <1>3, <2>1 DEF ClearConnection, Types, Registered, Policed, NoneBefore, Admitted
  <2>4. QED
    BY <2>1, <2>2, <2>3
<1>4. CASE Invalidate(u)
  <2>1. Types'
    <3>1. Stored' = Stored
      BY <1>4 DEF Invalidate, Types, Stored
    <3>2. settled' \in Version
      BY <1>4 DEF Invalidate, Types, Policed
    <3>3. QED
      BY <1>4, <3>1, <3>2 DEF Invalidate, Types, PCs
  <2>2. Registered' /\ Accepting'
    BY <1>4, <2>1 DEF Invalidate, Types, Registered, Accepting
  <2>3. Policed'
    BY <1>4, <2>1 DEF Invalidate, Types, Registered, Policed, NoneBefore, Admitted
  <2>4. QED
    BY <2>1, <2>2, <2>3
<1>5. QED
  BY <1>1, <1>2, <1>3, <1>4 DEF UpdateConnection

\* CancelQuery, the cache's expiry and close.
LEMMA OthersOK ==
    ASSUME Rest, CancelQuery \/ CacheExpires \/ Close \/ CloseReturns
    PROVE  Rest'
<1> USE VersionsAreNumbers DEF Rest, jobVars, dataVars, history, Goto
<1>1. CASE CancelQuery
  <2>1. Types'
    <3>1. Stored' = Stored
      BY <1>1 DEF CancelQuery, CancelEffect, Types, Stored
    <3>2. seen' \in [Process -> [policy : Version \cup {None}, data : Version \cup {None}]]
      BY <1>1 DEF CancelQuery, CancelEffect, Types
    <3>3. QED
      BY <1>1, <3>1, <3>2 DEF CancelQuery, CancelEffect, Types, PCs
  <2>2. Registered' /\ Accepting'
    BY <1>1, <2>1 DEF CancelQuery, CancelEffect, Types, Registered, Accepting
  <2>3. Policed'
    BY <1>1, <2>1 DEF CancelQuery, CancelEffect, Types, Registered, Policed,
                        NoneBefore, Admitted
  <2>4. QED
    BY <2>1, <2>2, <2>3
<1>2. CASE CacheExpires
  <2>1. Types'
    BY <1>2 DEF CacheExpires, Types, Stored, PCs
  <2>2. Registered' /\ Accepting'
    BY <1>2, <2>1 DEF CacheExpires, Types, Registered, Accepting
  <2>3. Policed'
    BY <1>2, <2>1 DEF CacheExpires, Types, Registered, Policed, NoneBefore, Admitted
  <2>4. QED
    BY <2>1, <2>2, <2>3
<1>3. CASE Close
  <2>1. Types'
    BY <1>3 DEF Close, Types, Stored, PCs
  <2>2. Registered' /\ Accepting'
    BY <1>3, <2>1 DEF Close, Types, Registered, Accepting
  <2>3. Policed'
    BY <1>3, <2>1 DEF Close, Types, Registered, Policed, NoneBefore, Admitted
  <2>4. QED
    BY <2>1, <2>2, <2>3
<1>4. CASE CloseReturns
  <2>1. Types'
    BY <1>4 DEF CloseReturns, Types, Stored, PCs
  <2>2. Registered' /\ Accepting'
    BY <1>4, <2>1 DEF CloseReturns, InFlight, Types, Registered, Accepting
  <2>3. Policed'
    BY <1>4, <2>1 DEF CloseReturns, Types, Registered, Policed, NoneBefore, Admitted
  <2>4. QED
    BY <2>1, <2>2, <2>3
<1>5. QED
  BY <1>1, <1>2, <1>3, <1>4

\* Every action of the service and of the frontend keeps the invariant.
LEMMA StepInv ==
    ASSUME IInv, [Next]_vars
    PROVE  IInv'
<1>1. Bounds'
  BY BoundsOK DEF IInv
<1>2. CASE UNCHANGED vars
  BY <1>1, <1>2
  DEF vars, jobVars, dataVars, history, IInv, Types, Stored, Registered, Accepting, Policed,
      NoneBefore, Admitted
<1>3. CASE Next
  <2>1. Rest
    BY DEF IInv, Rest
  <2>2. CASE AllReturned
    BY <1>2, <2>2 DEF AllReturned
  <2>3. CASE ~AllReturned
    <3>1. Rest'
      BY <1>3, <2>1, <2>3, RunQueryOK, CancellingOK, ListOK, UpdateConnectionOK, OthersOK
      DEF Next
    <3>2. QED
      BY <1>1, <3>1 DEF Rest, IInv
  <2>4. QED
    BY <2>2, <2>3
<1>4. QED
  BY <1>2, <1>3

-----------------------------------------------------------------------------
(* The theorems.                                                            *)

\* The registry, the accepted cancellations and the policies of the admitted queries
\* agree in every behaviour.
THEOREM Invariance == Spec => []IInv
  BY InitInv, StepInv, PTL DEF Spec

\* The state is of its type, and both registries are within their limits.
THEOREM TypeCorrect == Spec => []TypeOK
<1>1. IInv => TypeOK
  BY DEF IInv, Types, Bounds, TypeOK
<1>2. QED
  BY <1>1, Invariance, PTL

\* A cancellation that was accepted stops its query, even when it overtakes the call.
THEOREM Stopped == Spec => []CancelledIsStopped
<1>1. IInv => CancelledIsStopped
  BY DEF IInv, Accepting, CancelledIsStopped, Executing
<1>2. QED
  BY <1>1, Invariance, PTL

\* Once an update has returned, no uncancelled statement runs under an older policy.
THEOREM Respected == Spec => []PolicyIsRespected
<1>1. IInv => PolicyIsRespected
  BY DEF IInv, Policed, NoneBefore, Admitted, PolicyIsRespected, Executing
<1>2. QED
  BY <1>1, Invariance, PTL

\* The connection's slot always names a running query.
THEOREM SlotTrue == Spec => []SlotIsRunning
<1>1. IInv => SlotIsRunning
  BY DEF IInv, Types, Registered, SlotIsRunning
<1>2. QED
  BY <1>1, Invariance, PTL

\* When close has returned there is no job, and none is registered.
THEOREM Closed == Spec => []NoJobAfterClose
<1>1. IInv => NoJobAfterClose
  BY DEF IInv, Types, Registered, NoJobAfterClose, InFlight
<1>2. QED
  BY <1>1, Invariance, PTL

-----------------------------------------------------------------------------
(* How a close comes to its end.                                            *)

\* How many steps a query is from its end.
Left(q) ==
    CASE pc[q] = "policy"     -> 6
      [] pc[q] = "lookup"     -> 5
      [] pc[q] = "register"   -> 4
      [] pc[q] = "running"    -> 3
      [] pc[q] = "deregister" -> 2
      [] pc[q] = "finish"     -> 1
      [] OTHER                -> 0

\* Once close has begun every call that holds a job has been told to stop.
NothingHoldsUpClose == closing # "no" => InFlight \subseteq cancelled

\* No call joins those that close waits for, and each of their steps is one towards its end.
ClosingDrains ==
    closing # "no" =>
        /\ InFlight' \subseteq InFlight
        /\ \A q \in InFlight : pc'[q] # pc[q] => Left(q)' < Left(q)

\* What a step does for the calls under way.
LEMMA DrainStep ==
    ASSUME IInv, NothingHoldsUpClose, [Next]_vars
    PROVE  NothingHoldsUpClose' /\ ClosingDrains
<1>1. Types /\ Registered /\ pc \in [Process -> PCs]
  BY DEF IInv, Types
<1>2. ASSUME UNCHANGED pc, cancelled \subseteq cancelled', closing' # "no" => closing # "no"
      PROVE  NothingHoldsUpClose' /\ ClosingDrains
  BY <1>2 DEF NothingHoldsUpClose, ClosingDrains, InFlight
<1>3. ASSUME NEW q \in Query, RunQuery(q) PROVE NothingHoldsUpClose' /\ ClosingDrains
  <2>1. /\ \A p \in Query : p # q => pc'[p] = pc[p]
        /\ closing' = closing /\ cancelled \subseteq cancelled'
        /\ pc'[q] \in {"idle", "done"} \/ (pc[q] = "idle" /\ closing = "no")
           \/ (pc[q] \notin {"idle", "done"})
    BY <1>1, <1>3 DEF RunQuery, Begin, BeginRefused, BeginCancelled, ReadPolicy, GetProvider,
           Register, StatementReturns, Deregister, Finish, Goto, jobVars
  <2>2. q \in InFlight => Left(q)' < Left(q)
    BY <1>1, <1>3 DEF InFlight, Left, RunQuery, Begin, BeginRefused, BeginCancelled, ReadPolicy,
           GetProvider, Register, StatementReturns, Deregister, Finish, Goto
  <2>3. QED
    BY <2>1, <2>2 DEF NothingHoldsUpClose, ClosingDrains, InFlight
<1>4. ASSUME NEW q \in Query, CancelRequest(q) \/ TombstoneExpires(q)
      PROVE  NothingHoldsUpClose' /\ ClosingDrains
  BY <1>2, <1>4 DEF CancelRequest, TombstoneExpires, CancelEffect
<1>5. ASSUME NEW p \in Listing \cup Update, List(p) \/ UpdateConnection(p)
      PROVE  NothingHoldsUpClose' /\ ClosingDrains
  <2>1. closing' = closing /\ cancelled \subseteq cancelled'
    BY <1>5 DEF List, CacheGet, ListMetadata, CacheSet, UpdateConnection, UpdateProfile,
           CancelConnection, ClearConnection, Invalidate, jobVars
  <2>2. \E w : pc' = [pc EXCEPT ![p] = w]
    <3>1. CASE List(p)
      BY <3>1 DEF List, CacheGet, ListMetadata, CacheSet, Goto
    <3>2. CASE UpdateConnection(p)
      BY <3>2 DEF UpdateConnection, UpdateProfile, CancelConnection, ClearConnection,
             Invalidate, Goto
    <3>3. QED
      BY <1>5, <3>1, <3>2
  <2>3. p \notin Query
    OBVIOUS
  <2>4. \A q \in Query : pc'[q] = pc[q]
    BY <1>1, <2>2, <2>3
  <2>5. QED
    BY <2>1, <2>4 DEF NothingHoldsUpClose, ClosingDrains, InFlight
<1>6. CASE Close
  BY <1>1, <1>6 DEF Close, Registered, NothingHoldsUpClose, ClosingDrains, InFlight
<1>7. CASE CloseReturns \/ CacheExpires \/ AllReturned \/ UNCHANGED vars
  BY <1>2, <1>7 DEF CloseReturns, CacheExpires, AllReturned, vars, jobVars
<1>8. CASE Next
  <2>1. CASE \E q \in Query : RunQuery(q) \/ CancelRequest(q) \/ TombstoneExpires(q)
    BY <1>3, <1>4, <2>1
  <2>2. CASE \E p \in Listing \cup Update : List(p) \/ UpdateConnection(p)
    BY <1>5, <2>2
  <2>3. CASE CancelQuery
    BY <1>2, <2>3 DEF CancelQuery, CancelEffect
  <2>4. QED
    BY <1>6, <1>7, <1>8, <2>1, <2>2, <2>3 DEF Next
<1>9. QED
  BY <1>7, <1>8

\* What is safety in the promise that close returns: from its first step on, every call
\* it waits for is cancelled, none joins them, and each of their steps leads to the end.
THEOREM CloseDrains == Spec => []NothingHoldsUpClose /\ [][ClosingDrains]_vars
<1>1. Init => NothingHoldsUpClose
  BY DEF Init, NothingHoldsUpClose
<1>2. IInv /\ NothingHoldsUpClose /\ [Next]_vars => NothingHoldsUpClose' /\ ClosingDrains
  BY DrainStep
<1>3. QED
  BY <1>1, <1>2, Invariance, PTL DEF Spec
=============================================================================
