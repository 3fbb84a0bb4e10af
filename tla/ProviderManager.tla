--------------------------- MODULE ProviderManager ---------------------------
(***************************************************************************)
(* dbcore/manager.go: the Manager owns one provider entry per connection   *)
(* id.  Callers run Get, GetFor or GetWithGuard; administrators run        *)
(* Invalidate (after a profile update), InvalidateAndWait,                 *)
(* InvalidateAndWaitWhere and Close.  A step is one critical section of    *)
(* m.mu / e.mu, one receive from a channel, or one call of a callback      *)
(* outside the locks (loader, guard, factory, provider close).             *)
(*                                                                         *)
(* A configuration is abstracted to the version of the stored profile it   *)
(* was read from; FileOf gives the database file a version points at.      *)
(***************************************************************************)
EXTENDS Naturals, FiniteSets, Absent

CONSTANTS
    Caller,      \* goroutines inside Get, GetFor or GetWithGuard
    Admin,       \* goroutines inside Invalidate, InvalidateAndWait*, Close
    Cancellable, \* the callers whose context may end before they are served
    Conn,        \* connection ids
    Entry,       \* identities of *entry values; each is allocated once (bound)
    MaxVersion,  \* bound on the updates of one stored profile
    FileOf,      \* FileOf[k][v]: the file version v of profile k points at
    GetKinds,    \* GetKinds[c]: which of "get", "getFor" caller c may run
    AdminKinds   \* AdminKinds[p]: which of the AdminKind p may run

AdminKind == {"update", "await", "where", "close"}
Process == Caller \cup Admin
Version == 0 .. MaxVersion
Files   == UNION {{FileOf[k][v] : v \in Version} : k \in Conn}

ASSUME ProcessAssumption ==
    /\ Caller \cap Admin = {}
    /\ Cancellable \subseteq Caller
    /\ GetKinds \in [Caller -> SUBSET {"get", "getFor"}]
    /\ AdminKinds \in [Admin -> SUBSET AdminKind]

ASSUME CallerFinite == IsFiniteSet(Caller)

ASSUME DataAssumption ==
    /\ MaxVersion \in Nat
    /\ FileOf \in [Conn -> [Version -> Files]]
    /\ None \notin Conn \cup Entry \cup Process \cup Version \cup Files

VARIABLES
    ent,        \* [Entry -> EntryState]: the fields of each *entry
    entries,    \* m.entries
    pending,    \* the keys of m.pending: closes in flight
    retireErrs, \* m.retireErrs, each record named by the entry it is about
    closing,    \* m.closed and m.closeDone: "no", "begun", "finished"
    closeErr,   \* m.closeErr, the failures Close reports
    profile,    \* the store: current version of each stored profile
    pc, at,     \* control state of each goroutine and the entry it works on
    call        \* its arguments, result and local variables

vars == <<ent, entries, pending, retireErrs, closing, closeErr, profile, pc, at, call>>
managerVars == <<entries, pending, retireErrs, closing, closeErr>>

-----------------------------------------------------------------------------
(* Entries.  load: the loader goroutine and e.loaded; build: e.started,     *)
(* e.done, e.provider and e.err of the construction; life: e.retired,       *)
(* e.cancel and e.closeCh of the retirement; prov: the provider itself.     *)

LoadState  == {"unused", "loading", "loaded", "failed"}
BuildState == {"idle", "started", "calling", "built", "failed"}
LifeState  == {"live", "marked", "cancelled", "draining", "closing", "finished"}
ProvState  == {"none", "open", "closed", "closeFailed"}

EntryState ==
    [conn: Conn \cup {None}, cfg: Version \cup {None}, load: LoadState,
     build: BuildState, life: LifeState, prov: ProvState,
     waiters: Nat, waited: BOOLEAN]

Unused ==
    [conn |-> None, cfg |-> None, load |-> "unused", build |-> "idle",
     life |-> "live", prov |-> "none", waiters |-> 0, waited |-> FALSE]

Free(e)    == ent[e].load = "unused"
Loaded(e)  == ent[e].load \in {"loaded", "failed"}   \* e.loaded is closed
Started(e) == ent[e].build # "idle"
Retired(e) == ent[e].life # "live"
Built(e)   == ent[e].build \in {"built", "failed"}
Done(e)    == Built(e) \/ (Retired(e) /\ ~Started(e)) \* e.done is closed
Failing(e) == ent[e].prov = "closeFailed"

-----------------------------------------------------------------------------
(* Goroutines.  next is where the goroutine goes after leave or retire; the *)
(* cause of an error is left out, but for a construction that failed.       *)

PCs == {"start", "awaitConfig", "guard", "begin", "awaitDone", "leave", "read",
        "lookup", "retire", "cancel", "dispatch", "await", "sweep",
        "pendingSweep", "drain", "joinClose", "done"}
Results == {"none", "provider", "buildErr", "error"}

Call ==
    [kind: {"get", "getFor"} \cup AdminKind,
     conn: Conn, want: Version \cup {None}, file: Files \cup {None},
     floor: SUBSET Version, next: PCs, res: Results,
     todo: SUBSET Entry, errs: SUBSET Entry, seen: SUBSET Entry]

NewCall(kind, k, want, file) ==
    [kind |-> kind, conn |-> k, want |-> want, file |-> file, floor |-> {},
     next |-> "done", res |-> "none", todo |-> {}, errs |-> {}, seen |-> {}]

GetRequests(kinds) ==
    {NewCall(g, k, None, None) : g \in kinds \cap {"get"}, k \in Conn}
    \cup {NewCall(g, k, v, None) : g \in kinds \cap {"getFor"}, k \in Conn, v \in Version}

AdminRequests(kinds) ==
    {NewCall(a, k, None, None) : a \in kinds \ {"where"}, k \in Conn}
    \cup {NewCall(a, k, None, f) : a \in kinds \cap {"where"}, k \in Conn, f \in Files}

Goto(p, where) == pc' = [pc EXCEPT ![p] = where]

\* Drop the waiter and return an error, as every failing path of get does.
Fail(c) ==
    /\ Goto(c, "leave")
    /\ call' = [call EXCEPT ![c].next = "done", ![c].res = "error"]

Init ==
    /\ ent = [e \in Entry |-> Unused]
    /\ entries = [k \in Conn |-> None]
    /\ pending = {}
    /\ retireErrs = {}
    /\ closing = "no"
    /\ closeErr = {}
    /\ profile = [k \in Conn |-> 0]
    /\ pc = [p \in Process |-> "start"]
    /\ at = [p \in Process |-> None]
    /\ call \in [Process -> GetRequests({"get", "getFor"}) \cup AdminRequests(AdminKind)]
    /\ \A c \in Caller : call[c] \in GetRequests(GetKinds[c])
    /\ \A p \in Admin : call[p] \in AdminRequests(AdminKinds[p])

-----------------------------------------------------------------------------
(* get.  The versions that profile updates and their Invalidate have        *)
(* settled are the floor of every Get that starts later (history only).     *)

Settled(k) ==
    {call[p].want : p \in {q \in Admin : /\ call[q].kind = "update"
                                         /\ call[q].conn = k
                                         /\ pc[q] = "done"}} \ {None}
CanEnter(c) ==
    /\ pc[c] = "start"
    /\ call[c].want # None => call[c].want <= profile[call[c].conn]

GetClosed(c) ==
    /\ CanEnter(c)
    /\ closing # "no"
    /\ Goto(c, "done")
    /\ call' = [call EXCEPT ![c].res = "error"]
    /\ UNCHANGED <<ent, managerVars, profile, at>>

GetJoin(c) ==
    /\ CanEnter(c)
    /\ closing = "no"
    /\ LET e == entries[call[c].conn] IN
          /\ e # None
          /\ ent' = [ent EXCEPT ![e].waiters = @ + 1]
          /\ at' = [at EXCEPT ![c] = e]
    /\ Goto(c, "awaitConfig")
    /\ call' = [call EXCEPT ![c].floor = Settled(call[c].conn)]
    /\ UNCHANGED <<managerVars, profile>>

GetCreate(c) ==
    /\ CanEnter(c)
    /\ closing = "no"
    /\ entries[call[c].conn] = None
    /\ \E e \in Entry :
          /\ Free(e)
          /\ ent' = [ent EXCEPT ![e] =
                [Unused EXCEPT !.conn = call[c].conn, !.cfg = call[c].want,
                               !.load = IF call[c].want = None THEN "loading" ELSE "loaded",
                               !.waiters = 1]]
          /\ entries' = [entries EXCEPT ![call[c].conn] = e]
          /\ at' = [at EXCEPT ![c] = e]
    /\ Goto(c, "awaitConfig")
    /\ call' = [call EXCEPT ![c].floor = Settled(call[c].conn)]
    /\ UNCHANGED <<pending, retireErrs, closing, closeErr, profile>>

\* The caller's context ends while it waits, or is found ended after the guard.
ContextDone(c) ==
    /\ c \in Cancellable
    /\ pc[c] \in {"awaitConfig", "begin", "awaitDone"}
    /\ Fail(c)
    /\ UNCHANGED <<ent, managerVars, profile, at>>

\* Mutant: a GetFor reuses whatever entry it finds.
CheckEntryAnyConfig(c) ==
    /\ pc[c] = "awaitConfig"
    /\ \/ Retired(at[c]) /\ (Loaded(at[c]) \/ Done(at[c])) /\ Fail(c)
       \/ ~Retired(at[c]) /\ ent[at[c]].load = "failed" /\ Fail(c)
       \/ ~Retired(at[c]) /\ ent[at[c]].load = "loaded" /\ Goto(c, "guard") /\ UNCHANGED call
    /\ UNCHANGED <<ent, managerVars, profile, at>>

(***************************************************************************)
(* The wait for e.loaded or e.done, then the first e.mu section and         *)
(* acceptConfig on the copied config.  Both channels stay closed once they  *)
(* are, so the receive is one step with the section that follows it.        *)
(***************************************************************************)
CheckEntry(c) ==
    /\ pc[c] = "awaitConfig"
    /\ LET e == at[c] IN
       \/ /\ Retired(e)
          /\ Loaded(e) \/ Done(e)
          /\ Fail(c)
       \/ /\ ~Retired(e) /\ ent[e].load = "failed"
          /\ Fail(c)
       \/ /\ ~Retired(e) /\ ent[e].load = "loaded"
          /\ call[c].want # None /\ ent[e].cfg # call[c].want
          /\ Goto(c, "leave")
          /\ call' = [call EXCEPT ![c].next = "retire"]
       \/ /\ ~Retired(e) /\ ent[e].load = "loaded"
          /\ call[c].want # None => ent[e].cfg = call[c].want
          /\ Fail(c) \/ (Goto(c, "guard") /\ UNCHANGED call)
    /\ UNCHANGED <<ent, managerVars, profile, at>>

\* The guard callback returns, outside the locks, with a release or an error.
Guard(c) ==
    /\ pc[c] = "guard"
    /\ \/ Goto(c, "begin") /\ UNCHANGED call
       \/ Fail(c)
    /\ UNCHANGED <<ent, managerVars, profile, at>>

\* Mutant: the second section does not look at e.retired again.
StartUnchecked(c) ==
    /\ pc[c] = "begin"
    /\ ent' = IF Started(at[c]) THEN ent ELSE [ent EXCEPT ![at[c]].build = "started"]
    /\ Goto(c, "awaitDone")
    /\ UNCHANGED <<managerVars, profile, at, call>>

\* The second e.mu section: the first caller here starts the construction.
StartOrJoin(c) ==
    /\ pc[c] = "begin"
    /\ LET e == at[c] IN
       \/ /\ Retired(e)
          /\ Fail(c)
          /\ UNCHANGED ent
       \/ /\ ~Retired(e)
          /\ ent' = IF Started(e) THEN ent ELSE [ent EXCEPT ![e].build = "started"]
          /\ Goto(c, "awaitDone")
          /\ UNCHANGED call
    /\ UNCHANGED <<managerVars, profile, at>>

\* e.done is closed, so the leave that follows only drops the waiter.
AwaitDone(c) ==
    /\ pc[c] = "awaitDone"
    /\ Done(at[c])
    /\ ent' = [ent EXCEPT ![at[c]].waiters = @ - 1]
    /\ Goto(c, "read")
    /\ UNCHANGED <<managerVars, profile, at, call>>

\* Mutant: a provider is handed out though its entry was retired meanwhile.
ReadRetired(c) ==
    /\ pc[c] = "read"
    /\ LET e == at[c] IN
       \/ /\ ent[e].build = "failed"
          /\ Goto(c, "retire")
          /\ call' = [call EXCEPT ![c].res = "buildErr"]
       \/ /\ ent[e].build = "built"
          /\ Goto(c, "done")
          /\ call' = [call EXCEPT ![c].res = "provider"]
    /\ UNCHANGED <<ent, managerVars, profile, at>>

ReadResult(c) ==
    /\ pc[c] = "read"
    /\ LET e == at[c] IN
       \/ /\ Retired(e)
          /\ Goto(c, "done")
          /\ call' = [call EXCEPT ![c].res = "error"]
       \/ /\ ~Retired(e) /\ ent[e].build = "failed"
          /\ Goto(c, "retire")
          /\ call' = [call EXCEPT ![c].res = "buildErr"]
       \/ /\ ~Retired(e) /\ ent[e].build = "built"
          /\ Goto(c, "done")
          /\ call' = [call EXCEPT ![c].res = "provider"]
    /\ UNCHANGED <<ent, managerVars, profile, at>>

-----------------------------------------------------------------------------
(* Retirement.                                                              *)

\* Mutant: a construction that has not finished is not tracked.
MarkTracksBuiltOnly(e, rec, wait) ==
    /\ ent' = [ent EXCEPT ![e] = [rec EXCEPT !.life = "marked", !.waited = wait]]
    /\ pending' = IF Built(e) THEN pending \cup {e} ELSE pending
    /\ entries' = IF entries[rec.conn] = e THEN [entries EXCEPT ![rec.conn] = None]
                                           ELSE entries

\* markRetiredLocked, on the entry record that carries the caller's changes.
MarkRetired(e, rec, wait) ==
    /\ ent' = [ent EXCEPT ![e] = [rec EXCEPT !.life = "marked", !.waited = wait]]
    /\ pending' = IF Started(e) THEN pending \cup {e} ELSE pending
    /\ entries' = IF entries[rec.conn] = e THEN [entries EXCEPT ![rec.conn] = None]
                                           ELSE entries

\* Mutant: the last waiter leaves without retiring the work nobody waits for.
LeaveOnlyCounts(c) ==
    /\ pc[c] = "leave"
    /\ ent' = [ent EXCEPT ![at[c]].waiters = @ - 1]
    /\ Goto(c, call[c].next)
    /\ UNCHANGED <<managerVars, profile, at, call>>

\* leave: the last waiter of an unfinished entry retires it in the same section.
Leave(c) ==
    /\ pc[c] = "leave"
    /\ LET e   == at[c]
           rec == [ent[e] EXCEPT !.waiters = @ - 1]
       IN IF rec.waiters = 0 /\ ~Done(e) /\ ~Retired(e)
          THEN MarkRetired(e, rec, FALSE) /\ Goto(c, "cancel")
          ELSE /\ ent' = [ent EXCEPT ![e] = rec]
               /\ Goto(c, call[c].next)
               /\ UNCHANGED <<entries, pending>>
    /\ UNCHANGED <<retireErrs, closing, closeErr, profile, at, call>>

Waits(p) == call[p].kind \in {"await", "where", "close"}

AfterRetire(p) ==
    CASE p \in Caller -> IF call[p].res = "buildErr" THEN "done" ELSE "start"
      [] call[p].kind = "update" -> "done"
      [] call[p].kind = "await" -> "drain"
      [] OTHER -> "sweep"

\* retire: mark under m.mu and e.mu, or find the entry retired already.
Retire(p) ==
    /\ pc[p] = "retire"
    /\ LET e == at[p] IN
       IF ~Retired(e)
       THEN MarkRetired(e, ent[e], Waits(p)) /\ Goto(p, "cancel")
       ELSE /\ Goto(p, IF Waits(p) /\ Started(e) THEN "await" ELSE AfterRetire(p))
            /\ UNCHANGED <<ent, entries, pending>>
    /\ call' = [call EXCEPT ![p].next = AfterRetire(p)]
    /\ UNCHANGED <<retireErrs, closing, closeErr, profile, at>>

\* finishRetire: e.cancel(); nothing more to do for an unstarted entry.
Cancel(p) ==
    /\ pc[p] = "cancel"
    /\ ent' = [ent EXCEPT ![at[p]].life = "cancelled"]
    /\ Goto(p, IF Started(at[p]) THEN "dispatch" ELSE call[p].next)
    /\ UNCHANGED <<managerVars, profile, at, call>>

\* Mutant: no goroutine is left behind for a construction still running.
DispatchFinishedOnly(p) ==
    /\ pc[p] = "dispatch"
    /\ IF ent[at[p]].waited \/ Done(at[p])
       THEN ent' = [ent EXCEPT ![at[p]].life = "draining"] /\ Goto(p, "await")
       ELSE UNCHANGED ent /\ Goto(p, call[p].next)
    /\ UNCHANGED <<managerVars, profile, at, call>>

\* finishRetire: close here, or hand an unfinished construction to a goroutine.
Dispatch(p) ==
    /\ pc[p] = "dispatch"
    /\ ent' = [ent EXCEPT ![at[p]].life = "draining"]
    /\ Goto(p, IF ent[at[p]].waited \/ Done(at[p]) THEN "await" ELSE call[p].next)
    /\ UNCHANGED <<managerVars, profile, at, call>>

\* Receive from e.closeCh, or return from the close this goroutine ran itself.
Await(p) ==
    /\ pc[p] = "await"
    /\ ent[at[p]].life = "finished"
    /\ Goto(p, call[p].next)
    /\ call' = [call EXCEPT ![p].errs = IF Waits(p) /\ Failing(at[p]) THEN @ \cup {at[p]}
                                                                     ELSE @]
    /\ UNCHANGED <<ent, managerVars, profile, at>>

-----------------------------------------------------------------------------
(* Goroutines of the entry: loader, constructor and closer.                 *)

Load(e) ==
    /\ ent[e].load = "loading"
    /\ \/ ent' = [ent EXCEPT ![e].load = "loaded", ![e].cfg = profile[ent[e].conn]]
       \/ ent' = [ent EXCEPT ![e].load = "failed"]
    /\ UNCHANGED <<managerVars, profile, pc, at, call>>

\* Mutant: a construction found cancelled does not close e.done.
ConstructAbandoned(e) ==
    /\ ent[e].build = "started"
    /\ ent[e].life \in {"live", "marked"}
    /\ ent' = [ent EXCEPT ![e].build = "calling"]
    /\ UNCHANGED <<managerVars, profile, pc, at, call>>

\* A cancelled entry context never reaches the factory.
Construct(e) ==
    /\ ent[e].build = "started"
    /\ ent' = [ent EXCEPT ![e].build = IF ent[e].life \in {"live", "marked"} THEN "calling"
                                                                             ELSE "failed"]
    /\ UNCHANGED <<managerVars, profile, pc, at, call>>

FactoryReturns(e) ==
    /\ ent[e].build = "calling"
    /\ \/ ent' = [ent EXCEPT ![e].build = "built", ![e].prov = "open"]
       \/ ent' = [ent EXCEPT ![e].build = "failed"]
    /\ UNCHANGED <<managerVars, profile, pc, at, call>>

\* closeProvider, once done is closed.
CloseProvider(e) ==
    /\ ent[e].life = "draining"
    /\ Built(e)
    /\ \E r \in IF ent[e].prov = "open" THEN {"closed", "closeFailed"} ELSE {ent[e].prov} :
          ent' = [ent EXCEPT ![e].life = "closing", ![e].prov = r]
    /\ UNCHANGED <<managerVars, profile, pc, at, call>>

\* Mutant: the failure of a close nobody waits for is not recorded.
FinishForgetsError(e) ==
    /\ ent[e].life = "closing"
    /\ ent' = [ent EXCEPT ![e].life = "finished"]
    /\ pending' = pending \ {e}
    /\ UNCHANGED <<entries, retireErrs, closing, closeErr, profile, pc, at, call>>

\* finish: closeCh, pending and the record of an unawaited failure, under m.mu.
FinishClose(e) ==
    /\ ent[e].life = "closing"
    /\ ent' = [ent EXCEPT ![e].life = "finished"]
    /\ pending' = pending \ {e}
    /\ retireErrs' = IF ~ent[e].waited /\ Failing(e) THEN retireErrs \cup {e} ELSE retireErrs
    /\ UNCHANGED <<entries, closing, closeErr, profile, pc, at, call>>

-----------------------------------------------------------------------------
(* Administrators.                                                          *)

Matches(p, e) ==
    CASE call[p].kind = "close" -> TRUE
      [] call[p].kind = "await" -> ent[e].conn = call[p].conn
      [] OTHER -> /\ ent[e].load = "loaded"
                  /\ FileOf[ent[e].conn][ent[e].cfg] = call[p].file

MapEntries == {entries[k] : k \in Conn} \ {None}

\* Entries not yet closed when an operation starts (history only).
Unclosed == {e \in Entry : ~Free(e) /\ ent[e].life # "finished"}

\* The profile is stored, then the connection is invalidated.
UpdateProfile(p) ==
    /\ pc[p] = "start" /\ call[p].kind = "update"
    /\ profile[call[p].conn] < MaxVersion
    /\ profile' = [profile EXCEPT ![call[p].conn] = @ + 1]
    /\ call' = [call EXCEPT ![p].want = profile[call[p].conn] + 1]
    /\ Goto(p, "lookup")
    /\ UNCHANGED <<ent, managerVars, at>>

\* Mutant: an entry whose factory has not started is left alone.
InvalidateStartedOnly(p) ==
    /\ pc[p] = "lookup"
    /\ LET e == entries[call[p].conn] IN
       IF e # None /\ Started(e)
       THEN at' = [at EXCEPT ![p] = e] /\ Goto(p, "retire")
       ELSE Goto(p, "done") /\ UNCHANGED at
    /\ UNCHANGED <<ent, managerVars, profile, call>>

Invalidate(p) ==
    /\ pc[p] = "lookup"
    /\ LET e == entries[call[p].conn] IN
       IF e # None
       THEN at' = [at EXCEPT ![p] = e] /\ Goto(p, "retire")
       ELSE Goto(p, "done") /\ UNCHANGED at
    /\ UNCHANGED <<ent, managerVars, profile, call>>

PendingOf(k) == {e \in pending : ent[e].conn = k}

\* The mapped entry, else ONE pending entry of the connection.
InvalidateAndWait(p) ==
    /\ pc[p] = "start" /\ call[p].kind = "await"
    /\ LET e == entries[call[p].conn] IN
       \/ /\ e # None
          /\ at' = [at EXCEPT ![p] = e]
          /\ Goto(p, "retire")
       \/ /\ e = None
          /\ \E pe \in PendingOf(call[p].conn) : at' = [at EXCEPT ![p] = pe]
          /\ Goto(p, "await")
       \/ /\ e = None /\ PendingOf(call[p].conn) = {}
          /\ Goto(p, "drain")
          /\ UNCHANGED at
    /\ call' = [call EXCEPT ![p].next = "drain", ![p].seen = Unclosed]
    /\ UNCHANGED <<ent, managerVars, profile>>

InvalidateAndWaitWhere(p) ==
    /\ pc[p] = "start" /\ call[p].kind = "where"
    /\ call' = [call EXCEPT ![p].todo = MapEntries, ![p].seen = Unclosed]
    /\ Goto(p, "sweep")
    /\ UNCHANGED <<ent, managerVars, profile, at>>

Close(p) ==
    /\ pc[p] = "start" /\ call[p].kind = "close"
    /\ IF closing = "no"
       THEN /\ closing' = "begun"
            /\ call' = [call EXCEPT ![p].todo = MapEntries, ![p].seen = Unclosed]
            /\ Goto(p, "sweep")
       ELSE Goto(p, "joinClose") /\ UNCHANGED <<closing, call>>
    /\ UNCHANGED <<ent, entries, pending, retireErrs, closeErr, profile, at>>

\* A concurrent Close waits for the first and reports the same result.
JoinClose(p) ==
    /\ pc[p] = "joinClose"
    /\ closing = "finished"
    /\ call' = [call EXCEPT ![p].errs = closeErr]
    /\ Goto(p, "done")
    /\ UNCHANGED <<ent, managerVars, profile, at>>

\* One iteration of the loop over the snapshot of m.entries.
SweepEntry(p) ==
    /\ pc[p] = "sweep"
    /\ \E e \in call[p].todo :
          /\ call[p].kind = "where" => Loaded(e)
          /\ call' = [call EXCEPT ![p].todo = @ \ {e}]
          /\ IF Matches(p, e)
             THEN at' = [at EXCEPT ![p] = e] /\ Goto(p, "retire")
             ELSE UNCHANGED <<at, pc>>
    /\ UNCHANGED <<ent, managerVars, profile>>

\* Mutant: the closes already in flight are not looked at.
SweepMapOnly(p) ==
    /\ pc[p] = "sweep"
    /\ call[p].todo = {}
    /\ Goto(p, "drain")
    /\ UNCHANGED <<ent, managerVars, profile, at, call>>

\* The snapshot of m.pending that follows.
SweepPending(p) ==
    /\ pc[p] = "sweep"
    /\ call[p].todo = {}
    /\ call' = [call EXCEPT ![p].todo = pending]
    /\ Goto(p, "pendingSweep")
    /\ UNCHANGED <<ent, managerVars, profile, at>>

\* Every matching close of the snapshot has finished.
AwaitPending(p) ==
    /\ pc[p] = "pendingSweep"
    /\ LET mine == {e \in call[p].todo : Matches(p, e)} IN
          /\ \A e \in mine : ent[e].life = "finished"
          /\ call' = [call EXCEPT ![p].todo = {},
                         ![p].errs = IF call[p].kind = "where"
                                     THEN @ \cup {e \in mine : Failing(e)} ELSE @]
    /\ Goto(p, "drain")
    /\ UNCHANGED <<ent, managerVars, profile, at>>

\* InvalidateAndWait* take the recorded failures they match out of retireErrs.
Drain(p) ==
    /\ pc[p] = "drain" /\ call[p].kind # "close"
    /\ LET mine == {e \in retireErrs : Matches(p, e)} IN
          /\ call' = [call EXCEPT ![p].errs = @ \cup mine]
          /\ retireErrs' = retireErrs \ mine
    /\ Goto(p, "done")
    /\ UNCHANGED <<ent, entries, pending, closing, closeErr, profile, at>>

\* Close adds them to its own and publishes the result.
FinishManagerClose(p) ==
    /\ pc[p] = "drain" /\ call[p].kind = "close"
    /\ call' = [call EXCEPT ![p].errs = @ \cup retireErrs]
    /\ closeErr' = call[p].errs \cup retireErrs
    /\ closing' = "finished"
    /\ Goto(p, "done")
    /\ UNCHANGED <<ent, entries, pending, retireErrs, profile, at>>

-----------------------------------------------------------------------------
Get(c) ==
    \/ GetClosed(c) \/ GetJoin(c) \/ GetCreate(c)
    \/ CheckEntry(c) \/ Guard(c) \/ StartOrJoin(c)
    \/ AwaitDone(c) \/ Leave(c) \/ ReadResult(c)

Retirement(p) == Retire(p) \/ Cancel(p) \/ Dispatch(p) \/ Await(p)

Background(e) == Load(e) \/ Construct(e) \/ FactoryReturns(e) \/ CloseProvider(e) \/ FinishClose(e)

Administer(p) ==
    \/ UpdateProfile(p) \/ Invalidate(p) \/ InvalidateAndWait(p)
    \/ InvalidateAndWaitWhere(p) \/ Close(p) \/ JoinClose(p) \/ SweepEntry(p)
    \/ SweepPending(p) \/ AwaitPending(p) \/ Drain(p) \/ FinishManagerClose(p)

\* All goroutines have returned, or wait for an entry the bound does not give.
Halted ==
    /\ \A p \in Process : pc[p] \in {"start", "done"}
    /\ UNCHANGED vars

Next ==
    \/ \E c \in Caller : Get(c) \/ ContextDone(c)
    \/ \E p \in Process : Retirement(p)
    \/ \E p \in Admin : Administer(p)
    \/ \E e \in Entry : Background(e)
    \/ Halted

Spec == Init /\ [][Next]_vars

(***************************************************************************)
(* Scheduling.  The Go runtime runs every goroutine that can proceed; that  *)
(* loaders, factories and provider closes return is assumed of the drivers. *)
(* No context is assumed to end.                                            *)
(***************************************************************************)
Fairness ==
    /\ \A c \in Caller : WF_vars(Get(c))
    /\ \A p \in Process : WF_vars(Retirement(p))
    /\ \A p \in Admin : WF_vars(Administer(p))
    /\ \A e \in Entry : WF_vars(Background(e))

FairSpec == Spec /\ Fairness

-----------------------------------------------------------------------------
(* Correctness.                                                             *)

TypeOK ==
    /\ ent \in [Entry -> EntryState]
    /\ entries \in [Conn -> Entry \cup {None}]
    /\ pending \subseteq Entry
    /\ retireErrs \subseteq Entry
    /\ closing \in {"no", "begun", "finished"}
    /\ closeErr \subseteq Entry
    /\ profile \in [Conn -> Version]
    /\ pc \in [Process -> PCs]
    /\ at \in [Process -> Entry \cup {None}]
    /\ call \in [Process -> Call]

\* The map holds exactly the entries in use that nothing has retired; so there
\* is at most one per connection (entries, markRetiredLocked, get).
MapHoldsLiveEntries ==
    \A k \in Conn, e \in Entry :
        entries[k] = e <=> ~Free(e) /\ ent[e].conn = k /\ ~Retired(e)

\* m.pending holds exactly the retired entries whose factory may have run and
\* whose close has not been published.
PendingTracksCloses ==
    \A e \in Entry :
        e \in pending <=> Retired(e) /\ Started(e) /\ ent[e].life # "finished"

\* A provider that is open, or that a factory may still return, is found from
\* the map or from m.pending: nothing the manager built is ever lost.
NoOrphanProvider ==
    \A e \in Entry :
        ent[e].prov = "open" \/ ent[e].build \in {"started", "calling"} =>
            e \in MapEntries \cup pending

Inside == {"awaitConfig", "guard", "begin", "awaitDone", "leave"}

\* An entry that is neither finished nor retired has a caller waiting for it:
\* leave never lets the last one go without cancelling the work.
NoAbandonedWork ==
    \A e \in Entry : ~Free(e) /\ ~Done(e) /\ ~Retired(e) =>
        \E c \in Caller : at[c] = e /\ pc[c] \in Inside

\* The close of a retired entry is on its way: finished, begun, or in the hands of a
\* goroutine that is about to begin it.
CloseComes(e) ==
    /\ Retired(e) /\ Started(e)
    /\ ent[e].life \in {"marked", "cancelled"} =>
          \E q \in Process : at[q] = e /\ pc[q] \in {"cancel", "dispatch"}

\* Whoever waits in the manager waits for something at work: a caller for a loader or a
\* construction, an administrator for closes that come, a second Close for the first,
\* which is not itself in the queue behind it.
NobodyWaitsInVain ==
    /\ \A c \in Caller : pc[c] = "awaitDone" => Started(at[c])
    /\ \A p \in Process : pc[p] = "await" => CloseComes(at[p])
    /\ \A p \in Admin :
          /\ pc[p] = "pendingSweep" => \A e \in call[p].todo : CloseComes(e)
          /\ pc[p] = "joinClose" =>
                closing = "finished" \/ \E q \in Admin :
                    call[q].kind = "close" /\ pc[q] \notin {"start", "joinClose", "done"}

\* Work and those who wait for it meet: neither is left without the other.
WorkAndWaitersMeet == NoAbandonedWork /\ NobodyWaitsInVain

Served(c, kind) == call[c].kind = kind /\ pc[c] = "done" /\ call[c].res = "provider"

\* A Get that starts after an update of the profile was stored and its Invalidate
\* returned is served the stored profile or a newer one.  It holds where no GetFor
\* can put an older configuration into the map.
NoStaleProvider ==
    \A c \in Caller : Served(c, "get") => \A v \in call[c].floor : ent[at[c]].cfg >= v

\* A GetFor is served a provider built from the very configuration it supplied,
\* whatever entry it found in the map (its caller chose a file lock by it).
SuppliedConfig ==
    \A c \in Caller : Served(c, "getFor") => ent[at[c]].cfg = call[c].want

Closed(e) == Retired(e) /\ (Started(e) => ent[e].life = "finished")

\* When Close has returned no provider is open, none is being built or closed,
\* and no entry that could build one is left.
CloseIsFinal ==
    closing = "finished" => \A e \in Entry : Free(e) \/ Closed(e)

\* InvalidateAndWaitWhere returns when every entry on the file that existed when
\* it started is closed, whoever retired it.
WhereClosesAll ==
    \A p \in Admin : call[p].kind = "where" /\ pc[p] = "done" =>
        \A e \in call[p].seen : Matches(p, e) => Closed(e)

\* InvalidateAndWait promises the same of its connection: it "blocks until its
\* provider is fully closed, including when a racing non-waited retire already
\* removed it from the map" (manager.go, comment of InvalidateAndWait).
AwaitClosesAll ==
    \A p \in Admin : call[p].kind = "await" /\ pc[p] = "done" =>
        \A e \in call[p].seen : Matches(p, e) => Closed(e)

\* A provider that failed to close is reported: its record waits in retireErrs,
\* or an administrator has the error or is about to receive it.
CloseFailuresSurface ==
    \A e \in Entry : Failing(e) /\ ent[e].life = "finished" =>
        \/ e \in retireErrs
        \/ \E p \in Admin :
              \/ e \in call[p].errs
              \/ pc[p] = "await" /\ at[p] = e /\ Waits(p)

\* The manager as those who use its providers see it.
Stage(e) ==
    CASE Free(e) -> "absent"
      [] ~Free(e) /\ ~Retired(e) -> "current"
      [] ~Free(e) /\ Closed(e) -> "gone"
      [] OTHER -> "leaving"

Provision(e) ==
    CASE ent[e].prov = "open" -> "open"
      [] ent[e].prov \in {"closed", "closeFailed"} -> "closed"
      [] ent[e].prov = "none" /\ ent[e].build = "failed" -> "failed"
      [] OTHER -> "none"

Pool == [e \in Entry |-> [conn |-> ent[e].conn, stage |-> Stage(e), prov |-> Provision(e)]]

Wants == [c \in Caller |-> call[c].conn]
Given == [c \in Caller |-> IF pc[c] = "done" /\ call[c].res = "provider" THEN at[c] ELSE None]

PP == INSTANCE ProviderPool
     WITH Generation <- Entry, generation <- Pool, wants <- Wants, given <- Given,
          shutdown <- closing

\* Loads shared, constructions cancelled, closes in the background and sweeps amount to
\* one current generation per connection, each opened once, given while it is current,
\* closed after that, and none after shutdown.
ImplementsPool == PP!PoolSpec

\* A retired provider is closed in the end, and no call waits for ever: neither
\* a Get on an entry retired under it, nor an administrator on a close.
RetiredIsClosed == \A e \in Entry : (Retired(e) /\ Started(e)) ~> (ent[e].life = "finished")
EverybodyReturns == \A p \in Process : (pc[p] # "start") ~> (pc[p] = "done")

=============================================================================
