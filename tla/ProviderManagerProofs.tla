------------------------ MODULE ProviderManagerProofs ------------------------
(***************************************************************************)
(* Theorems about ProviderManager, for any callers, administrators,        *)
(* connections and entries: its types, that no provider is lost, that no   *)
(* unfinished entry is left without a caller, that Close is final, and     *)
(* what the manager promises those who call it.                            *)
(*                                                                         *)
(* The first inductive invariant adds what the code relies on silently:    *)
(* which entry a goroutine may touch in which place, that e.waiters counts *)
(* the callers inside get, and what the closing goroutine has left to do.  *)
(*                                                                         *)
(* The promises stand on it. A GetFor is served its own configuration, a   *)
(* Get is not served one that an update has replaced,                      *)
(* InvalidateAndWaitWhere returns to closed providers, and a failed close  *)
(* is reported. Loads says that a construction has a configuration and     *)
(* keeps it; the rest follows each promise from the step that gives it to  *)
(* the step that relies on it, across everything the others do in between. *)
(*                                                                         *)
(* Two results on the whole stand on these: nobody waits for work that no  *)
(* goroutine does, and the manager implements ProviderPool.                *)
(***************************************************************************)
EXTENDS ProviderManager, TLAPS, FiniteSetTheorems

Waiting(e) == {c \in Caller : at[c] = e /\ pc[c] \in Inside}

\* The places where a goroutine works on the entry at[p].
Working == Inside \cup {"read", "retire", "cancel", "dispatch", "await"}
Retiring == {"cancel", "dispatch"}

\* The fields of one entry fit together.
EntryFits(e) ==
    /\ Free(e) => ent[e] = Unused
    /\ ~Free(e) => ent[e].conn \in Conn
    /\ ~Started(e) => ent[e].life \in {"live", "marked", "cancelled"}
    /\ ent[e].life \in {"closing", "finished"} => Built(e) /\ ent[e].prov # "open"
    /\ ent[e].prov = "open" => ent[e].build = "built"

EntryInv == \A e \in Entry : EntryFits(e)

\* Goroutines refer to entries in use, return to where they may, and one goroutine
\* at most takes an entry through finishRetire.
ControlOK(p) ==
    /\ pc[p] \in Working => at[p] \in Entry /\ ~Free(at[p])
    /\ \A e \in call[p].todo : ~Free(e)
    /\ pc[p] = "leave" => call[p].next \in {"done", "retire"}
    /\ pc[p] \in {"cancel", "dispatch", "await"} =>
          call[p].next \in {"done", "retire", "start", "drain", "sweep"}
    /\ pc[p] = "cancel" => ent[at[p]].life = "marked"
    /\ pc[p] = "dispatch" => ent[at[p]].life = "cancelled" /\ Started(at[p])

ControlInv ==
    /\ \A p \in Process : ControlOK(p)
    /\ \A p, q \in Process :
          pc[p] \in Retiring /\ pc[q] \in Retiring /\ at[p] = at[q] => p = q

\* e.waiters counts the callers that have not left the entry.
WaitersInv == \A e \in Entry : ent[e].waiters = Cardinality(Waiting(e))

AllClosed == \A e \in Entry : Free(e) \/ Closed(e)

\* How far the goroutine that runs Close has got: it has yet to retire what the map
\* holds, then to see what m.pending held finish.
CloserOK(p) ==
    /\ pc[p] = "lookup" => call[p].kind = "update"
    /\ call[p].kind = "close" =>
          /\ pc[p] \in {"cancel", "dispatch", "await"} => call[p].next = "sweep"
          /\ pc[p] \in {"sweep", "retire", "cancel", "dispatch", "await", "pendingSweep", "drain"}
                => closing # "no"
          /\ pc[p] = "retire" => MapEntries \subseteq call[p].todo \cup {at[p]}
          /\ pc[p] \in {"sweep", "cancel", "dispatch", "await"} => MapEntries \subseteq call[p].todo
          /\ pc[p] = "pendingSweep" => MapEntries = {} /\ pending \subseteq call[p].todo
          /\ pc[p] = "drain" => AllClosed

CloserInv ==
    /\ closing = "finished" => AllClosed
    /\ \A p \in Admin : CloserOK(p)

IInv ==
    /\ TypeOK
    /\ EntryInv
    /\ ControlInv
    /\ MapHoldsLiveEntries
    /\ PendingTracksCloses
    /\ WaitersInv
    /\ NoAbandonedWork
    /\ CloserInv

-----------------------------------------------------------------------------
(* The initial states, and counting the waiters.                            *)

\* The invariant holds before anything has run.
LEMMA InitIInv == Init => IInv
  <1> SUFFICES ASSUME Init PROVE IInv
    OBVIOUS
  <1>1. \A e \in Entry : ent[e] = Unused /\ Free(e)
    BY DEF Init, Unused, Free
  <1>2. \A p \in Process : pc[p] = "start"
    BY DEF Init
  <1>3. TypeOK
    <2>1. call \in [Process -> Call]
      <3>1. \A kinds : GetRequests(kinds) \subseteq Call
        BY DEF GetRequests, NewCall, Call, PCs, Results
      <3>2. \A kinds : kinds \subseteq AdminKind => AdminRequests(kinds) \subseteq Call
        BY DEF AdminRequests, NewCall, Call, PCs, Results
      <3> QED
        BY <3>1, <3>2 DEF Init
    <2>2. Unused \in EntryState
      BY DEF Unused, EntryState, LoadState, BuildState, LifeState, ProvState
    <2> QED
      BY <2>1, <2>2, DataAssumption DEF Init, TypeOK, PCs, Version
  <1>4. EntryInv
    <2>1. \A e \in Entry : ent[e].life = "live" /\ ent[e].prov = "none"
      BY <1>1 DEF Unused
    <2> QED
      BY <1>1, <2>1 DEF EntryInv, EntryFits
  <1>5. ControlInv
    <2>1. \A p \in Process : call[p].todo = {}
      BY DEF Init, GetRequests, AdminRequests, NewCall
    <2> QED
      BY <1>2, <2>1 DEF ControlInv, ControlOK, Working, Inside, Retiring
  <1>6. MapHoldsLiveEntries
    BY <1>1, DataAssumption DEF Init, MapHoldsLiveEntries
  <1>7. PendingTracksCloses
    BY <1>1 DEF Init, PendingTracksCloses, Retired, Unused
  <1>8. WaitersInv
    <2>1. \A e \in Entry : Waiting(e) = {}
      BY <1>2 DEF Waiting, Inside, Process
    <2> QED
      BY <1>1, <2>1, FS_EmptySet DEF WaitersInv, Unused
  <1>9. NoAbandonedWork
    BY <1>1 DEF NoAbandonedWork
  <1>10. CloserInv
    BY <1>2 DEF Init, CloserInv, CloserOK, Process
  <1> QED
    BY <1>3, <1>4, <1>5, <1>6, <1>7, <1>8, <1>9, <1>10 DEF IInv

\* The count when one caller goes in or out.
LEMMA WaitingCount ==
  ASSUME NEW c \in Caller, NEW e \in Entry
  PROVE  /\ IsFiniteSet(Waiting(e)) /\ Cardinality(Waiting(e)) \in Nat
         /\ c \notin Waiting(e) => Cardinality(Waiting(e) \cup {c}) = Cardinality(Waiting(e)) + 1
         /\ c \in Waiting(e) => /\ Cardinality(Waiting(e) \ {c}) = Cardinality(Waiting(e)) - 1
                                /\ Cardinality(Waiting(e) \ {c}) \in Nat
  <1>1. Waiting(e) \subseteq Caller
    BY DEF Waiting
  <1>2. IsFiniteSet(Waiting(e))
    BY <1>1, CallerFinite, FS_Subset
  <1>3. IsFiniteSet(Waiting(e) \ {c})
    BY <1>2, FS_RemoveElement
  <1> QED
    BY <1>2, <1>3, FS_AddElement, FS_RemoveElement, FS_CardinalityType

-----------------------------------------------------------------------------
(* Types.                                                                   *)

\* What the types say of one entry and of one goroutine.
LEMMA EntryType ==
  ASSUME TypeOK, NEW e \in Entry
  PROVE  /\ ent[e] \in EntryState /\ ent[e].waiters \in Nat
         /\ ent[e].conn \in Conn \cup {None} /\ ent[e].cfg \in Version \cup {None}
         /\ ent[e].load \in LoadState /\ ent[e].build \in BuildState
         /\ ent[e].life \in LifeState /\ ent[e].prov \in ProvState
         /\ ent[e].waited \in BOOLEAN
  BY DEF TypeOK, EntryState

\* The updates of goroutines' records that the steps make keep the type.
LEMMA SetNext ==
  ASSUME NEW g \in [Process -> Call], NEW p \in Process, NEW n \in PCs
  PROVE  [g EXCEPT ![p].next = n] \in [Process -> Call]
  BY DEF Call

\* The same for a result.
LEMMA SetRes ==
  ASSUME NEW g \in [Process -> Call], NEW p \in Process, NEW x \in Results
  PROVE  [g EXCEPT ![p].res = x] \in [Process -> Call]
  BY DEF Call

\* The same for a way on and a result.
LEMMA SetNextRes ==
  ASSUME NEW g \in [Process -> Call], NEW p \in Process, NEW n \in PCs, NEW x \in Results
  PROVE  [g EXCEPT ![p].next = n, ![p].res = x] \in [Process -> Call]
  BY ZenonT(60) DEF Call

\* The same for the versions a caller may rely on.
LEMMA SetFloor ==
  ASSUME NEW g \in [Process -> Call], NEW p \in Process, NEW f \in SUBSET Version
  PROVE  [g EXCEPT ![p].floor = f] \in [Process -> Call]
  BY DEF Call

\* The same for the version an update stores.
LEMMA SetWant ==
  ASSUME NEW g \in [Process -> Call], NEW p \in Process, NEW w \in Version
  PROVE  [g EXCEPT ![p].want = w] \in [Process -> Call]
  BY DEF Call

\* The same for the failures a goroutine reports.
LEMMA SetErrs ==
  ASSUME NEW g \in [Process -> Call], NEW p \in Process, NEW t \in SUBSET Entry
  PROVE  [g EXCEPT ![p].errs = t] \in [Process -> Call]
  BY DEF Call

\* The same for the entries a sweep has left.
LEMMA SetTodo ==
  ASSUME NEW g \in [Process -> Call], NEW p \in Process, NEW t \in SUBSET Entry
  PROVE  [g EXCEPT ![p].todo = t] \in [Process -> Call]
  BY DEF Call

\* The same for a sweep and its failures.
LEMMA SetTodoErrs ==
  ASSUME NEW g \in [Process -> Call], NEW p \in Process,
         NEW t \in SUBSET Entry, NEW u \in SUBSET Entry
  PROVE  [g EXCEPT ![p].todo = t, ![p].errs = u] \in [Process -> Call]
  BY ZenonT(60) DEF Call

\* The same for a sweep that starts.
LEMMA SetTodoSeen ==
  ASSUME NEW g \in [Process -> Call], NEW p \in Process,
         NEW t \in SUBSET Entry, NEW u \in SUBSET Entry
  PROVE  [g EXCEPT ![p].todo = t, ![p].seen = u] \in [Process -> Call]
  BY ZenonT(60) DEF Call

\* The same for an InvalidateAndWait that starts.
LEMMA SetNextSeen ==
  ASSUME NEW g \in [Process -> Call], NEW p \in Process, NEW n \in PCs, NEW u \in SUBSET Entry
  PROVE  [g EXCEPT ![p].next = n, ![p].seen = u] \in [Process -> Call]
  BY ZenonT(60) DEF Call

\* What the types say of one goroutine.
LEMMA CallType ==
  ASSUME TypeOK, NEW p \in Process
  PROVE  /\ call \in [Process -> Call] /\ call[p].conn \in Conn
         /\ call[p].want \in Version \cup {None} /\ call[p].next \in PCs
         /\ call[p].todo \subseteq Entry /\ call[p].errs \subseteq Entry
         /\ Settled(call[p].conn) \subseteq Version
  BY DEF TypeOK, Call, Settled, Process

\* A caller inside get is counted, so the count it lowers is not zero.
LEMMA CountedCaller ==
  ASSUME IInv, NEW c \in Caller, pc[c] \in Inside
  PROVE  at[c] \in Entry /\ ~Free(at[c]) /\ ent[at[c]].waiters - 1 \in Nat
  <1>1. at[c] \in Entry /\ ~Free(at[c])
    BY DEF IInv, ControlInv, ControlOK, Working, Process
  <1>2. c \in Waiting(at[c])
    BY DEF Waiting
  <1> QED
    BY <1>1, <1>2, WaitingCount DEF IInv, WaitersInv

\* The steps of get keep the types.
LEMMA GetType ==
  ASSUME IInv, NEW c \in Caller, Get(c) \/ ContextDone(c)
  PROVE  TypeOK'
  <1> USE DEF Goto, PCs, Results
  <1>1. TypeOK /\ c \in Process
    BY DEF IInv, Process
  <1>2. pc[c] \in Inside => at[c] \in Entry /\ ent[at[c]].waiters - 1 \in Nat
    BY CountedCaller
  <1>3. pc[c] \in Working => at[c] \in Entry
    BY <1>1 DEF IInv, ControlInv, ControlOK
  <1>4. CASE GetClosed(c)
    <2>1. call' \in [Process -> Call]
      BY <1>1, <1>4, CallType, SetRes DEF GetClosed
    <2> QED
      BY <1>1, <1>4, <2>1 DEF TypeOK, GetClosed, managerVars
  <1>5. CASE GetJoin(c)
    <2>1. call[c].conn \in Conn /\ entries[call[c].conn] \in Entry
      BY <1>1, <1>5, CallType DEF TypeOK, GetJoin
    <2> DEFINE e == entries[call[c].conn]
    <2>2. ent' = [ent EXCEPT ![e].waiters = @ + 1] /\ at' = [at EXCEPT ![c] = e]
      BY <1>5 DEF GetJoin
    <2>3. ent' \in [Entry -> EntryState]
      BY <1>1, <2>1, <2>2, EntryType DEF TypeOK, EntryState
    <2>4. call' \in [Process -> Call]
      BY <1>1, <1>5, CallType, SetFloor DEF GetJoin
    <2> QED
      BY <1>1, <1>5, <2>1, <2>2, <2>3, <2>4 DEF TypeOK, GetJoin, managerVars
  <1>6. CASE GetCreate(c)
    <2>1. call[c].conn \in Conn /\ call[c].want \in Version \cup {None}
      BY <1>1, CallType
    <2>2. PICK e \in Entry :
            /\ ent' = [ent EXCEPT ![e] =
                  [Unused EXCEPT !.conn = call[c].conn, !.cfg = call[c].want,
                                 !.load = IF call[c].want = None THEN "loading" ELSE "loaded",
                                 !.waiters = 1]]
            /\ entries' = [entries EXCEPT ![call[c].conn] = e]
            /\ at' = [at EXCEPT ![c] = e]
      BY <1>6 DEF GetCreate
    <2>3. ent' \in [Entry -> EntryState]
      BY <1>1, <2>1, <2>2 DEF TypeOK, EntryState, Unused, LoadState, BuildState, LifeState,
            ProvState
    <2>4. call' \in [Process -> Call]
      BY <1>1, <1>6, CallType, SetFloor DEF GetCreate
    <2> QED
      BY <1>1, <1>6, <2>1, <2>2, <2>3, <2>4 DEF TypeOK, GetCreate
  <1>7. CASE CheckEntry(c)
    <2>1. call' \in [Process -> Call]
      <3>1. CASE call' = call
        BY <1>1, <3>1, CallType, SMTT(30)
      <3>2. CASE call' = [call EXCEPT ![c].next = "done", ![c].res = "error"]
        BY <1>1, <3>2, CallType, SetNextRes, ZenonT(60)
      <3>3. CASE call' = [call EXCEPT ![c].next = "retire"]
        BY <1>1, <3>3, CallType, SetNext
      <3> QED
        BY <1>7, <3>1, <3>2, <3>3 DEF CheckEntry, Fail
    <2>2. pc' \in [Process -> PCs]
      BY <1>1, <1>7 DEF TypeOK, CheckEntry, Fail
    <2> QED
      BY <1>1, <1>7, <2>1, <2>2 DEF TypeOK, CheckEntry, managerVars
  <1>8. CASE Guard(c)
    <2>1. call' \in [Process -> Call]
      <3>1. CASE call' = call
        BY <1>1, <3>1, CallType
      <3>2. CASE call' = [call EXCEPT ![c].next = "done", ![c].res = "error"]
        BY <1>1, <3>2, CallType, SetNextRes
      <3> QED
        BY <1>8, <3>1, <3>2 DEF Guard, Fail
    <2> QED
      BY <1>1, <1>8, <2>1 DEF TypeOK, Guard, Fail, managerVars
  <1>9. CASE StartOrJoin(c)
    <2>1. at[c] \in Entry
      BY <1>2, <1>9 DEF StartOrJoin, Inside
    <2>2. ent' \in [Entry -> EntryState]
      BY <1>1, <1>9, <2>1, EntryType DEF TypeOK, StartOrJoin, EntryState, BuildState
    <2>3. call' \in [Process -> Call]
      <3>1. CASE call' = call
        BY <1>1, <3>1, CallType
      <3>2. CASE call' = [call EXCEPT ![c].next = "done", ![c].res = "error"]
        BY <1>1, <3>2, CallType, SetNextRes
      <3> QED
        BY <1>9, <3>1, <3>2 DEF StartOrJoin, Fail
    <2>4. pc' \in [Process -> PCs]
      BY <1>1, <1>9 DEF TypeOK, StartOrJoin, Fail
    <2> QED
      BY <1>1, <1>9, <2>2, <2>3, <2>4 DEF TypeOK, StartOrJoin, managerVars
  <1>10. CASE AwaitDone(c)
    <2>1. at[c] \in Entry /\ ent[at[c]].waiters - 1 \in Nat
      BY <1>2, <1>10 DEF AwaitDone, Inside
    <2>2. ent' \in [Entry -> EntryState]
      BY <1>1, <1>10, <2>1, EntryType DEF TypeOK, AwaitDone, EntryState
    <2> QED
      BY <1>1, <1>10, <2>2 DEF TypeOK, AwaitDone, managerVars
  <1>11. CASE Leave(c)
    <2> DEFINE e == at[c]
               rec == [ent[e] EXCEPT !.waiters = @ - 1]
    <2>1. e \in Entry /\ ent[e].waiters - 1 \in Nat
      BY <1>2, <1>11 DEF Leave, Inside
    <2>2. rec \in EntryState /\ [rec EXCEPT !.life = "marked", !.waited = FALSE] \in EntryState
      BY <1>1, <2>1, EntryType DEF EntryState, LifeState
    <2>3. ent' \in [Entry -> EntryState]
      BY <1>1, <1>11, <2>1, <2>2 DEF TypeOK, Leave, MarkRetired
    <2>4. call[c].next \in PCs
      BY <1>1, CallType
    <2>5. entries' \in [Conn -> Entry \cup {None}] /\ pending' \subseteq Entry
      BY <1>1, <1>11, <2>1 DEF TypeOK, Leave, MarkRetired
    <2> QED
      BY <1>1, <1>11, <2>3, <2>4, <2>5 DEF TypeOK, Leave
  <1>12. CASE ReadResult(c)
    <2>1. call' \in [Process -> Call]
      <3>1. CASE call' = [call EXCEPT ![c].res = "error"]
        BY <1>1, <3>1, CallType, SetRes
      <3>2. CASE call' = [call EXCEPT ![c].res = "buildErr"]
        BY <1>1, <3>2, CallType, SetRes
      <3>3. CASE call' = [call EXCEPT ![c].res = "provider"]
        BY <1>1, <3>3, CallType, SetRes
      <3> QED
        BY <1>12, <3>1, <3>2, <3>3 DEF ReadResult
    <2>2. pc' \in [Process -> PCs]
      BY <1>1, <1>12 DEF TypeOK, ReadResult
    <2> QED
      BY <1>1, <1>12, <2>1, <2>2 DEF TypeOK, ReadResult, managerVars
  <1>13. CASE ContextDone(c)
    <2>1. call' \in [Process -> Call]
      BY <1>1, <1>13, CallType, SetNextRes DEF ContextDone, Fail
    <2> QED
      BY <1>1, <1>13, <2>1 DEF TypeOK, ContextDone, Fail, managerVars
  <1> QED
    BY <1>4, <1>5, <1>6, <1>7, <1>8, <1>9, <1>10, <1>11, <1>12, <1>13 DEF Get

\* The steps of retire keep the types.
LEMMA RetirementType ==
  ASSUME IInv, NEW p \in Process, Retirement(p)
  PROVE  TypeOK'
  <1> USE DEF Goto, PCs
  <1>1. TypeOK
    BY DEF IInv
  <1> DEFINE e == at[p]
  <1>2. e \in Entry
    BY DEF IInv, ControlInv, ControlOK, Working, Retirement, Retire, Cancel, Dispatch, Await
  <1>3. CASE Retire(p)
    <2>1. Waits(p) \in BOOLEAN
      BY DEF Waits
    <2>2. [ent[e] EXCEPT !.life = "marked", !.waited = Waits(p)] \in EntryState
      BY <1>1, <1>2, <2>1, EntryType DEF EntryState, LifeState
    <2>3. ent' \in [Entry -> EntryState]
      BY <1>1, <1>2, <1>3, <2>2 DEF TypeOK, Retire, MarkRetired
    <2>4. entries' \in [Conn -> Entry \cup {None}] /\ pending' \subseteq Entry
      BY <1>1, <1>2, <1>3 DEF TypeOK, Retire, MarkRetired
    <2>5. AfterRetire(p) \in PCs
      BY DEF AfterRetire
    <2>6. call' \in [Process -> Call]
      BY <1>1, <1>3, <2>5, CallType, SetNext DEF Retire
    <2>7. pc' \in [Process -> PCs]
      BY <1>1, <1>3, <2>5 DEF TypeOK, Retire
    <2> QED
      BY <1>1, <1>3, <2>3, <2>4, <2>6, <2>7 DEF TypeOK, Retire
  <1>4. CASE Cancel(p)
    <2>1. [ent[e] EXCEPT !.life = "cancelled"] \in EntryState
      BY <1>1, <1>2, EntryType DEF EntryState, LifeState
    <2>2. call[p].next \in PCs
      BY <1>1, CallType
    <2> QED
      BY <1>1, <1>2, <1>4, <2>1, <2>2 DEF TypeOK, Cancel, managerVars
  <1>5. CASE Dispatch(p)
    <2>1. [ent[e] EXCEPT !.life = "draining"] \in EntryState
      BY <1>1, <1>2, EntryType DEF EntryState, LifeState
    <2>2. call[p].next \in PCs
      BY <1>1, CallType
    <2> QED
      BY <1>1, <1>2, <1>5, <2>1, <2>2 DEF TypeOK, Dispatch, managerVars
  <1>6. CASE Await(p)
    <2>1. /\ call[p].next \in PCs
          /\ (IF Waits(p) /\ Failing(at[p]) THEN call[p].errs \cup {at[p]} ELSE call[p].errs)
                \in SUBSET Entry
      BY <1>1, <1>2, CallType
    <2>2. call' \in [Process -> Call]
      BY <1>1, <1>6, <2>1, CallType, SetErrs DEF Await
    <2> QED
      BY <1>1, <1>6, <2>1, <2>2 DEF TypeOK, Await, managerVars
  <1> QED
    BY <1>3, <1>4, <1>5, <1>6 DEF Retirement

\* The steps of administrators keep the types.
LEMMA AdminType ==
  ASSUME IInv, NEW p \in Admin, Administer(p)
  PROVE  TypeOK'
  <1> USE DEF Goto, PCs
  <1>1. TypeOK /\ p \in Process
    BY DEF IInv, Process
  <1>2. MapEntries \subseteq Entry /\ Unclosed \subseteq Entry /\ pending \subseteq Entry
    BY <1>1 DEF TypeOK, MapEntries, Unclosed
  <1>3. CASE UpdateProfile(p)
    <2>1. profile[call[p].conn] + 1 \in Version /\ call[p].conn \in Conn
      BY <1>1, <1>3, CallType, DataAssumption DEF TypeOK, UpdateProfile, Version
    <2>2. call' \in [Process -> Call]
      BY <1>1, <1>3, <2>1, CallType, SetWant DEF UpdateProfile
    <2> QED
      BY <1>1, <1>3, <2>1, <2>2 DEF TypeOK, UpdateProfile, managerVars
  <1>4. CASE Invalidate(p)
    BY <1>1, <1>4, CallType DEF TypeOK, Invalidate, managerVars
  <1>5. CASE InvalidateAndWait(p)
    <2>1. call' = [call EXCEPT ![p].next = "drain", ![p].seen = Unclosed]
      BY <1>5 DEF InvalidateAndWait
    <2>2. call' \in [Process -> Call]
      BY <1>1, <1>2, <2>1, CallType, SetNextSeen
    <2>3. at' \in [Process -> Entry \cup {None}] /\ pc' \in [Process -> PCs]
      BY <1>1, <1>2, <1>5, CallType DEF TypeOK, InvalidateAndWait, PendingOf
    <2> QED
      BY <1>1, <1>5, <2>2, <2>3 DEF TypeOK, InvalidateAndWait, managerVars
  <1>6. CASE InvalidateAndWaitWhere(p)
    <2>1. call' \in [Process -> Call]
      BY <1>1, <1>2, <1>6, CallType, SetTodoSeen DEF InvalidateAndWaitWhere
    <2> QED
      BY <1>1, <1>6, <2>1 DEF TypeOK, InvalidateAndWaitWhere, managerVars
  <1>7. CASE Close(p)
    <2>1. CASE call' = call
      BY <1>1, <1>7, <2>1 DEF TypeOK, Close
    <2>2. CASE call' = [call EXCEPT ![p].todo = MapEntries, ![p].seen = Unclosed]
      <3>1. call' \in [Process -> Call]
        BY <1>1, <1>2, <2>2, CallType, SetTodoSeen
      <3> QED
        BY <1>1, <1>7, <3>1 DEF TypeOK, Close
    <2> QED
      BY <1>7, <2>1, <2>2 DEF Close
  <1>8. CASE JoinClose(p)
    <2>1. call' \in [Process -> Call]
      BY <1>1, <1>8, CallType, SetErrs DEF TypeOK, JoinClose
    <2> QED
      BY <1>1, <1>8, <2>1 DEF TypeOK, JoinClose, managerVars
  <1>9. CASE SweepEntry(p)
    <2>1. PICK e \in call[p].todo :
            /\ call' = [call EXCEPT ![p].todo = @ \ {e}]
            /\ IF Matches(p, e) THEN at' = [at EXCEPT ![p] = e] /\ pc' = [pc EXCEPT ![p] = "retire"]
                                ELSE UNCHANGED <<at, pc>>
      BY <1>9 DEF SweepEntry
    <2>2. e \in Entry /\ call[p].todo \ {e} \in SUBSET Entry
      BY <1>1, CallType
    <2>3. call' \in [Process -> Call]
      BY <1>1, <2>1, <2>2, CallType, SetTodo
    <2> QED
      BY <1>1, <1>9, <2>1, <2>2, <2>3 DEF TypeOK, SweepEntry, managerVars
  <1>10. CASE SweepPending(p)
    <2>1. call' \in [Process -> Call]
      BY <1>1, <1>2, <1>10, CallType, SetTodo DEF SweepPending
    <2> QED
      BY <1>1, <1>10, <2>1 DEF TypeOK, SweepPending, managerVars
  <1>11. CASE AwaitPending(p)
    <2> DEFINE mine == {e \in call[p].todo : Matches(p, e)}
               found == IF call[p].kind = "where" THEN call[p].errs \cup {e \in mine : Failing(e)}
                                                  ELSE call[p].errs
    <2>1. found \in SUBSET Entry /\ {} \in SUBSET Entry
      BY <1>1, CallType
    <2>2. call' = [call EXCEPT ![p].todo = {}, ![p].errs = found]
      BY <1>11 DEF AwaitPending
    <2>3. call' \in [Process -> Call]
      <3> HIDE DEF found
      <3> QED
        BY <1>1, <2>1, <2>2, CallType, SetTodoErrs
    <2> QED
      BY <1>1, <1>11, <2>3 DEF TypeOK, AwaitPending, managerVars
  <1>12. CASE Drain(p)
    <2> DEFINE mine == {e \in retireErrs : Matches(p, e)}
    <2>1. call[p].errs \cup mine \in SUBSET Entry
      BY <1>1, CallType DEF TypeOK
    <2>2. call' \in [Process -> Call]
      BY <1>1, <1>12, <2>1, CallType, SetErrs DEF Drain
    <2> QED
      BY <1>1, <1>12, <2>2 DEF TypeOK, Drain
  <1>13. CASE FinishManagerClose(p)
    <2>1. call[p].errs \cup retireErrs \in SUBSET Entry
      BY <1>1, CallType DEF TypeOK
    <2>2. call' \in [Process -> Call]
      BY <1>1, <1>13, <2>1, CallType, SetErrs DEF FinishManagerClose
    <2> QED
      BY <1>1, <1>13, <2>1, <2>2 DEF TypeOK, FinishManagerClose
  <1> QED
    BY <1>3, <1>4, <1>5, <1>6, <1>7, <1>8, <1>9, <1>10, <1>11, <1>12, <1>13 DEF Administer

\* The goroutines of an entry keep the types.
LEMMA BackgroundType ==
  ASSUME IInv, NEW e \in Entry, Background(e)
  PROVE  TypeOK'
  <1>1. TypeOK
    BY DEF IInv
  <1>2. ent' \in [Entry -> EntryState]
    <2>1. ent[e].conn \in Conn \/ Free(e)
      BY DEF IInv, EntryInv, EntryFits
    <2>2. CASE Load(e)
      BY <1>1, <2>1, <2>2, EntryType, SMTT(30) DEF TypeOK, Load, Free, EntryState, LoadState
    <2>3. CASE Construct(e)
      BY <1>1, <2>3, EntryType DEF TypeOK, Construct, EntryState, BuildState
    <2>4. CASE FactoryReturns(e)
      BY <1>1, <2>4, EntryType, SMTT(30) DEF TypeOK, FactoryReturns, EntryState, BuildState, ProvState
    <2>5. CASE CloseProvider(e)
      <3>1. PICK r \in ProvState : ent' = [ent EXCEPT ![e].life = "closing", ![e].prov = r]
        BY <1>1, <2>5, EntryType DEF CloseProvider, ProvState
      <3>2. [ent[e] EXCEPT !.life = "closing", !.prov = r] \in EntryState
        BY <1>1, EntryType DEF EntryState, LifeState
      <3> QED
        BY <1>1, <3>1, <3>2 DEF TypeOK
    <2>6. CASE FinishClose(e)
      BY <1>1, <2>6, EntryType DEF TypeOK, FinishClose, EntryState, LifeState
    <2> QED
      BY <2>2, <2>3, <2>4, <2>5, <2>6 DEF Background
  <1>3. pending' \subseteq pending /\ retireErrs' \subseteq retireErrs \cup {e}
    BY DEF Background, Load, Construct, FactoryReturns, CloseProvider, FinishClose, managerVars
  <1>4. UNCHANGED <<entries, closing, closeErr, profile, pc, at, call>>
    BY DEF Background, Load, Construct, FactoryReturns, CloseProvider, FinishClose, managerVars
  <1> QED
    BY <1>1, <1>2, <1>3, <1>4 DEF TypeOK

\* Every step keeps the types.
LEMMA TypeStep == ASSUME IInv, [Next]_vars PROVE TypeOK'
  <1>1. CASE UNCHANGED vars
    BY <1>1 DEF IInv, TypeOK, vars
  <1> QED
    BY <1>1, GetType, RetirementType, AdminType, BackgroundType DEF Next, Halted

-----------------------------------------------------------------------------
(* Entries.                                                                 *)

\* The steps that leave every entry alone.
QuietGet(c) == GetClosed(c) \/ CheckEntry(c) \/ Guard(c) \/ ReadResult(c) \/ ContextDone(c)

\* Refusals, checks of an entry, waits and all that administrators do between retirements
\* leave the entries alone.
LEMMA QuietSteps ==
  /\ \A c \in Caller : QuietGet(c) => ent' = ent
  /\ \A p \in Process : Await(p) => ent' = ent
  /\ \A p \in Admin : Administer(p) => ent' = ent
  /\ Halted => ent' = ent
  BY DEF QuietGet, GetClosed, CheckEntry, Guard, ReadResult, ContextDone, Await, Halted, vars,
         Administer, UpdateProfile, Invalidate, InvalidateAndWait, InvalidateAndWaitWhere, Close,
         JoinClose, SweepEntry, SweepPending, AwaitPending, Drain, FinishManagerClose

\* One entry over one step: what has been reached is not undone, and a retired entry
\* whose factory has not been started never starts it.
Advances(e) ==
    /\ ~Free(e) => ~Free(e)' /\ ent'[e].conn = ent[e].conn
    /\ Retired(e) => Retired(e)' /\ (Started(e)' => Started(e))
    /\ Started(e) => Started(e)'
    /\ Built(e) => Built(e)'
    /\ ent[e].life = "finished" => ent'[e].life = "finished"

\* Entry e is the only one that changes, and it keeps conn and stays in use.
Changes(e) ==
    /\ \A f \in Entry \ {e} : ent'[f] = ent[f]
    /\ ent'[e].conn = ent[e].conn
    /\ ~Free(e) /\ ~Free(e)'

\* A step that changes one entry as it may keeps what holds of all of them.
LEMMA OneEntry ==
  ASSUME EntryInv, NEW e \in Entry, Changes(e), EntryFits(e)', Advances(e)
  PROVE  EntryInv' /\ \A f \in Entry : Advances(f)
  <1>1. ASSUME NEW f \in Entry \ {e} PROVE EntryFits(f)' /\ Advances(f)
    BY <1>1 DEF Changes, EntryInv, EntryFits, Advances, Free, Started, Retired, Built
  <1> QED
    BY <1>1 DEF EntryInv

\* A step changes one entry, and goroutines touch only entries in use.
LEMMA EntryStep ==
  ASSUME IInv, [Next]_vars
  PROVE  EntryInv' /\ \A e \in Entry : Advances(e)
  <1>1. TypeOK /\ EntryInv /\ ControlInv
    BY DEF IInv
  <1>2. \A p \in Process : pc[p] \in Working => at[p] \in Entry /\ ~Free(at[p])
    BY <1>1 DEF ControlInv, ControlOK
  <1>3. CASE ent' = ent
    BY <1>1, <1>3 DEF EntryInv, EntryFits, Advances, Free, Started, Retired, Built
  <1>4. ASSUME NEW e \in Entry, ~Free(e), NEW n \in Nat, ent' = [ent EXCEPT ![e].waiters = n]
        PROVE  EntryInv' /\ \A f \in Entry : Advances(f)
    <2>1. /\ \A f \in Entry \ {e} : ent'[f] = ent[f]
          /\ ent'[e].conn = ent[e].conn /\ ent'[e].load = ent[e].load
          /\ ent'[e].build = ent[e].build /\ ent'[e].life = ent[e].life
          /\ ent'[e].prov = ent[e].prov
      BY <1>1, <1>4, EntryType DEF TypeOK, EntryState
    <2>2. Changes(e) /\ EntryFits(e)' /\ Advances(e)
      BY <1>1, <1>4, <2>1
         DEF Changes, EntryInv, EntryFits, Advances, Free, Started, Retired, Built
    <2> QED
      BY <1>1, <2>2, OneEntry
  <1>5. ASSUME NEW e \in Entry, ~Free(e), NEW b \in BuildState, NEW r \in ProvState,
               ent'[e].build = b, ent'[e].prov = r,
               ent'[e].load = ent[e].load, ent'[e].life = ent[e].life,
               ent'[e].conn = ent[e].conn,
               \A f \in Entry \ {e} : ent'[f] = ent[f],
               \/ ~Retired(e) /\ ~Started(e) /\ b = "started" /\ r = ent[e].prov
               \/ Started(e) /\ ~Built(e) /\ b \in {"calling", "failed"} /\ r = ent[e].prov
               \/ Started(e) /\ ~Built(e) /\ b = "built" /\ r = "open"
        PROVE  EntryInv' /\ \A f \in Entry : Advances(f)
    <2>1. Changes(e) /\ EntryFits(e)' /\ Advances(e)
      BY <1>1, <1>5 DEF Changes, EntryInv, EntryFits, Advances, Free, Started, Retired, Built
    <2> QED
      BY <1>1, <2>1, OneEntry
  <1>6. ASSUME NEW e \in Entry, ~Free(e), NEW x \in LifeState, NEW r \in ProvState,
               ent'[e].life = x, ent'[e].prov = r,
               ent'[e].load = ent[e].load, ent'[e].build = ent[e].build,
               ent'[e].conn = ent[e].conn,
               \A f \in Entry \ {e} : ent'[f] = ent[f],
               \/ ent[e].life = "live" /\ x = "marked" /\ r = ent[e].prov
               \/ ent[e].life = "marked" /\ x = "cancelled" /\ r = ent[e].prov
               \/ ent[e].life = "cancelled" /\ Started(e) /\ x = "draining" /\ r = ent[e].prov
               \/ ent[e].life = "draining" /\ Built(e) /\ x = "closing" /\ r # "open"
               \/ ent[e].life = "closing" /\ x = "finished" /\ r = ent[e].prov
        PROVE  EntryInv' /\ \A f \in Entry : Advances(f)
    <2>1. Changes(e) /\ EntryFits(e)' /\ Advances(e)
      BY <1>1, <1>6 DEF Changes, EntryInv, EntryFits, Advances, Free, Started, Retired, Built
    <2> QED
      BY <1>1, <2>1, OneEntry
  <1>7. ASSUME NEW c \in Caller, GetJoin(c)
        PROVE  EntryInv' /\ \A e \in Entry : Advances(e)
    <2>1. call[c].conn \in Conn
      BY <1>1, CallType DEF Process
    <2>2. PICK e \in Entry : e = entries[call[c].conn]
      BY <1>1, <1>7, <2>1 DEF TypeOK, GetJoin
    <2>3. ~Free(e)
      BY <2>1, <2>2 DEF IInv, MapHoldsLiveEntries
    <2>4. ent' = [ent EXCEPT ![e].waiters = ent[e].waiters + 1] /\ ent[e].waiters + 1 \in Nat
      BY <1>1, <1>7, <2>2, EntryType DEF GetJoin
    <2> QED
      BY <1>4, <2>3, <2>4
  <1>8. ASSUME NEW c \in Caller, GetCreate(c)
        PROVE  EntryInv' /\ \A e \in Entry : Advances(e)
    <2>1. call[c].conn \in Conn
      BY <1>1, CallType DEF Process
    <2>2. PICK e \in Entry :
            /\ Free(e)
            /\ ent' = [ent EXCEPT ![e] =
                  [Unused EXCEPT !.conn = call[c].conn, !.cfg = call[c].want,
                                 !.load = IF call[c].want = None THEN "loading" ELSE "loaded",
                                 !.waiters = 1]]
      BY <1>8 DEF GetCreate
    <2>3. ent[e] = Unused
      BY <1>1, <2>2 DEF EntryInv, EntryFits
    <2>4. /\ ent'[e].conn \in Conn /\ ent'[e].load # "unused" /\ ent'[e].build = "idle"
          /\ ent'[e].life = "live" /\ ent'[e].prov = "none"
      BY <1>1, <2>1, <2>2 DEF TypeOK, Unused
    <2>5. ent[e].build = "idle" /\ ent[e].life = "live"
      BY <2>3 DEF Unused
    <2>6. \A f \in Entry \ {e} : ent'[f] = ent[f]
      BY <1>1, <2>2 DEF TypeOK
    <2>7. EntryFits(e)' /\ Advances(e)
      BY <2>2, <2>4, <2>5 DEF EntryFits, Advances, Free, Started, Retired, Built
    <2>8. ASSUME NEW f \in Entry \ {e} PROVE EntryFits(f)' /\ Advances(f)
      BY <1>1, <2>6 DEF EntryInv, EntryFits, Advances, Free, Started, Retired, Built
    <2> QED
      BY <2>7, <2>8 DEF EntryInv
  <1>9. ASSUME NEW c \in Caller, StartOrJoin(c)
        PROVE  EntryInv' /\ \A e \in Entry : Advances(e)
    <2>1. PICK e \in Entry : e = at[c] /\ ~Free(e)
      BY <1>2, <1>9 DEF StartOrJoin, Working, Inside, Process
    <2>2. \/ ent' = ent
          \/ ~Retired(e) /\ ~Started(e) /\ ent' = [ent EXCEPT ![e].build = "started"]
      BY <1>9, <2>1 DEF StartOrJoin
    <2>3. CASE ent' = [ent EXCEPT ![e].build = "started"]
      <3>1. /\ \A f \in Entry \ {e} : ent'[f] = ent[f]
            /\ ent'[e].conn = ent[e].conn /\ ent'[e].load = ent[e].load
            /\ ent'[e].build = "started" /\ ent'[e].life = ent[e].life
            /\ ent'[e].prov = ent[e].prov /\ ent[e].prov \in ProvState
        BY <1>1, <2>3, EntryType DEF TypeOK, EntryState
      <3> QED
        BY <1>3, <1>5, <2>1, <2>2, <3>1 DEF BuildState
    <2> QED
      BY <1>3, <2>2, <2>3
  <1>10. ASSUME NEW c \in Caller, AwaitDone(c)
         PROVE  EntryInv' /\ \A e \in Entry : Advances(e)
    <2>1. at[c] \in Entry /\ ~Free(at[c]) /\ ent[at[c]].waiters - 1 \in Nat
      BY <1>10, CountedCaller DEF AwaitDone, Inside
    <2> QED
      BY <1>4, <1>10, <2>1 DEF AwaitDone
  <1>11. ASSUME NEW e \in Entry, ~Free(e), ~Retired(e), NEW w \in BOOLEAN, NEW n \in Nat,
                ent' = [ent EXCEPT ![e].waiters = n, ![e].life = "marked", ![e].waited = w]
         PROVE  EntryInv' /\ \A f \in Entry : Advances(f)
    <2>1. /\ \A f \in Entry \ {e} : ent'[f] = ent[f]
          /\ ent'[e].conn = ent[e].conn /\ ent'[e].load = ent[e].load
          /\ ent'[e].build = ent[e].build /\ ent'[e].life = "marked"
          /\ ent'[e].prov = ent[e].prov /\ ent[e].prov \in ProvState
      BY <1>1, <1>11, EntryType DEF TypeOK, EntryState
    <2> QED
      BY <1>6, <1>11, <2>1 DEF LifeState, Retired
  <1>12. ASSUME NEW c \in Caller, Leave(c)
        PROVE  EntryInv' /\ \A e \in Entry : Advances(e)
    <2>1. PICK e \in Entry : e = at[c] /\ ~Free(e) /\ ent[e].waiters - 1 \in Nat
      BY <1>12, CountedCaller DEF Leave, Inside
    <2>2. CASE ent' = [ent EXCEPT ![e].waiters = ent[e].waiters - 1]
      BY <1>4, <2>1, <2>2
    <2>3. CASE /\ ~Retired(e)
               /\ ent' = [ent EXCEPT ![e].waiters = ent[e].waiters - 1, ![e].life = "marked",
                                     ![e].waited = FALSE]
      BY <1>11, <2>1, <2>3
    <2> QED
      BY <1>1, <1>12, <2>1, <2>2, <2>3 DEF TypeOK, Leave, MarkRetired
  <1>13. ASSUME NEW p \in Process, Retire(p)
        PROVE  EntryInv' /\ \A e \in Entry : Advances(e)
    <2>1. PICK e \in Entry : e = at[p] /\ ~Free(e)
      BY <1>2, <1>13 DEF Retire, Working
    <2>2. \/ ent' = ent
          \/ /\ ~Retired(e)
             /\ ent' = [ent EXCEPT ![e].life = "marked", ![e].waited = Waits(p)]
      BY <1>1, <1>13, <2>1 DEF TypeOK, Retire, MarkRetired
    <2>3. CASE ~Retired(e) /\ ent' = [ent EXCEPT ![e].life = "marked", ![e].waited = Waits(p)]
      <3>1. /\ \A f \in Entry \ {e} : ent'[f] = ent[f]
            /\ ent'[e].conn = ent[e].conn /\ ent'[e].load = ent[e].load
            /\ ent'[e].build = ent[e].build /\ ent'[e].life = "marked"
            /\ ent'[e].prov = ent[e].prov /\ ent[e].prov \in ProvState
        BY <1>1, <2>3, EntryType DEF TypeOK, EntryState
      <3> QED
        BY <1>6, <2>1, <2>3, <3>1 DEF LifeState, Retired
    <2> QED
      BY <1>3, <2>2, <2>3
  <1>14. ASSUME NEW p \in Process, Cancel(p) \/ Dispatch(p)
        PROVE  EntryInv' /\ \A e \in Entry : Advances(e)
    <2>1. PICK e \in Entry : e = at[p] /\ ~Free(e)
      BY <1>2, <1>14 DEF Cancel, Dispatch, Working
    <2>2. PICK x \in {"cancelled", "draining"} :
            /\ ent' = [ent EXCEPT ![e].life = x]
            /\ x = "cancelled" => ent[e].life = "marked"
            /\ x = "draining" => ent[e].life = "cancelled" /\ Started(e)
      BY <1>1, <1>14, <2>1 DEF Cancel, Dispatch, ControlInv, ControlOK
    <2>3. /\ \A f \in Entry \ {e} : ent'[f] = ent[f]
          /\ ent'[e].conn = ent[e].conn /\ ent'[e].load = ent[e].load
          /\ ent'[e].build = ent[e].build /\ ent'[e].life = x
          /\ ent'[e].prov = ent[e].prov /\ ent[e].prov \in ProvState
      BY <1>1, <2>2, EntryType DEF TypeOK, EntryState
    <2> QED
      BY <1>6, <2>1, <2>2, <2>3 DEF LifeState
  <1>15. ASSUME NEW e \in Entry, Load(e)
        PROVE  EntryInv' /\ \A f \in Entry : Advances(f)
    <2>1. /\ \A f \in Entry \ {e} : ent'[f] = ent[f]
          /\ ent'[e].conn = ent[e].conn /\ ent'[e].load \in {"loaded", "failed"}
          /\ ent'[e].build = ent[e].build /\ ent'[e].life = ent[e].life
          /\ ent'[e].prov = ent[e].prov /\ ent[e].load = "loading"
      BY <1>1, <1>15, EntryType DEF TypeOK, EntryState, Load
    <2>2. Changes(e) /\ EntryFits(e)' /\ Advances(e)
      BY <1>1, <2>1 DEF Changes, EntryInv, EntryFits, Advances, Free, Started, Retired, Built
    <2> QED
      BY <1>1, <2>2, OneEntry
  <1>16. ASSUME NEW e \in Entry, Construct(e) \/ FactoryReturns(e)
        PROVE  EntryInv' /\ \A f \in Entry : Advances(f)
    <2>1. Started(e) /\ ~Built(e) /\ ~Free(e)
      BY <1>1, <1>16
         DEF Construct, FactoryReturns, Started, Built, EntryInv, EntryFits, Unused
    <2>2. PICK b \in {"calling", "failed", "built"} :
            \/ b # "built" /\ ent' = [ent EXCEPT ![e].build = b]
            \/ b = "built" /\ ent' = [ent EXCEPT ![e].build = b, ![e].prov = "open"]
      BY <1>16 DEF Construct, FactoryReturns
    <2>3. /\ \A f \in Entry \ {e} : ent'[f] = ent[f]
          /\ ent'[e].conn = ent[e].conn /\ ent'[e].load = ent[e].load
          /\ ent'[e].build = b /\ ent'[e].life = ent[e].life
          /\ ent'[e].prov = IF b = "built" THEN "open" ELSE ent[e].prov
          /\ ent[e].prov \in ProvState
      BY <1>1, <2>2, EntryType DEF TypeOK, EntryState
    <2> QED
      BY <1>5, <2>1, <2>3 DEF BuildState, ProvState
  <1>17. ASSUME NEW e \in Entry, CloseProvider(e) \/ FinishClose(e)
        PROVE  EntryInv' /\ \A f \in Entry : Advances(f)
    <2>1. ~Free(e)
      BY <1>1, <1>17 DEF CloseProvider, FinishClose, EntryInv, EntryFits, Unused
    <2>2. PICK r \in ProvState :
            \/ /\ ent[e].life = "draining" /\ Built(e) /\ r # "open"
               /\ ent' = [ent EXCEPT ![e].life = "closing", ![e].prov = r]
            \/ /\ ent[e].life = "closing" /\ r = ent[e].prov
               /\ ent' = [ent EXCEPT ![e].life = "finished"]
      BY <1>1, <1>17, EntryType DEF CloseProvider, FinishClose, ProvState
    <2>3. /\ \A f \in Entry \ {e} : ent'[f] = ent[f]
          /\ ent'[e].conn = ent[e].conn /\ ent'[e].load = ent[e].load
          /\ ent'[e].build = ent[e].build
          /\ ent'[e].life = IF ent[e].life = "draining" THEN "closing" ELSE "finished"
          /\ ent'[e].prov = r
      BY <1>1, <2>2, EntryType DEF TypeOK, EntryState
    <2> QED
      BY <1>6, <2>1, <2>2, <2>3 DEF LifeState
  <1>18. CASE UNCHANGED vars
    BY <1>3, <1>18 DEF vars
  <1> QED
    BY <1>3, <1>7, <1>8, <1>9, <1>10, <1>12, <1>13, <1>14, <1>15, <1>16, <1>17, <1>18, QuietSteps
       DEF Next, Get, Retirement, Background, QuietGet

-----------------------------------------------------------------------------
(* Control.                                                                 *)

\* Only finishRetire and the closer move an entry on from its marking.
LifeKept == \A e \in Entry : ent[e].life \in {"marked", "cancelled"} => ent'[e].life = ent[e].life

\* Outside Cancel and Dispatch a marked entry stays marked and a cancelled one cancelled.
LEMMA LifeSteps ==
  ASSUME IInv
  PROVE  /\ \A c \in Caller : Get(c) \/ ContextDone(c) => LifeKept
         /\ \A p \in Process : Retire(p) \/ Await(p) => LifeKept
         /\ \A p \in Admin : Administer(p) => LifeKept
         /\ \A e \in Entry : Background(e) => LifeKept
  <1>1. TypeOK /\ EntryInv /\ ControlInv
    BY DEF IInv
  <1>2. \A p \in Process : pc[p] \in Working => at[p] \in Entry /\ ~Free(at[p])
    BY <1>1 DEF ControlInv, ControlOK
  <1>3. ent' = ent => LifeKept
    BY DEF LifeKept
  <1>4. ASSUME NEW e \in Entry, NEW n, ent' = [ent EXCEPT ![e].waiters = n]
        PROVE  LifeKept
    BY <1>1, <1>4, EntryType DEF TypeOK, EntryState, LifeKept
  <1>5. ASSUME NEW c \in Caller, GetJoin(c) PROVE LifeKept
    <2>1. entries[call[c].conn] \in Entry
      BY <1>1, <1>5, CallType DEF TypeOK, GetJoin, Process
    <2> QED
      BY <1>4, <1>5, <2>1 DEF GetJoin
  <1>6. ASSUME NEW c \in Caller, GetCreate(c) PROVE LifeKept
    <2>1. PICK e \in Entry : Free(e) /\ \A f \in Entry \ {e} : ent'[f] = ent[f]
      BY <1>1, <1>6 DEF TypeOK, GetCreate
    <2>2. ent[e].life = "live"
      BY <1>1, <2>1 DEF EntryInv, EntryFits, Unused
    <2> QED
      BY <2>1, <2>2 DEF LifeKept
  <1>7. ASSUME NEW c \in Caller, StartOrJoin(c) PROVE LifeKept
    BY <1>1, <1>7, EntryType DEF TypeOK, EntryState, LifeKept, StartOrJoin
  <1>8. ASSUME NEW c \in Caller, AwaitDone(c) PROVE LifeKept
    <2>1. at[c] \in Entry
      BY <1>8, CountedCaller DEF AwaitDone, Inside
    <2> QED
      BY <1>4, <1>8, <2>1 DEF AwaitDone
  <1>9. ASSUME NEW c \in Caller, Leave(c) PROVE LifeKept
    <2>1. PICK e \in Entry : e = at[c]
      BY <1>9, CountedCaller DEF Leave, Inside
    <2>2. \/ ent' = [ent EXCEPT ![e].waiters = ent[e].waiters - 1]
          \/ ent[e].life = "live" /\ \A f \in Entry \ {e} : ent'[f] = ent[f]
      BY <1>1, <1>9, <2>1 DEF TypeOK, Leave, MarkRetired, Retired
    <2> QED
      BY <1>4, <2>2 DEF LifeKept
  <1>10. ASSUME NEW p \in Process, Retire(p) PROVE LifeKept
    <2>1. \/ ent' = ent
          \/ ent[at[p]].life = "live" /\ \A f \in Entry \ {at[p]} : ent'[f] = ent[f]
      BY <1>1, <1>10 DEF TypeOK, Retire, MarkRetired, Retired
    <2> QED
      BY <1>3, <2>1 DEF LifeKept
  <1>11. ASSUME NEW e \in Entry, Background(e) PROVE LifeKept
    <2>1. CASE Load(e)
      BY <1>1, <2>1, EntryType, SMTT(30) DEF TypeOK, EntryState, LifeKept, Load
    <2>2. CASE Construct(e)
      BY <1>1, <2>2, EntryType DEF TypeOK, EntryState, LifeKept, Construct
    <2>3. CASE FactoryReturns(e)
      BY <1>1, <2>3, EntryType, SMTT(30) DEF TypeOK, EntryState, LifeKept, FactoryReturns
    <2>4. CASE CloseProvider(e) \/ FinishClose(e)
      <3>1. ent[e].life \in {"draining", "closing"} /\ \A f \in Entry \ {e} : ent'[f] = ent[f]
        BY <1>1, <2>4 DEF TypeOK, CloseProvider, FinishClose
      <3> QED
        BY <3>1 DEF LifeKept
    <2> QED
      BY <1>11, <2>1, <2>2, <2>3, <2>4 DEF Background
  <1> QED
    BY <1>3, <1>5, <1>6, <1>7, <1>8, <1>9, <1>10, <1>11, QuietSteps DEF Get, QuietGet

\* When one goroutine moves, the others stay where they may be.
LEMMA ControlFrom ==
  ASSUME IInv, [Next]_vars, NEW p \in Process, ControlOK(p)',
         \A q \in Process \ {p} : pc'[q] = pc[q] /\ at'[q] = at[q] /\ call'[q] = call[q],
         \A q \in Process \ {p} : pc[q] \in Retiring =>
            /\ ent'[at[q]].life = ent[at[q]].life
            /\ ~(pc'[p] \in Retiring /\ at'[p] = at[q])
  PROVE  ControlInv'
  <1>1. TypeOK /\ ControlInv
    BY DEF IInv
  <1>2. \A e \in Entry : (~Free(e) => ~Free(e)') /\ (Started(e) => Started(e)')
    BY EntryStep DEF Advances
  <1>3. ASSUME NEW q \in Process \ {p} PROVE ControlOK(q)'
    <2>1. pc'[q] = pc[q] /\ at'[q] = at[q] /\ call'[q] = call[q] /\ ControlOK(q)
      BY <1>1 DEF ControlInv
    <2>2. pc[q] \in Working => at[q] \in Entry /\ ~Free(at[q])'
      BY <1>2, <2>1 DEF ControlOK
    <2>3. \A e \in call[q].todo : ~Free(e)'
      BY <1>1, <1>2, <2>1, CallType DEF ControlOK
    <2>4. pc[q] = "cancel" => ent'[at[q]].life = "marked"
      BY <2>1 DEF ControlOK, Retiring
    <2>5. pc[q] = "dispatch" => ent'[at[q]].life = "cancelled" /\ Started(at[q])'
      BY <1>2, <2>1, <2>2 DEF ControlOK, Retiring, Working, Started
    <2> QED
      BY <2>1, <2>2, <2>3, <2>4, <2>5 DEF ControlOK, Free, Started
  <1> QED
    BY <1>1, <1>3 DEF ControlInv

\* The goroutines in finishRetire, and the entry each of them has marked.
LEMMA RetiringLife ==
  ASSUME IInv, NEW q \in Process, pc[q] \in Retiring
  PROVE  at[q] \in Entry /\ ~Free(at[q]) /\ ent[at[q]].life \in {"marked", "cancelled"}
  BY DEF IInv, ControlInv, ControlOK, Retiring, Working

\* A caller inside get goes where its entry lets it.
LEMMA ControlGet ==
  ASSUME IInv, [Next]_vars, NEW c \in Caller, Get(c) \/ ContextDone(c)
  PROVE  ControlInv'
  <1> USE DEF Goto
  <1>1. TypeOK /\ ControlOK(c) /\ c \in Process
    BY DEF IInv, ControlInv, Process
  <1>2. /\ \A e \in Entry : (~Free(e) => ~Free(e)') /\ (Started(e) => Started(e)')
        /\ LifeKept
    BY EntryStep, LifeSteps DEF Advances
  <1>3. \A q \in Process \ {c} : pc[q] \in Retiring => ent'[at[q]].life = ent[at[q]].life
    BY <1>2, RetiringLife DEF LifeKept
  <1>4. \A e \in call[c].todo : e \in Entry /\ ~Free(e)'
    BY <1>1, <1>2, CallType DEF ControlOK
  <1>5. ASSUME ControlOK(c)', pc'[c] \notin Retiring,
               \A q \in Process \ {c} : pc'[q] = pc[q] /\ at'[q] = at[q] /\ call'[q] = call[q]
        PROVE  ControlInv'
    BY <1>1, <1>3, <1>5, ControlFrom
  <1>6. CASE GetJoin(c)
    <2>1. call[c].conn \in Conn /\ entries[call[c].conn] \in Entry
      BY <1>1, <1>6, CallType DEF TypeOK, GetJoin
    <2>2. PICK e \in Entry : e = entries[call[c].conn]
      BY <2>1
    <2>3. ~Free(e)'
      BY <1>2, <2>1, <2>2 DEF IInv, MapHoldsLiveEntries
    <2>4. /\ pc'[c] = "awaitConfig" /\ at'[c] = e
          /\ call'[c].next = call[c].next /\ call'[c].todo = call[c].todo
          /\ \A q \in Process \ {c} : pc'[q] = pc[q] /\ at'[q] = at[q] /\ call'[q] = call[q]
      BY <1>1, <1>6, <2>2 DEF TypeOK, GetJoin, Call
    <2>5. ControlOK(c)'
      BY <1>4, <2>3, <2>4 DEF ControlOK, Free
    <2> QED
      BY <1>5, <2>4, <2>5 DEF Retiring
  <1>7. CASE GetCreate(c)
    <2>1. PICK e \in Entry :
             at' = [at EXCEPT ![c] = e]
             /\ ent' = [ent EXCEPT ![e] =
                  [Unused EXCEPT !.conn = call[c].conn, !.cfg = call[c].want,
                                 !.load = IF call[c].want = None THEN "loading" ELSE "loaded",
                                 !.waiters = 1]]
      BY <1>7 DEF GetCreate
    <2>2. ~Free(e)'
      BY <1>1, <2>1 DEF TypeOK, Free, Unused
    <2>3. /\ pc'[c] = "awaitConfig" /\ at'[c] = e
          /\ call'[c].next = call[c].next /\ call'[c].todo = call[c].todo
          /\ \A q \in Process \ {c} : pc'[q] = pc[q] /\ at'[q] = at[q] /\ call'[q] = call[q]
      BY <1>1, <1>7, <2>1 DEF TypeOK, GetCreate, Call
    <2>4. ControlOK(c)'
      BY <1>4, <2>2, <2>3 DEF ControlOK, Free
    <2> QED
      BY <1>5, <2>3, <2>4 DEF Retiring
  <1>8. CASE GetClosed(c) \/ ReadResult(c)
    <2>1. /\ pc'[c] \in {"done", "retire"} /\ at' = at
          /\ pc'[c] = "retire" => pc[c] = "read"
          /\ call'[c].todo = call[c].todo
          /\ \A q \in Process \ {c} : pc'[q] = pc[q] /\ call'[q] = call[q]
      BY <1>1, <1>8 DEF TypeOK, GetClosed, ReadResult, Call
    <2>2. pc'[c] = "retire" => at[c] \in Entry /\ ~Free(at[c])'
      BY <1>1, <1>2, <2>1 DEF ControlOK, Working
    <2>3. ControlOK(c)'
      BY <1>4, <2>1, <2>2 DEF ControlOK, Free, Working, Inside
    <2> QED
      BY <1>1, <1>5, <2>1, <2>3 DEF Retiring
  <1>9. CASE CheckEntry(c) \/ Guard(c) \/ StartOrJoin(c) \/ AwaitDone(c) \/ ContextDone(c)
    <2>1. /\ pc[c] \in {"awaitConfig", "guard", "begin", "awaitDone"} /\ at' = at
          /\ pc'[c] \in {"leave", "guard", "begin", "awaitDone", "read"}
          /\ pc'[c] = "leave" => call'[c].next \in {"done", "retire"}
          /\ call'[c].todo = call[c].todo
          /\ \A q \in Process \ {c} : pc'[q] = pc[q] /\ call'[q] = call[q]
      <3>1. CASE CheckEntry(c)
        BY <1>1, <3>1 DEF TypeOK, Call, CheckEntry, Fail
      <3>2. CASE Guard(c) \/ StartOrJoin(c)
        BY <1>1, <3>2 DEF TypeOK, Call, Guard, StartOrJoin, Fail
      <3>3. CASE AwaitDone(c) \/ ContextDone(c)
        BY <1>1, <3>3 DEF TypeOK, Call, AwaitDone, ContextDone, Fail
      <3> QED
        BY <1>9, <3>1, <3>2, <3>3
    <2>2. at[c] \in Entry /\ ~Free(at[c])'
      BY <1>1, <1>2, <2>1 DEF ControlOK, Working, Inside
    <2>3. ControlOK(c)'
      BY <1>4, <2>1, <2>2 DEF ControlOK, Free
    <2> QED
      BY <1>1, <1>5, <2>1, <2>3 DEF Retiring
  <1>10. CASE Leave(c)
    <2>1. PICK e \in Entry : e = at[c] /\ ~Free(e)
      BY <1>10, CountedCaller DEF Leave, Inside
    <2>2. /\ at' = at /\ call' = call /\ ~Free(e)' /\ call[c].next \in {"done", "retire"}
          /\ \A q \in Process \ {c} : pc'[q] = pc[q]
      BY <1>1, <1>2, <1>10, <2>1 DEF TypeOK, Leave, ControlOK
    <2>3. CASE pc'[c] = call[c].next
      BY <1>4, <1>5, <2>1, <2>2, <2>3 DEF ControlOK, Free, Retiring
    <2>4. CASE pc'[c] = "cancel" /\ ~Retired(e) /\ ent'[e].life = "marked"
      <3>1. ControlOK(c)'
        BY <1>4, <2>1, <2>2, <2>4 DEF ControlOK, Free
      <3>2. \A q \in Process \ {c} : pc[q] \in Retiring => at[q] # e
        BY <2>4, RetiringLife DEF Retired
      <3> QED
        BY <1>1, <1>3, <2>1, <2>2, <3>1, <3>2, ControlFrom
    <2>5. \/ pc'[c] = call[c].next
          \/ /\ pc'[c] = "cancel" /\ ~Retired(e)
             /\ ent' = [ent EXCEPT ![e].waiters = ent[e].waiters - 1, ![e].life = "marked",
                                   ![e].waited = FALSE]
      BY <1>1, <1>10, <2>1 DEF TypeOK, Leave, MarkRetired
    <2> QED
      BY <1>1, <2>3, <2>4, <2>5, EntryType DEF TypeOK, EntryState
  <1> QED
    BY <1>6, <1>7, <1>8, <1>9, <1>10 DEF Get

\* A goroutine that retires an entry is alone between marking it and dispatching its close.
LEMMA ControlRetirement ==
  ASSUME IInv, [Next]_vars, NEW p \in Process, Retirement(p)
  PROVE  ControlInv'
  <1> USE DEF Goto
  <1>1. TypeOK /\ ControlInv /\ ControlOK(p)
    BY DEF IInv, ControlInv
  <1>2. PICK e \in Entry : e = at[p] /\ ~Free(e) /\ ~Free(e)'
    BY <1>1, EntryStep
       DEF ControlOK, Working, Retirement, Retire, Cancel, Dispatch, Await, Advances
  <1>3. \A f \in call[p].todo : f \in Entry /\ ~Free(f)'
    BY <1>1, EntryStep, CallType DEF ControlOK, Advances
  <1>4. /\ at' = at /\ call'[p].todo = call[p].todo
        /\ \A q \in Process \ {p} : pc'[q] = pc[q] /\ call'[q] = call[q]
    <2>1. CASE Retire(p)
      BY <1>1, <2>1 DEF TypeOK, Call, Retire
    <2>2. CASE Cancel(p) \/ Dispatch(p)
      BY <1>1, <2>2 DEF TypeOK, Cancel, Dispatch
    <2>3. CASE Await(p)
      BY <1>1, <2>3 DEF TypeOK, Call, Await
    <2> QED
      BY <2>1, <2>2, <2>3 DEF Retirement
  <1>5. CASE Retire(p)
    <2>1. LifeKept
      BY <1>5, LifeSteps
    <2>2. AfterRetire(p) \in {"done", "start", "drain", "sweep"}
      BY DEF AfterRetire
    <2>3. call'[p].next = AfterRetire(p)
      BY <1>1, <1>5 DEF TypeOK, Call, Retire
    <2>4. CASE Retired(e)
      <3>1. pc'[p] \in {"await", "done", "start", "drain", "sweep"}
        BY <1>1, <1>2, <1>5, <2>2, <2>4 DEF TypeOK, Retire
      <3>2. ControlOK(p)'
        BY <1>2, <1>3, <1>4, <2>2, <2>3, <3>1 DEF ControlOK, Free, Working, Inside
      <3> QED
        BY <1>4, <2>1, <3>1, <3>2, RetiringLife, ControlFrom DEF LifeKept, Retiring
    <2>5. CASE ~Retired(e)
      <3>1. pc'[p] = "cancel" /\ ent'[e].life = "marked"
        <4>1. /\ pc'[p] = "cancel"
              /\ ent' = [ent EXCEPT ![e].life = "marked", ![e].waited = Waits(p)]
          BY <1>1, <1>2, <1>5, <2>5 DEF TypeOK, Retire, MarkRetired
        <4> QED
          BY <1>1, <4>1, EntryType DEF TypeOK, EntryState
      <3>2. ControlOK(p)'
        BY <1>2, <1>3, <1>4, <2>2, <2>3, <3>1 DEF ControlOK, Free, Working, Inside
      <3>3. \A q \in Process \ {p} : pc[q] \in Retiring => at[q] # e
        BY <2>5, RetiringLife DEF Retired
      <3> QED
        BY <1>2, <1>4, <2>1, <3>2, <3>3, RetiringLife, ControlFrom DEF LifeKept
    <2> QED
      BY <2>4, <2>5
  <1>6. CASE Cancel(p) \/ Dispatch(p)
    <2>1. pc[p] \in Retiring /\ call' = call
      BY <1>6 DEF Cancel, Dispatch, Retiring
    <2>2. \A q \in Process \ {p} : pc[q] \in Retiring => at[q] # e /\ at[q] \in Entry
      BY <1>1, <1>2, <2>1, RetiringLife DEF ControlInv
    <2>3. \A f \in Entry \ {e} : ent'[f] = ent[f]
      BY <1>1, <1>2, <1>6 DEF TypeOK, Cancel, Dispatch
    <2>4. call[p].next \in {"done", "retire", "start", "drain", "sweep"}
      BY <1>1, <2>1 DEF ControlOK, Retiring
    <2>5. \/ pc'[p] \in {"await", call[p].next}
          \/ pc'[p] = "dispatch" /\ Started(e)' /\ ent'[e].life = "cancelled"
      BY <1>1, <1>2, <1>6 DEF TypeOK, EntryState, Cancel, Dispatch, Started
    <2>6. ControlOK(p)'
      BY <1>2, <1>3, <1>4, <2>1, <2>4, <2>5 DEF ControlOK, Free, Started, Working, Inside
    <2> QED
      BY <1>2, <1>4, <2>2, <2>3, <2>6, ControlFrom
  <1>7. CASE Await(p)
    <2>1. LifeKept
      BY <1>7, LifeSteps
    <2>2. pc'[p] = call[p].next /\ call[p].next \in {"done", "retire", "start", "drain", "sweep"}
      BY <1>1, <1>7 DEF TypeOK, Await, ControlOK
    <2>3. ControlOK(p)'
      BY <1>2, <1>3, <1>4, <2>2 DEF ControlOK, Free, Working, Inside
    <2> QED
      BY <1>4, <2>1, <2>2, <2>3, RetiringLife, ControlFrom DEF LifeKept, Retiring
  <1> QED
    BY <1>5, <1>6, <1>7 DEF Retirement

\* Administrators take their entries from the map and from m.pending, so all are in use.
LEMMA ControlAdmin ==
  ASSUME IInv, [Next]_vars, NEW p \in Admin, Administer(p)
  PROVE  ControlInv'
  <1> USE DEF Goto
  <1>1. TypeOK /\ ControlInv /\ ControlOK(p) /\ p \in Process
    BY DEF IInv, ControlInv, Process
  <1>2. ent' = ent
    BY QuietSteps
  <1>3. \A f \in call[p].todo : f \in Entry /\ ~Free(f)
    BY <1>1, CallType DEF ControlOK
  <1>4. MapEntries \subseteq Entry /\ \A f \in MapEntries \cup pending : ~Free(f)
    <2>1. \A f \in MapEntries : f \in Entry /\ ~Free(f)
      BY <1>1 DEF IInv, TypeOK, MapEntries, MapHoldsLiveEntries
    <2>2. \A f \in pending : f \in Entry /\ ~Free(f)
      <3>1. \A f \in pending : f \in Entry /\ Retired(f)
        BY <1>1 DEF IInv, TypeOK, PendingTracksCloses
      <3>2. \A f \in Entry : Free(f) => ~Retired(f)
        BY DEF IInv, EntryInv, EntryFits, Unused, Retired
      <3> QED
        BY <3>1, <3>2
    <2> QED
      BY <2>1, <2>2
  <1>5. ASSUME pc'[p] \notin Retiring, ControlOK(p)',
               \A q \in Process \ {p} : pc'[q] = pc[q] /\ at'[q] = at[q] /\ call'[q] = call[q]
        PROVE  ControlInv'
    BY <1>1, <1>2, <1>5, ControlFrom
  <1>6. CASE UpdateProfile(p) \/ JoinClose(p) \/ Drain(p) \/ FinishManagerClose(p)
    <2>1. /\ pc'[p] \in {"lookup", "done"} /\ at' = at /\ call'[p].todo = call[p].todo
          /\ \A q \in Process \ {p} : pc'[q] = pc[q] /\ call'[q] = call[q]
      BY <1>1, <1>6 DEF TypeOK, Call, UpdateProfile, JoinClose, Drain, FinishManagerClose
    <2>2. ControlOK(p)'
      BY <1>2, <1>3, <2>1 DEF ControlOK, Free, Working, Inside
    <2> QED
      BY <1>5, <2>1, <2>2 DEF Retiring
  <1>7. CASE Invalidate(p)
    <2>1. /\ pc'[p] \in {"retire", "done"} /\ call' = call
          /\ pc'[p] = "retire" => at'[p] = entries[call[p].conn] /\ at'[p] # None
          /\ \A q \in Process \ {p} : pc'[q] = pc[q] /\ at'[q] = at[q]
      BY <1>1, <1>7 DEF TypeOK, Invalidate
    <2>2. pc'[p] = "retire" => at'[p] \in MapEntries
      BY <1>1, <2>1, CallType DEF MapEntries
    <2>3. ControlOK(p)'
      BY <1>2, <1>3, <1>4, <2>1, <2>2 DEF ControlOK, Free, Working, Inside
    <2> QED
      BY <1>5, <2>1, <2>3 DEF Retiring
  <1>8. CASE InvalidateAndWait(p)
    <2>1. /\ pc'[p] \in {"retire", "await", "drain"}
          /\ call'[p].next = "drain" /\ call'[p].todo = call[p].todo
          /\ \A q \in Process \ {p} : pc'[q] = pc[q] /\ at'[q] = at[q] /\ call'[q] = call[q]
      BY <1>1, <1>8 DEF TypeOK, Call, InvalidateAndWait
    <2>2. pc'[p] # "drain" => at'[p] \in MapEntries \cup pending
      BY <1>1, <1>8, CallType DEF TypeOK, InvalidateAndWait, MapEntries, PendingOf
    <2>3. pc'[p] # "drain" => at'[p] \in Entry /\ ~Free(at'[p])
      BY <1>1, <1>4, <2>2 DEF TypeOK
    <2>4. ControlOK(p)'
      BY <1>2, <1>3, <2>1, <2>3 DEF ControlOK, Free, Working, Inside
    <2> QED
      BY <1>5, <2>1, <2>4 DEF Retiring
  <1>9. CASE InvalidateAndWaitWhere(p) \/ Close(p) \/ SweepPending(p) \/ AwaitPending(p)
    <2>1. /\ pc'[p] \in {"sweep", "joinClose", "pendingSweep", "drain"} /\ at' = at
          /\ call'[p].todo \in {call[p].todo, MapEntries, pending, {}}
          /\ \A q \in Process \ {p} : pc'[q] = pc[q] /\ call'[q] = call[q]
      <3>1. CASE InvalidateAndWaitWhere(p) \/ Close(p)
        BY <1>1, <3>1 DEF TypeOK, Call, InvalidateAndWaitWhere, Close
      <3>2. CASE SweepPending(p) \/ AwaitPending(p)
        BY <1>1, <3>2 DEF TypeOK, Call, SweepPending, AwaitPending
      <3> QED
        BY <1>9, <3>1, <3>2
    <2>2. \A f \in call'[p].todo : ~Free(f)'
      BY <1>2, <1>3, <1>4, <2>1 DEF Free
    <2>3. ControlOK(p)'
      BY <2>1, <2>2 DEF ControlOK, Working, Inside
    <2> QED
      BY <1>5, <2>1, <2>3 DEF Retiring
  <1>10. CASE SweepEntry(p)
    <2>1. PICK e \in call[p].todo :
            /\ call' = [call EXCEPT ![p].todo = @ \ {e}]
            /\ IF Matches(p, e) THEN at' = [at EXCEPT ![p] = e] /\ pc' = [pc EXCEPT ![p] = "retire"]
                                ELSE UNCHANGED <<at, pc>>
            /\ pc[p] = "sweep"
      BY <1>10 DEF SweepEntry
    <2>2. /\ pc'[p] \in {"sweep", "retire"} /\ call'[p].todo \subseteq call[p].todo
          /\ pc'[p] = "retire" => at'[p] = e
          /\ \A q \in Process \ {p} : pc'[q] = pc[q] /\ at'[q] = at[q] /\ call'[q] = call[q]
      BY <1>1, <2>1 DEF TypeOK, Call
    <2>3. ControlOK(p)'
      BY <1>2, <1>3, <2>1, <2>2 DEF ControlOK, Free, Working, Inside
    <2> QED
      BY <1>5, <2>2, <2>3 DEF Retiring
  <1> QED
    BY <1>6, <1>7, <1>8, <1>9, <1>10 DEF Administer

\* Goroutines stay where they may be, whatever step is taken.
LEMMA ControlStep == ASSUME IInv, [Next]_vars PROVE ControlInv'
  <1>1. TypeOK /\ ControlInv
    BY DEF IInv
  <1>2. ASSUME UNCHANGED <<pc, at, call>>, LifeKept PROVE ControlInv'
    <2>1. \A e \in Entry : (~Free(e) => ~Free(e)') /\ (Started(e) => Started(e)')
      BY EntryStep DEF Advances
    <2>2. ASSUME NEW p \in Process PROVE ControlOK(p)'
      <3>1. ControlOK(p)
        BY <1>1 DEF ControlInv
      <3>2. pc[p] \in Working => at[p] \in Entry /\ ~Free(at[p])'
        BY <1>2, <2>1, <3>1 DEF ControlOK
      <3>3. \A e \in call[p].todo : ~Free(e)'
        BY <1>1, <2>1, <3>1, CallType DEF ControlOK
      <3>4. pc[p] \in Retiring => ent'[at[p]].life = ent[at[p]].life
        BY <1>2, RetiringLife DEF LifeKept
      <3>5. pc[p] = "dispatch" => Started(at[p])'
        BY <1>2, <2>1, <3>1, <3>2 DEF ControlOK, Working
      <3> QED
        BY <1>2, <3>1, <3>2, <3>3, <3>4, <3>5 DEF ControlOK, Free, Started, Retiring
    <2> QED
      BY <1>1, <1>2, <2>2 DEF ControlInv
  <1>3. ASSUME NEW e \in Entry, Background(e) PROVE ControlInv'
    <2>1. UNCHANGED <<pc, at, call>>
      BY <1>3 DEF Background, Load, Construct, FactoryReturns, CloseProvider, FinishClose
    <2> QED
      BY <1>2, <1>3, <2>1, LifeSteps
  <1>4. CASE UNCHANGED vars
    BY <1>2, <1>4 DEF vars, LifeKept
  <1> QED
    BY <1>3, <1>4, ControlGet, ControlRetirement, ControlAdmin DEF Next, Halted

-----------------------------------------------------------------------------
(* The map of entries and m.pending.                                        *)

\* The four things a step can do to the map and to the set of pending closes: make an
\* entry, mark one retired, publish a close, or leave all this as it is.
Creates(e, k) ==
    /\ Free(e) /\ k \in Conn /\ entries[k] = None /\ closing = "no"
    /\ \A f \in Entry \ {e} : ent'[f] = ent[f]
    /\ ent'[e].conn = k /\ ~Free(e)' /\ ent'[e].life = "live"
    /\ entries' = [entries EXCEPT ![k] = e] /\ pending' = pending

SameButLife(e) ==
    /\ ~Free(e)
    /\ \A f \in Entry \ {e} : ent'[f] = ent[f]
    /\ ent'[e].conn = ent[e].conn /\ ent'[e].load = ent[e].load
    /\ ent'[e].build = ent[e].build

Marks(e) ==
    /\ SameButLife(e) /\ ~Retired(e) /\ ent'[e].life = "marked"
    /\ pending' = IF Started(e) THEN pending \cup {e} ELSE pending
    /\ entries' = IF entries[ent[e].conn] = e THEN [entries EXCEPT ![ent[e].conn] = None]
                                              ELSE entries

Finishes(e) ==
    /\ SameButLife(e) /\ ent[e].life = "closing" /\ ent'[e].life = "finished"
    /\ pending' = pending \ {e} /\ entries' = entries

KeepsEntry(e) ==
    /\ ent'[e].conn = ent[e].conn
    /\ Free(e)' = Free(e) /\ Retired(e)' = Retired(e)
    /\ (ent'[e].life = "finished") = (ent[e].life = "finished")
    /\ Retired(e) => Started(e)' = Started(e)

Keeps == entries' = entries /\ pending' = pending /\ \A e \in Entry : KeepsEntry(e)

\* The same steps, Cancel and Dispatch leave the map and m.pending alone.
LEMMA QuietTables ==
  /\ \A c \in Caller : QuietGet(c) => entries' = entries /\ pending' = pending
  /\ \A p \in Process : Await(p) \/ Cancel(p) \/ Dispatch(p) =>
        entries' = entries /\ pending' = pending
  /\ \A p \in Admin : Administer(p) => entries' = entries /\ pending' = pending
  /\ Halted => entries' = entries /\ pending' = pending
  BY DEF QuietGet, GetClosed, CheckEntry, Guard, ReadResult, ContextDone, Await, Halted, vars,
         Cancel, Dispatch, managerVars,
         Administer, UpdateProfile, Invalidate, InvalidateAndWait, InvalidateAndWaitWhere, Close,
         JoinClose, SweepEntry, SweepPending, AwaitPending, Drain, FinishManagerClose

\* markRetiredLocked retires one entry, takes it out of the map and tracks its close.
LEMMA Marking ==
  ASSUME TypeOK, NEW e \in Entry, ~Free(e), ~Retired(e), NEW n \in Nat, NEW w \in BOOLEAN,
         MarkRetired(e, [ent[e] EXCEPT !.waiters = n], w)
  PROVE  Marks(e)
  <1>1. ent' = [ent EXCEPT ![e].waiters = n, ![e].life = "marked", ![e].waited = w]
    BY EntryType DEF TypeOK, EntryState, MarkRetired
  <1>2. SameButLife(e) /\ ent'[e].life = "marked"
    BY <1>1, EntryType DEF TypeOK, EntryState, SameButLife
  <1>3. [ent[e] EXCEPT !.waiters = n].conn = ent[e].conn
    BY EntryType DEF EntryState
  <1> QED
    BY <1>2, <1>3 DEF Marks, MarkRetired

\* What a step can do to the map and m.pending: nothing, retire one entry, publish the close
\* of one, or make one for a caller.
LEMMA Shapes ==
  ASSUME IInv, [Next]_vars
  PROVE  \/ Keeps
         \/ \E e \in Entry : Marks(e) \/ Finishes(e)
         \/ \E c \in Caller, e \in Entry : GetCreate(c) /\ Creates(e, call[c].conn) /\ at'[c] = e
  <1> USE DEF Free, Started, Retired
  <1>1. TypeOK /\ EntryInv /\ ControlInv
    BY DEF IInv
  <1>2. ASSUME ent' = ent, entries' = entries, pending' = pending PROVE Keeps
    BY <1>2 DEF Keeps, KeepsEntry
  <1>3. ASSUME NEW e \in Entry, entries' = entries, pending' = pending,
               \A f \in Entry \ {e} : ent'[f] = ent[f],
               ent'[e].conn = ent[e].conn, Free(e)' = Free(e), Retired(e)' = Retired(e),
               (ent'[e].life = "finished") = (ent[e].life = "finished"),
               Retired(e) => Started(e)' = Started(e)
        PROVE  Keeps
    BY <1>3 DEF Keeps, KeepsEntry
  <1>4. ASSUME NEW e \in Entry, NEW n, ent' = [ent EXCEPT ![e].waiters = n],
               entries' = entries, pending' = pending
        PROVE  Keeps
    <2>1. /\ \A f \in Entry \ {e} : ent'[f] = ent[f]
          /\ ent'[e].conn = ent[e].conn /\ ent'[e].load = ent[e].load
          /\ ent'[e].build = ent[e].build /\ ent'[e].life = ent[e].life
      BY <1>1, <1>4, EntryType DEF TypeOK, EntryState
    <2> QED
      BY <1>3, <1>4, <2>1
  <1>5. ASSUME NEW c \in Caller, GetJoin(c) PROVE Keeps
    <2>1. entries[call[c].conn] \in Entry
      BY <1>1, <1>5, CallType DEF TypeOK, GetJoin, Process
    <2> QED
      BY <1>4, <1>5, <2>1 DEF GetJoin, managerVars
  <1>6. ASSUME NEW c \in Caller, GetCreate(c)
        PROVE  \E e \in Entry : Creates(e, call[c].conn) /\ at'[c] = e
    <2>1. PICK e \in Entry :
            /\ Free(e)
            /\ ent' = [ent EXCEPT ![e] =
                  [Unused EXCEPT !.conn = call[c].conn, !.cfg = call[c].want,
                                 !.load = IF call[c].want = None THEN "loading" ELSE "loaded",
                                 !.waiters = 1]]
            /\ entries' = [entries EXCEPT ![call[c].conn] = e]
            /\ at' = [at EXCEPT ![c] = e]
      BY <1>6 DEF GetCreate
    <2>2. ent'[e].conn = call[c].conn /\ ent'[e].load # "unused" /\ ent'[e].life = "live"
      BY <1>1, <2>1 DEF TypeOK, Unused
    <2>3. call[c].conn \in Conn
      BY <1>1, CallType DEF Process
    <2> QED
      BY <1>1, <1>6, <2>1, <2>2, <2>3 DEF TypeOK, Creates, GetCreate, Process
  <1>7. ASSUME NEW c \in Caller, StartOrJoin(c) PROVE Keeps
    <2>1. at[c] \in Entry
      BY <1>1, <1>7 DEF StartOrJoin, ControlInv, ControlOK, Working, Inside, Process
    <2>2. entries' = entries /\ pending' = pending
      BY <1>7 DEF StartOrJoin, managerVars
    <2>3. CASE ent' = ent
      BY <1>2, <2>2, <2>3
    <2>4. CASE ~Retired(at[c]) /\ ent' = [ent EXCEPT ![at[c]].build = "started"]
      <3>1. PICK e \in Entry : e = at[c]
        BY <2>1
      <3>2. /\ \A f \in Entry \ {e} : ent'[f] = ent[f]
            /\ ent'[e].conn = ent[e].conn /\ ent'[e].load = ent[e].load
            /\ ent'[e].life = ent[e].life
        BY <1>1, <2>4, <3>1, EntryType DEF TypeOK, EntryState
      <3> QED
        BY <1>3, <2>2, <2>4, <3>1, <3>2
    <2> QED
      BY <1>7, <2>3, <2>4 DEF StartOrJoin
  <1>8. ASSUME NEW c \in Caller, AwaitDone(c) PROVE Keeps
    <2>1. at[c] \in Entry
      BY <1>8, CountedCaller DEF AwaitDone, Inside
    <2> QED
      BY <1>4, <1>8, <2>1 DEF AwaitDone, managerVars
  <1>9. ASSUME NEW c \in Caller, Leave(c) PROVE Keeps \/ \E e \in Entry : Marks(e)
    <2>1. PICK e \in Entry : e = at[c] /\ ~Free(e) /\ ent[e].waiters - 1 \in Nat
      BY <1>9, CountedCaller DEF Leave, Inside
    <2>2. \/ /\ ent' = [ent EXCEPT ![e].waiters = ent[e].waiters - 1]
             /\ entries' = entries /\ pending' = pending
          \/ /\ ~Retired(e)
             /\ MarkRetired(e, [ent[e] EXCEPT !.waiters = ent[e].waiters - 1], FALSE)
      BY <1>1, <1>9, <2>1, EntryType DEF TypeOK, EntryState, Leave
    <2> QED
      BY <1>1, <1>4, <2>1, <2>2, Marking
  <1>10. ASSUME NEW p \in Process, Retire(p) PROVE Keeps \/ \E e \in Entry : Marks(e)
    <2>1. PICK e \in Entry : e = at[p] /\ ~Free(e)
      BY <1>1, <1>10 DEF Retire, ControlInv, ControlOK, Working
    <2>2. \/ ent' = ent /\ entries' = entries /\ pending' = pending
          \/ ~Retired(e) /\ MarkRetired(e, ent[e], Waits(p))
      BY <1>10, <2>1 DEF Retire
    <2>3. ent[e] = [ent[e] EXCEPT !.waiters = ent[e].waiters] /\ ent[e].waiters \in Nat
      BY <1>1, EntryType DEF EntryState
    <2>4. Waits(p) \in BOOLEAN
      BY DEF Waits
    <2>5. CASE ~Retired(e) /\ MarkRetired(e, ent[e], Waits(p))
      <3>1. MarkRetired(e, [ent[e] EXCEPT !.waiters = ent[e].waiters], Waits(p))
        BY <2>3, <2>5
      <3> QED
        BY <1>1, <2>1, <2>3, <2>4, <2>5, <3>1, Marking
    <2> QED
      BY <1>2, <2>2, <2>5
  <1>11. ASSUME NEW p \in Process, Cancel(p) \/ Dispatch(p) PROVE Keeps
    <2>1. pc[p] \in Retiring
      BY <1>11 DEF Cancel, Dispatch, Retiring
    <2>2. PICK e \in Entry : e = at[p] /\ ent[e].life \in {"marked", "cancelled"}
      BY <2>1, RetiringLife
    <2>3. PICK x \in {"cancelled", "draining"} : ent' = [ent EXCEPT ![e].life = x]
      BY <1>11, <2>2 DEF Cancel, Dispatch
    <2>4. /\ \A f \in Entry \ {e} : ent'[f] = ent[f]
          /\ ent'[e].conn = ent[e].conn /\ ent'[e].load = ent[e].load
          /\ ent'[e].build = ent[e].build /\ ent'[e].life = x
      BY <1>1, <2>3, EntryType DEF TypeOK, EntryState
    <2> QED
      BY <1>3, <1>11, <2>2, <2>4, QuietTables
  <1>12. ASSUME NEW e \in Entry, FinishClose(e) PROVE Finishes(e)
    <2>1. ~Free(e)
      BY <1>1, <1>12 DEF FinishClose, EntryInv, EntryFits, Unused
    <2> QED
      BY <1>1, <1>12, <2>1, EntryType
         DEF TypeOK, EntryState, FinishClose, Finishes, SameButLife
  <1>13. ASSUME NEW e \in Entry, Load(e) \/ Construct(e) \/ FactoryReturns(e) \/ CloseProvider(e)
         PROVE  Keeps
    <2>1. Free(e) => ent[e].build = "idle" /\ ent[e].life = "live"
      BY <1>1 DEF EntryInv, EntryFits, Unused
    <2>2. entries' = entries /\ pending' = pending
      BY <1>13 DEF Load, Construct, FactoryReturns, CloseProvider, managerVars
    <2>3. CASE Load(e)
      <3>1. /\ \A f \in Entry \ {e} : ent'[f] = ent[f]
            /\ ent'[e].conn = ent[e].conn /\ ent'[e].load # "unused" /\ ent[e].load = "loading"
            /\ ent'[e].build = ent[e].build /\ ent'[e].life = ent[e].life
        BY <1>1, <2>3, EntryType DEF TypeOK, EntryState, Load
      <3> QED
        BY <1>3, <2>2, <3>1
    <2>4. CASE Construct(e) \/ FactoryReturns(e)
      <3>1. /\ \A f \in Entry \ {e} : ent'[f] = ent[f]
            /\ ent'[e].conn = ent[e].conn /\ ent'[e].load = ent[e].load
            /\ ent'[e].build # "idle" /\ ent'[e].life = ent[e].life
        BY <1>1, <2>4, EntryType DEF TypeOK, EntryState, Construct, FactoryReturns
      <3>2. ent[e].build # "idle"
        BY <2>4 DEF Construct, FactoryReturns
      <3> QED
        BY <1>3, <2>2, <3>1, <3>2
    <2>5. CASE CloseProvider(e)
      <3>1. /\ \A f \in Entry \ {e} : ent'[f] = ent[f]
            /\ ent'[e].conn = ent[e].conn /\ ent'[e].load = ent[e].load
            /\ ent'[e].build = ent[e].build
            /\ ent[e].life = "draining" /\ ent'[e].life = "closing"
        BY <1>1, <2>5, EntryType DEF TypeOK, EntryState, CloseProvider
      <3> QED
        BY <1>3, <2>2, <3>1
    <2> QED
      BY <1>13, <2>3, <2>4, <2>5
  <1>14. CASE UNCHANGED vars
    BY <1>2, <1>14 DEF vars
  <1> QED
    BY <1>2, <1>5, <1>6, <1>7, <1>8, <1>9, <1>10, <1>11, <1>12, <1>13, <1>14, QuietSteps, QuietTables
       DEF Next, Get, Retirement, Background, QuietGet

\* The map holds the live entries, one per connection, after every step.
LEMMA MapStep == ASSUME IInv, [Next]_vars PROVE MapHoldsLiveEntries'
  <1> USE DEF Free, Started, Retired
  <1>1. TypeOK /\ EntryInv /\ MapHoldsLiveEntries /\ None \notin Entry
    BY DataAssumption DEF IInv
  <1>2. CASE Keeps
    BY <1>1, <1>2 DEF MapHoldsLiveEntries, Keeps, KeepsEntry
  <1>3. ASSUME NEW e \in Entry, Marks(e) PROVE MapHoldsLiveEntries'
    <2>1. ent[e].conn \in Conn
      BY <1>1, <1>3 DEF EntryInv, EntryFits, Marks, SameButLife
    <2>2. entries[ent[e].conn] = e
      BY <1>1, <1>3, <2>1 DEF MapHoldsLiveEntries, Marks, SameButLife
    <2>3. entries' = [entries EXCEPT ![ent[e].conn] = None]
      BY <1>3, <2>2 DEF Marks
    <2>4. \A k \in Conn, f \in Entry \ {e} :
             entries'[k] = f <=> ~Free(f)' /\ ent'[f].conn = k /\ ~Retired(f)'
      BY <1>1, <1>3, <2>1, <2>2, <2>3 DEF TypeOK, MapHoldsLiveEntries, Marks, SameButLife
    <2>5. \A k \in Conn : entries'[k] # e
      BY <1>1, <2>1, <2>3 DEF TypeOK, MapHoldsLiveEntries
    <2> QED
      BY <1>3, <2>4, <2>5 DEF MapHoldsLiveEntries, Marks
  <1>4. ASSUME NEW e \in Entry, Finishes(e) PROVE MapHoldsLiveEntries'
    BY <1>1, <1>4 DEF MapHoldsLiveEntries, Finishes, SameButLife
  <1>5. ASSUME NEW e \in Entry, NEW k \in Conn, Creates(e, k) PROVE MapHoldsLiveEntries'
    <2>1. \A j \in Conn, f \in Entry \ {e} :
             entries'[j] = f <=> ~Free(f)' /\ ent'[f].conn = j /\ ~Retired(f)'
      BY <1>1, <1>5 DEF TypeOK, MapHoldsLiveEntries, Creates
    <2>2. \A j \in Conn : entries'[j] = e <=> j = k
      BY <1>1, <1>5 DEF TypeOK, MapHoldsLiveEntries, Creates
    <2> QED
      BY <1>5, <2>1, <2>2 DEF MapHoldsLiveEntries, Creates
  <1> QED
    BY <1>2, <1>3, <1>4, <1>5, Shapes, CallType, <1>1 DEF Creates

\* m.pending holds the closes in flight after every step.
LEMMA PendingStep == ASSUME IInv, [Next]_vars PROVE PendingTracksCloses'
  <1> USE DEF Free, Started, Retired
  <1>1. TypeOK /\ EntryInv /\ PendingTracksCloses
    BY DEF IInv
  <1>2. CASE Keeps
    BY <1>1, <1>2 DEF PendingTracksCloses, Keeps, KeepsEntry
  <1>3. ASSUME NEW e \in Entry, Marks(e) PROVE PendingTracksCloses'
    BY <1>1, <1>3 DEF PendingTracksCloses, Marks, SameButLife
  <1>4. ASSUME NEW e \in Entry, Finishes(e) PROVE PendingTracksCloses'
    BY <1>1, <1>4 DEF PendingTracksCloses, Finishes, SameButLife
  <1>5. ASSUME NEW e \in Entry, NEW k, Creates(e, k) PROVE PendingTracksCloses'
    <2>1. e \notin pending
      BY <1>1, <1>5 DEF PendingTracksCloses, Creates, EntryInv, EntryFits, Unused
    <2> QED
      BY <1>1, <1>5, <2>1 DEF PendingTracksCloses, Creates
  <1> QED
    BY <1>2, <1>3, <1>4, <1>5, Shapes

-----------------------------------------------------------------------------
(* Waiters.                                                                 *)

\* Where callers are, over one step: one caller went in, one went out, or none did.
SameWaiting == \A e \in Entry : Waiting(e)' = Waiting(e) /\ ent'[e].waiters = ent[e].waiters

SameElsewhere(e) ==
    \A f \in Entry \ {e} : Waiting(f)' = Waiting(f) /\ ent'[f].waiters = ent[f].waiters

Enters(c, e) ==
    /\ c \notin Waiting(e) /\ Waiting(e)' = Waiting(e) \cup {c}
    /\ \/ ent'[e].waiters = ent[e].waiters + 1
       \/ Waiting(e) = {} /\ ent'[e].waiters = 1
    /\ SameElsewhere(e)

Exits(c, e) ==
    /\ c \in Waiting(e) /\ Waiting(e)' = Waiting(e) \ {c}
    /\ ent'[e].waiters = ent[e].waiters - 1
    /\ SameElsewhere(e)
    /\ (AwaitDone(c) \/ Leave(c)) /\ e = at[c]

\* One caller at most goes into or out of an entry in a step, and the count follows it.
LEMMA WaitingSteps ==
  ASSUME IInv, [Next]_vars
  PROVE  SameWaiting \/ \E c \in Caller, e \in Entry : Enters(c, e) \/ Exits(c, e)
  <1> USE DEF Goto
  <1> DEFINE SameInside ==
               \A c \in Caller :
                  /\ at'[c] = at[c] \/ (pc[c] \notin Inside /\ pc'[c] \notin Inside)
                  /\ (pc'[c] \in Inside) = (pc[c] \in Inside)
  <1>1. TypeOK /\ ControlInv /\ Caller \subseteq Process
    BY DEF IInv, Process
  <1>2. ASSUME SameInside, \A e \in Entry : ent'[e].waiters = ent[e].waiters PROVE SameWaiting
    BY <1>2 DEF Waiting, SameWaiting
  <1>3. ASSUME NEW c \in Caller, QuietGet(c) \/ StartOrJoin(c) PROVE SameWaiting
    <2>1. SameInside
      <3>1. CASE GetClosed(c) \/ ReadResult(c)
        BY <1>1, <3>1 DEF TypeOK, GetClosed, CanEnter, ReadResult, Inside
      <3>2. CASE CheckEntry(c) \/ Guard(c)
        BY <1>1, <3>2 DEF TypeOK, CheckEntry, Guard, Fail, Inside
      <3>3. CASE StartOrJoin(c) \/ ContextDone(c)
        BY <1>1, <3>3 DEF TypeOK, StartOrJoin, ContextDone, Fail, Inside
      <3> QED
        BY <1>3, <3>1, <3>2, <3>3 DEF QuietGet
    <2>2. \A e \in Entry : ent'[e].waiters = ent[e].waiters
      BY <1>1, <1>3, QuietSteps, EntryType DEF TypeOK, EntryState, StartOrJoin
    <2> QED
      BY <1>2, <2>1, <2>2
  <1>4. ASSUME NEW c \in Caller, NEW e \in Entry, pc[c] \notin Inside,
               pc' = [pc EXCEPT ![c] = "awaitConfig"], at' = [at EXCEPT ![c] = e]
        PROVE  /\ c \notin Waiting(e) /\ Waiting(e)' = Waiting(e) \cup {c}
               /\ \A f \in Entry \ {e} : Waiting(f)' = Waiting(f)
    <2>1. pc'[c] = "awaitConfig" /\ at'[c] = e
      BY <1>1, <1>4 DEF TypeOK
    <2>2. \A d \in Caller \ {c} : pc'[d] = pc[d] /\ at'[d] = at[d]
      BY <1>1, <1>4 DEF TypeOK
    <2>3. "awaitConfig" \in Inside
      BY DEF Inside
    <2> QED
      BY <1>4, <2>1, <2>2, <2>3 DEF Waiting
  <1>5. ASSUME NEW c \in Caller, NEW e \in Entry, at[c] = e, pc[c] \in Inside, at' = at,
               pc'[c] \notin Inside, \A d \in Caller \ {c} : pc'[d] = pc[d]
        PROVE  /\ c \in Waiting(e) /\ Waiting(e)' = Waiting(e) \ {c}
               /\ \A f \in Entry \ {e} : Waiting(f)' = Waiting(f)
    BY <1>5 DEF Waiting
  <1>6. ASSUME NEW c \in Caller, GetJoin(c)
        PROVE  \E e \in Entry : Enters(c, e)
    <2>1. PICK e \in Entry : e = entries[call[c].conn]
      BY <1>1, <1>6, CallType DEF TypeOK, GetJoin
    <2>2. /\ ent'[e].waiters = ent[e].waiters + 1
          /\ \A f \in Entry \ {e} : ent'[f].waiters = ent[f].waiters
      BY <1>1, <1>6, <2>1, EntryType DEF TypeOK, EntryState, GetJoin
    <2>3. /\ pc[c] \notin Inside
          /\ pc' = [pc EXCEPT ![c] = "awaitConfig"] /\ at' = [at EXCEPT ![c] = e]
      BY <1>6, <2>1 DEF GetJoin, CanEnter, Inside
    <2> QED
      BY <1>4, <2>2, <2>3 DEF Enters, SameElsewhere
  <1>7. ASSUME NEW c \in Caller, GetCreate(c)
        PROVE  \E e \in Entry : Enters(c, e)
    <2>1. PICK e \in Entry :
            /\ Free(e)
            /\ ent' = [ent EXCEPT ![e] =
                  [Unused EXCEPT !.conn = call[c].conn, !.cfg = call[c].want,
                                 !.load = IF call[c].want = None THEN "loading" ELSE "loaded",
                                 !.waiters = 1]]
            /\ at' = [at EXCEPT ![c] = e]
      BY <1>7 DEF GetCreate
    <2>2. /\ ent'[e].waiters = 1
          /\ \A f \in Entry \ {e} : ent'[f].waiters = ent[f].waiters
      BY <1>1, <2>1 DEF TypeOK, Unused
    <2>3. Waiting(e) = {}
      BY <1>1, <2>1 DEF Waiting, ControlInv, ControlOK, Working
    <2>4. pc[c] \notin Inside /\ pc' = [pc EXCEPT ![c] = "awaitConfig"]
      BY <1>7 DEF GetCreate, CanEnter, Inside
    <2> QED
      BY <1>4, <2>1, <2>2, <2>3, <2>4 DEF Enters, SameElsewhere
  <1>8. ASSUME NEW c \in Caller, AwaitDone(c) \/ Leave(c)
        PROVE  \E e \in Entry : Exits(c, e)
    <2>1. pc[c] \in Inside /\ at' = at
      BY <1>8 DEF AwaitDone, Leave, Inside
    <2>2. PICK e \in Entry : e = at[c]
      BY <2>1, CountedCaller
    <2>3. pc'[c] \notin Inside /\ \A d \in Caller \ {c} : pc'[d] = pc[d]
      <3>1. pc[c] = "leave" => call[c].next \in {"done", "retire"}
        BY <1>1 DEF ControlInv, ControlOK
      <3> QED
        BY <1>1, <1>8, <3>1 DEF TypeOK, AwaitDone, Leave, Inside
    <2>4. \/ ent' = [ent EXCEPT ![e].waiters = ent[e].waiters - 1]
          \/ ent' = [ent EXCEPT ![e].waiters = ent[e].waiters - 1, ![e].life = "marked",
                                ![e].waited = FALSE]
      BY <1>1, <1>8, <2>2, EntryType DEF TypeOK, EntryState, AwaitDone, Leave, MarkRetired
    <2>5. /\ ent'[e].waiters = ent[e].waiters - 1
          /\ \A f \in Entry \ {e} : ent'[f].waiters = ent[f].waiters
      BY <1>1, <2>4, EntryType DEF TypeOK, EntryState
    <2> QED
      BY <1>5, <1>8, <2>1, <2>2, <2>3, <2>5 DEF Exits, SameElsewhere
  <1>9. ASSUME NEW p \in Process, Retirement(p) PROVE SameWaiting
    <2>1. pc[p] \notin Inside /\ at' = at /\ \A q \in Process \ {p} : pc'[q] = pc[q]
      BY <1>1, <1>9 DEF TypeOK, Retirement, Retire, Cancel, Dispatch, Await, Inside
    <2>2. pc'[p] \notin Inside
      <3>1. AfterRetire(p) \notin Inside /\ "await" \notin Inside /\ Retiring \cap Inside = {}
        BY DEF AfterRetire, Inside, Retiring
      <3>2. pc[p] \in {"cancel", "dispatch", "await"} => call[p].next \notin Inside
        BY <1>1 DEF ControlInv, ControlOK, Inside
      <3> QED
        BY <1>1, <1>9, <3>1, <3>2
           DEF TypeOK, Retirement, Retire, Cancel, Dispatch, Await, Retiring
    <2>3. \A e \in Entry : ent'[e].waiters = ent[e].waiters
      <3>1. at[p] \in Entry
        BY <1>1, <1>9
           DEF ControlInv, ControlOK, Working, Retirement, Retire, Cancel, Dispatch, Await
      <3>2. PICK e \in Entry : e = at[p]
        BY <3>1
      <3>3. CASE Retire(p)
        <4>1. \/ ent' = ent
              \/ ent' = [ent EXCEPT ![e].life = "marked", ![e].waited = Waits(p)]
          BY <1>1, <3>2, <3>3 DEF TypeOK, Retire, MarkRetired
        <4> QED
          BY <1>1, <4>1, EntryType DEF TypeOK, EntryState
      <3>4. CASE Cancel(p) \/ Dispatch(p)
        BY <1>1, <3>2, <3>4, EntryType, SMTT(30) DEF TypeOK, EntryState, Cancel, Dispatch
      <3>5. CASE Await(p)
        BY <3>5 DEF Await
      <3> QED
        BY <1>9, <3>3, <3>4, <3>5 DEF Retirement
    <2>4. SameInside
      BY <1>1, <2>1, <2>2
    <2> QED
      BY <1>2, <2>3, <2>4
  <1>10. ASSUME NEW p \in Admin, Administer(p) PROVE SameWaiting
    <2>1. p \notin Caller /\ p \in Process
      BY ProcessAssumption DEF Process
    <2>2. \A q \in Process \ {p} : pc'[q] = pc[q] /\ at'[q] = at[q]
      BY <1>1, <1>10, <2>1
         DEF TypeOK, Administer, UpdateProfile, Invalidate, InvalidateAndWait,
             InvalidateAndWaitWhere, Close, JoinClose, SweepEntry, SweepPending, AwaitPending,
             Drain, FinishManagerClose
    <2>3. ent' = ent
      BY <1>10, QuietSteps
    <2> QED
      BY <1>1, <1>2, <2>1, <2>2, <2>3
  <1>11. ASSUME NEW e \in Entry, Background(e) PROVE SameWaiting
    <2>1. UNCHANGED <<pc, at>>
      BY <1>11 DEF Background, Load, Construct, FactoryReturns, CloseProvider, FinishClose
    <2>2. CASE Load(e) \/ Construct(e) \/ FactoryReturns(e)
      BY <1>1, <1>2, <2>1, <2>2, EntryType, SMTT(30)
         DEF TypeOK, EntryState, Load, Construct, FactoryReturns
    <2>3. CASE CloseProvider(e) \/ FinishClose(e)
      BY <1>1, <1>2, <2>1, <2>3, EntryType DEF TypeOK, EntryState, CloseProvider, FinishClose
    <2> QED
      BY <1>11, <2>2, <2>3 DEF Background
  <1>12. CASE UNCHANGED vars
    BY <1>2, <1>12 DEF vars
  <1> QED
    <2>1. ASSUME NEW c \in Caller, Get(c) \/ ContextDone(c)
          PROVE  \/ QuietGet(c) \/ StartOrJoin(c) \/ GetJoin(c) \/ GetCreate(c)
                 \/ AwaitDone(c) \/ Leave(c)
      BY <2>1 DEF Get, QuietGet
    <2> QED
      BY <1>3, <1>6, <1>7, <1>8, <1>9, <1>10, <1>11, <1>12, <2>1 DEF Next, Halted

\* e.waiters still counts the callers after every step.
LEMMA WaitersStep == ASSUME IInv, [Next]_vars PROVE WaitersInv'
  <1>1. WaitersInv
    BY DEF IInv
  <1>2. CASE SameWaiting
    BY <1>1, <1>2 DEF WaitersInv, SameWaiting
  <1>3. ASSUME NEW c \in Caller, NEW e \in Entry, Enters(c, e) PROVE WaitersInv'
    <2>1. Cardinality(Waiting(e)') = Cardinality(Waiting(e)) + 1
      BY <1>3, WaitingCount DEF Enters
    <2>2. Waiting(e) = {} => Cardinality(Waiting(e)) = 0
      BY FS_EmptySet
    <2>3. ent'[e].waiters = Cardinality(Waiting(e)')
      BY <1>1, <1>3, <2>1, <2>2 DEF WaitersInv, Enters
    <2> QED
      BY <1>1, <1>3, <2>3 DEF WaitersInv, Enters, SameElsewhere
  <1>4. ASSUME NEW c \in Caller, NEW e \in Entry, Exits(c, e) PROVE WaitersInv'
    <2>1. Cardinality(Waiting(e)') = Cardinality(Waiting(e)) - 1
      BY <1>4, WaitingCount DEF Exits
    <2>2. ent'[e].waiters = Cardinality(Waiting(e)')
      BY <1>1, <1>4, <2>1 DEF WaitersInv, Exits
    <2> QED
      BY <1>1, <1>4, <2>2 DEF WaitersInv, Exits, SameElsewhere
  <1> QED
    BY <1>2, <1>3, <1>4, WaitingSteps

\* The last caller that leaves an unfinished entry retires it, so unfinished work has a
\* caller after every step.
LEMMA AbandonStep == ASSUME IInv, [Next]_vars PROVE NoAbandonedWork'
  <1>1. TypeOK /\ NoAbandonedWork /\ WaitersInv' /\ TypeOK'
    BY WaitersStep, TypeStep DEF IInv
  <1> SUFFICES ASSUME NEW e \in Entry, ~Free(e)', ~Done(e)', ~Retired(e)'
               PROVE  Waiting(e)' # {}
    BY DEF NoAbandonedWork, Waiting
  <1>2. CASE Free(e)
    <2>1. ~Keeps /\ \A f \in Entry : ~Marks(f) /\ ~Finishes(f)
      BY <1>2 DEF Keeps, KeepsEntry, Marks, Finishes, SameButLife, Free
    <2>2. PICK c \in Caller, f \in Entry :
             GetCreate(c) /\ Creates(f, call[c].conn) /\ at'[c] = f
      BY <2>1, Shapes
    <2>3. f = e
      BY <1>2, <2>2 DEF Creates, Free
    <2>4. pc'[c] = "awaitConfig"
      BY <1>1, <2>2 DEF TypeOK, GetCreate, Goto, Process
    <2> QED
      BY <2>2, <2>3, <2>4 DEF Waiting, Inside
  <1>3. CASE ~Free(e)
    <2>1. ~Retired(e) /\ ~Built(e) /\ ~Done(e)
      BY EntryStep DEF Advances, Done
    <2>2. Waiting(e) # {}
      BY <1>1, <1>3, <2>1 DEF NoAbandonedWork, Waiting
    <2>3. ASSUME NEW c \in Caller, Exits(c, e) PROVE Waiting(e)' # {}
      <3>1. ~AwaitDone(c)
        BY <2>1, <2>3 DEF AwaitDone, Exits
      <3>2. Leave(c) /\ e = at[c]
        BY <2>3, <3>1 DEF Exits
      <3>3. ent'[e].waiters = ent[e].waiters - 1
        BY <2>3 DEF Exits
      <3>4. ent[e].waiters - 1 # 0
        <4> SUFFICES ASSUME ent[e].waiters - 1 = 0 PROVE FALSE
          OBVIOUS
        <4>1. MarkRetired(e, [ent[e] EXCEPT !.waiters = 0], FALSE)
          BY <1>1, <2>1, <3>2, EntryType DEF Leave, EntryState
        <4>2. Marks(e)
          BY <1>1, <1>3, <2>1, <4>1, Marking
        <4> QED
          BY <4>2 DEF Marks, Retired
      <3> QED
        BY <1>1, <3>3, <3>4, FS_EmptySet DEF WaitersInv
    <2>4. ASSUME NEW c \in Caller, NEW f \in Entry, Enters(c, f) \/ Exits(c, f), f # e
          PROVE  Waiting(e)' # {}
      BY <2>2, <2>4 DEF Enters, Exits, SameElsewhere
    <2>5. ASSUME NEW c \in Caller, Enters(c, e) PROVE Waiting(e)' # {}
      BY <2>5 DEF Enters
    <2>6. CASE SameWaiting
      BY <2>2, <2>6 DEF SameWaiting
    <2> QED
      BY <2>3, <2>4, <2>5, <2>6, WaitingSteps
  <1> QED
    BY <1>2, <1>3

-----------------------------------------------------------------------------
(* Close.                                                                   *)

\* Once Close has begun no entry is made, so the map only shrinks and what is closed
\* stays closed.
LEMMA AfterClosing ==
  ASSUME IInv, [Next]_vars, closing # "no"
  PROVE  /\ closing' # "no"
         /\ MapEntries' \subseteq MapEntries
         /\ MapEntries = {} => pending' \subseteq pending
         /\ AllClosed => AllClosed'
  <1>1. TypeOK /\ MapHoldsLiveEntries /\ EntryInv /\ None \notin Entry
    BY DataAssumption DEF IInv
  <1>2. closing' # "no"
    <2>1. ASSUME NEW p \in Admin, Administer(p) PROVE closing' # "no"
      BY <2>1 DEF Administer, UpdateProfile, Invalidate, InvalidateAndWait, managerVars,
            InvalidateAndWaitWhere, Close, JoinClose, SweepEntry, SweepPending, AwaitPending,
            Drain, FinishManagerClose
    <2>2. ASSUME NEW c \in Caller, Get(c) \/ ContextDone(c) PROVE closing' = closing
      BY <2>2 DEF Get, GetClosed, GetJoin, GetCreate, CheckEntry, Guard, StartOrJoin, AwaitDone,
            Leave, ReadResult, ContextDone, managerVars
    <2>3. ASSUME NEW p \in Process, Retirement(p) PROVE closing' = closing
      BY <2>3 DEF Retirement, Retire, Cancel, Dispatch, Await, managerVars
    <2>4. ASSUME NEW e \in Entry, Background(e) PROVE closing' = closing
      BY <2>4 DEF Background, Load, Construct, FactoryReturns, CloseProvider, FinishClose,
            managerVars
    <2> QED
      BY <2>1, <2>2, <2>3, <2>4 DEF Next, Halted, vars
  <1>3. Keeps \/ \E e \in Entry : Marks(e) \/ Finishes(e)
    BY Shapes DEF Creates
  <1>4. MapEntries' \subseteq MapEntries
    <2>1. CASE entries' = entries
      BY <2>1 DEF MapEntries
    <2>2. ASSUME NEW e \in Entry, Marks(e) PROVE MapEntries' \subseteq MapEntries
      BY <1>1, <2>2 DEF TypeOK, MapEntries, Marks
    <2> QED
      BY <1>3, <2>1, <2>2 DEF Keeps, Finishes
  <1>5. MapEntries = {} => pending' \subseteq pending
    <2>1. ASSUME NEW e \in Entry, Marks(e) PROVE e \in MapEntries
      <3>1. ent[e].conn \in Conn
        BY <1>1, <2>1 DEF EntryInv, EntryFits, Marks, SameButLife
      <3>2. entries[ent[e].conn] = e
        BY <1>1, <2>1, <3>1 DEF MapHoldsLiveEntries, Marks, SameButLife
      <3> QED
        BY <1>1, <3>1, <3>2 DEF MapEntries
    <2> QED
      BY <1>3, <2>1 DEF Keeps, Finishes
  <1>6. AllClosed => AllClosed'
    <2> SUFFICES ASSUME AllClosed, NEW e \in Entry PROVE Free(e)' \/ Closed(e)'
      BY DEF AllClosed
    <2>1. CASE Free(e)
      BY <1>3, <2>1 DEF Keeps, KeepsEntry, Marks, Finishes, SameButLife, Free
    <2>2. CASE Closed(e)
      BY <2>2, EntryStep DEF Closed, Advances
    <2> QED
      BY <2>1, <2>2 DEF AllClosed
  <1> QED
    BY <1>2, <1>4, <1>5, <1>6

\* The goroutine that closes is not set back by what others do meanwhile.
LEMMA CloserFrame ==
  ASSUME IInv, [Next]_vars, NEW p \in Admin,
         pc'[p] = pc[p], at'[p] = at[p], call'[p] = call[p]
  PROVE  CloserOK(p)'
  <1>1. CloserOK(p)
    BY DEF IInv, CloserInv
  <1> QED
    BY <1>1, AfterClosing DEF CloserOK

\* The entry that is retired leaves the map, and the goroutine goes on to wait for its
\* close or to the next entry of its sweep.
LEMMA CloserRetirement ==
  ASSUME IInv, [Next]_vars, NEW p \in Admin, Retirement(p)
  PROVE  CloserOK(p)'
  <1> USE DEF Goto
  <1>1. /\ TypeOK /\ CloserOK(p) /\ ControlOK(p) /\ MapHoldsLiveEntries' /\ None \notin Entry
        /\ p \in Process /\ p \notin Caller
    BY MapStep, DataAssumption, ProcessAssumption
       DEF IInv, CloserInv, ControlInv, Process
  <1>2. CASE Retire(p)
    <2>1. /\ pc[p] = "retire" /\ call' = [call EXCEPT ![p].next = AfterRetire(p)]
          /\ pc'[p] \in {"cancel", "await", AfterRetire(p)} /\ at' = at
      BY <1>1, <1>2 DEF TypeOK, Retire
    <2>2. /\ call'[p].kind = call[p].kind /\ call'[p].todo = call[p].todo
          /\ call'[p].next = AfterRetire(p)
      BY <1>1, <2>1, CallType DEF TypeOK, Call
    <2>3. call[p].kind = "close" => AfterRetire(p) = "sweep"
      BY <1>1 DEF AfterRetire
    <2>4. at[p] \in Entry
      BY <1>1, <2>1 DEF ControlOK, Working
    <2>5. Retired(at[p])'
      <3>1. PICK e \in Entry : e = at[p]
        BY <2>4
      <3>2. CASE Retired(e)
        BY <1>2, <2>1, <3>1, <3>2 DEF Retire, Retired
      <3>3. CASE ~Retired(e)
        <4>1. ent' = [ent EXCEPT ![e] = [ent[e] EXCEPT !.life = "marked", !.waited = Waits(p)]]
          BY <1>2, <3>1, <3>3 DEF Retire, MarkRetired
        <4>2. ent'[e].life = "marked"
          BY <1>1, <4>1, EntryType DEF TypeOK, EntryState
        <4> QED
          BY <2>1, <3>1, <4>2 DEF Retired
      <3> QED
        BY <3>2, <3>3
    <2>6. at[p] \notin MapEntries'
      BY <1>1, <2>1, <2>4, <2>5 DEF MapEntries, MapHoldsLiveEntries, Retired
    <2>7. pc'[p] # "lookup" /\ AfterRetire(p) \in {"done", "drain", "sweep"}
      BY <1>1, <2>1 DEF AfterRetire
    <2>8. CASE call[p].kind # "close"
      BY <2>2, <2>7, <2>8 DEF CloserOK
    <2>9. CASE call[p].kind = "close"
      <3>1. closing # "no" /\ MapEntries \subseteq call[p].todo \cup {at[p]}
        BY <1>1, <2>1, <2>9 DEF CloserOK
      <3>2. closing' # "no" /\ MapEntries' \subseteq call[p].todo
        BY <2>6, <3>1, AfterClosing
      <3>3. pc'[p] \in {"cancel", "await", "sweep"}
        BY <2>1, <2>3, <2>9
      <3> QED
        BY <2>2, <2>3, <2>9, <3>2, <3>3 DEF CloserOK
    <2> QED
      BY <2>8, <2>9
  <1>3. CASE Cancel(p) \/ Dispatch(p) \/ Await(p)
    <2>1. /\ pc[p] \in {"cancel", "dispatch", "await"}
          /\ pc'[p] \in {"dispatch", "await", call[p].next}
      BY <1>1, <1>3 DEF TypeOK, Cancel, Dispatch, Await
    <2>2. call'[p].kind = call[p].kind /\ call'[p].todo = call[p].todo
          /\ call'[p].next = call[p].next
      BY <1>1, <1>3, CallType DEF TypeOK, Call, Cancel, Dispatch, Await
    <2>3. call[p].next # "lookup"
      BY <1>1, <2>1 DEF ControlOK
    <2>4. CASE call[p].kind # "close"
      BY <2>1, <2>2, <2>3, <2>4 DEF CloserOK
    <2>5. CASE call[p].kind = "close"
      <3>1. closing # "no" /\ MapEntries \subseteq call[p].todo /\ call[p].next = "sweep"
        BY <1>1, <2>1, <2>5 DEF CloserOK
      <3>2. closing' # "no" /\ MapEntries' \subseteq call[p].todo
        BY <3>1, AfterClosing
      <3>3. pc'[p] \in {"dispatch", "await", "sweep"}
        BY <2>1, <3>1
      <3> QED
        BY <2>2, <2>5, <3>1, <3>2, <3>3 DEF CloserOK
    <2> QED
      BY <2>4, <2>5
  <1> QED
    BY <1>2, <1>3 DEF Retirement

\* The snapshots cover the map and m.pending, and once both have been worked off every
\* entry is closed.
LEMMA CloserAdmin ==
  ASSUME IInv, [Next]_vars, NEW p \in Admin, Administer(p)
  PROVE  CloserOK(p)'
  <1> USE DEF Goto
  <1>1. TypeOK /\ CloserOK(p) /\ p \in Process
    BY DEF IInv, CloserInv, Process
  <1>2. ent' = ent /\ entries' = entries /\ pending' = pending /\ MapEntries' = MapEntries
    BY QuietSteps, QuietTables DEF MapEntries
  <1>3. call'[p].kind = call[p].kind
    <2>1. CASE UpdateProfile(p) \/ Invalidate(p) \/ InvalidateAndWait(p) \/ JoinClose(p)
               \/ InvalidateAndWaitWhere(p)
      BY <1>1, <2>1, CallType DEF TypeOK, Call, UpdateProfile, Invalidate, InvalidateAndWait,
            JoinClose, InvalidateAndWaitWhere
    <2>2. CASE Close(p) \/ SweepEntry(p) \/ SweepPending(p)
      BY <1>1, <2>2, CallType DEF TypeOK, Call, Close, SweepEntry, SweepPending
    <2>3. CASE AwaitPending(p) \/ Drain(p) \/ FinishManagerClose(p)
      BY <1>1, <2>3, CallType DEF TypeOK, Call, AwaitPending, Drain, FinishManagerClose
    <2> QED
      BY <2>1, <2>2, <2>3 DEF Administer
  <1>4. ASSUME pc'[p] = "done" PROVE CloserOK(p)'
    BY <1>4 DEF CloserOK
  <1>5. CASE UpdateProfile(p) \/ Invalidate(p) \/ InvalidateAndWait(p)
             \/ InvalidateAndWaitWhere(p)
    <2>1. call[p].kind \in {"update", "await", "where"}
      BY <1>1, <1>5 DEF CloserOK, UpdateProfile, Invalidate, InvalidateAndWait,
            InvalidateAndWaitWhere
    <2>2. pc'[p] = "lookup" => call[p].kind = "update"
      BY <1>1, <1>5 DEF TypeOK, UpdateProfile, Invalidate, InvalidateAndWait,
            InvalidateAndWaitWhere
    <2> QED
      BY <1>3, <2>1, <2>2 DEF CloserOK
  <1>6. CASE Close(p)
    <2>1. CASE closing = "no"
      <3>1. pc'[p] = "sweep" /\ closing' # "no" /\ call'[p].todo = MapEntries
        BY <1>1, <1>6, <2>1, CallType DEF TypeOK, Call, Close
      <3> QED
        BY <1>2, <3>1 DEF CloserOK
    <2>2. CASE closing # "no"
      <3>1. pc'[p] = "joinClose"
        BY <1>1, <1>6, <2>2 DEF TypeOK, Close
      <3> QED
        BY <3>1 DEF CloserOK
    <2> QED
      BY <2>1, <2>2
  <1>7. CASE JoinClose(p) \/ Drain(p) \/ FinishManagerClose(p)
    BY <1>1, <1>4, <1>7 DEF TypeOK, JoinClose, Drain, FinishManagerClose
  <1>8. CASE SweepEntry(p)
    <2>1. PICK e \in call[p].todo :
            /\ call' = [call EXCEPT ![p].todo = @ \ {e}]
            /\ IF Matches(p, e) THEN at' = [at EXCEPT ![p] = e] /\ pc' = [pc EXCEPT ![p] = "retire"]
                                ELSE UNCHANGED <<at, pc>>
            /\ pc[p] = "sweep" /\ closing' = closing
      BY <1>8 DEF SweepEntry, managerVars
    <2>2. call'[p].todo = call[p].todo \ {e}
      BY <1>1, <2>1, CallType DEF TypeOK, Call
    <2>3. CASE call[p].kind = "close"
      <3>1. pc'[p] = "retire" /\ at'[p] = e
        BY <1>1, <2>1, <2>3 DEF TypeOK, Matches
      <3>2. closing # "no" /\ MapEntries \subseteq call[p].todo
        BY <1>1, <2>1, <2>3 DEF CloserOK
      <3>3. MapEntries' \subseteq call'[p].todo \cup {at'[p]}
        BY <1>2, <2>2, <3>1, <3>2
      <3> QED
        BY <2>1, <3>1, <3>2, <3>3 DEF CloserOK
    <2>4. CASE call[p].kind # "close"
      <3>1. pc'[p] # "lookup"
        BY <1>1, <2>1 DEF TypeOK
      <3> QED
        BY <1>3, <2>4, <3>1 DEF CloserOK
    <2> QED
      BY <2>3, <2>4
  <1>9. CASE SweepPending(p)
    <2>1. /\ pc[p] = "sweep" /\ call[p].todo = {} /\ pc'[p] = "pendingSweep"
          /\ call'[p].todo = pending /\ closing' = closing
      BY <1>1, <1>9, CallType DEF TypeOK, Call, SweepPending, managerVars
    <2>2. call[p].kind = "close" => closing # "no" /\ MapEntries \subseteq {}
      BY <1>1, <2>1 DEF CloserOK
    <2> QED
      BY <1>2, <1>3, <2>1, <2>2 DEF CloserOK
  <1>10. CASE AwaitPending(p)
    <2>1. /\ pc[p] = "pendingSweep" /\ pc'[p] = "drain" /\ closing' = closing
          /\ \A e \in call[p].todo : Matches(p, e) => ent[e].life = "finished"
      BY <1>1, <1>10 DEF TypeOK, AwaitPending, managerVars
    <2>2. CASE call[p].kind = "close"
      <3>1. closing # "no" /\ MapEntries = {} /\ pending \subseteq call[p].todo
        BY <1>1, <2>1, <2>2 DEF CloserOK
      <3>2. \A e \in pending : ent[e].life = "finished"
        BY <2>1, <2>2, <3>1 DEF Matches
      <3>3. AllClosed
        <4> SUFFICES ASSUME NEW e \in Entry, ~Free(e) PROVE Closed(e)
          BY DEF AllClosed
        <4>1. Retired(e)
          <5> SUFFICES ASSUME ~Retired(e) PROVE FALSE
            OBVIOUS
          <5>1. ent[e].conn \in Conn
            BY DEF IInv, EntryInv, EntryFits
          <5>2. entries[ent[e].conn] = e
            BY <5>1 DEF IInv, MapHoldsLiveEntries
          <5> QED
            BY <3>1, <5>1, <5>2, DataAssumption DEF MapEntries
        <4> QED
          BY <3>2, <4>1 DEF IInv, PendingTracksCloses, Closed
      <3>4. AllClosed'
        BY <1>2, <3>3 DEF AllClosed, Free, Closed, Retired, Started
      <3> QED
        BY <2>1, <3>1, <3>4 DEF CloserOK
    <2>3. CASE call[p].kind # "close"
      BY <1>3, <2>1, <2>3 DEF CloserOK
    <2> QED
      BY <2>2, <2>3
  <1> QED
    BY <1>5, <1>6, <1>7, <1>8, <1>9, <1>10 DEF Administer

\* Steps of the others leave the records of goroutine p alone.
LEMMA OthersSteps ==
  ASSUME IInv, NEW p \in Admin
  PROVE  /\ \A c \in Caller : Get(c) \/ ContextDone(c) =>
               pc'[p] = pc[p] /\ at'[p] = at[p] /\ call'[p] = call[p]
         /\ \A q \in Process \ {p} : Retirement(q) =>
               pc'[p] = pc[p] /\ at'[p] = at[p] /\ call'[p] = call[p]
         /\ \A q \in Admin \ {p} : Administer(q) =>
               pc'[p] = pc[p] /\ at'[p] = at[p] /\ call'[p] = call[p]
         /\ \A e \in Entry : Background(e) =>
               pc'[p] = pc[p] /\ at'[p] = at[p] /\ call'[p] = call[p]
  <1> USE DEF Goto
  <1>1. TypeOK /\ p \in Process
    BY DEF IInv, Process
  <1>2. ASSUME NEW c \in Caller, Get(c) \/ ContextDone(c)
        PROVE  pc'[p] = pc[p] /\ at'[p] = at[p] /\ call'[p] = call[p]
    <2>1. c \in Process /\ c # p
      BY ProcessAssumption DEF Process
    <2>2. CASE GetClosed(c) \/ GetJoin(c) \/ GetCreate(c) \/ CheckEntry(c) \/ Guard(c)
      BY <1>1, <2>1, <2>2 DEF TypeOK, GetClosed, GetJoin, GetCreate, CheckEntry, Guard, Fail
    <2>3. CASE StartOrJoin(c) \/ AwaitDone(c) \/ Leave(c) \/ ReadResult(c) \/ ContextDone(c)
      BY <1>1, <2>1, <2>3 DEF TypeOK, StartOrJoin, AwaitDone, Leave, ReadResult, ContextDone, Fail
    <2> QED
      BY <1>2, <2>2, <2>3 DEF Get
  <1>3. ASSUME NEW q \in Process \ {p}, Retirement(q)
        PROVE  pc'[p] = pc[p] /\ at'[p] = at[p] /\ call'[p] = call[p]
    BY <1>1, <1>3 DEF TypeOK, Retirement, Retire, Cancel, Dispatch, Await
  <1>4. ASSUME NEW q \in Admin \ {p}, Administer(q)
        PROVE  pc'[p] = pc[p] /\ at'[p] = at[p] /\ call'[p] = call[p]
    <2>1. CASE UpdateProfile(q) \/ Invalidate(q) \/ InvalidateAndWait(q) \/ JoinClose(q)
               \/ InvalidateAndWaitWhere(q) \/ Close(q)
      BY <1>1, <1>4, <2>1 DEF TypeOK, Process, UpdateProfile, Invalidate, InvalidateAndWait,
            JoinClose, InvalidateAndWaitWhere, Close
    <2>2. CASE SweepEntry(q) \/ SweepPending(q) \/ AwaitPending(q) \/ Drain(q)
               \/ FinishManagerClose(q)
      BY <1>1, <1>4, <2>2 DEF TypeOK, Process, SweepEntry, SweepPending, AwaitPending, Drain,
            FinishManagerClose
    <2> QED
      BY <1>4, <2>1, <2>2 DEF Administer
  <1>5. ASSUME NEW e \in Entry, Background(e)
        PROVE  pc'[p] = pc[p] /\ at'[p] = at[p] /\ call'[p] = call[p]
    BY <1>5 DEF Background, Load, Construct, FactoryReturns, CloseProvider, FinishClose
  <1> QED
    BY <1>2, <1>3, <1>4, <1>5

\* Close publishes its result only when every entry is closed.
LEMMA PublishStep ==
  ASSUME IInv, [Next]_vars, closing # "finished", closing' = "finished"
  PROVE  AllClosed'
  <1>1. PICK p \in Admin : FinishManagerClose(p)
    <2>1. \A c \in Caller : Get(c) \/ ContextDone(c) => closing' = closing
      BY DEF Get, GetClosed, GetJoin, GetCreate, CheckEntry, Guard, StartOrJoin, AwaitDone,
            Leave, ReadResult, ContextDone, managerVars
    <2>2. \A p \in Process : Retirement(p) => closing' = closing
      BY DEF Retirement, Retire, Cancel, Dispatch, Await, managerVars
    <2>3. \A e \in Entry : Background(e) => closing' = closing
      BY DEF Background, Load, Construct, FactoryReturns, CloseProvider, FinishClose, managerVars
    <2>4. \A p \in Admin : Administer(p) => closing' # "finished" \/ closing' = closing
                                            \/ FinishManagerClose(p)
      BY DEF Administer, UpdateProfile, Invalidate, InvalidateAndWait, managerVars,
            InvalidateAndWaitWhere, Close, JoinClose, SweepEntry, SweepPending, AwaitPending,
            Drain
    <2> QED
      BY <2>1, <2>2, <2>3, <2>4 DEF Next, Halted, vars
  <1>2. closing # "no" /\ AllClosed
    BY <1>1 DEF IInv, CloserInv, CloserOK, FinishManagerClose
  <1> QED
    BY <1>2, AfterClosing

\* Close keeps its promise to itself, whatever step is taken.
LEMMA CloserStep == ASSUME IInv, [Next]_vars PROVE CloserInv'
  <1>1. closing' = "finished" => AllClosed'
    BY PublishStep, AfterClosing DEF IInv, CloserInv
  <1>2. ASSUME NEW p \in Admin PROVE CloserOK(p)'
    <2>1. CASE Retirement(p) \/ Administer(p)
      BY <2>1, CloserRetirement, CloserAdmin
    <2>2. ASSUME pc'[p] = pc[p], at'[p] = at[p], call'[p] = call[p] PROVE CloserOK(p)'
      BY <2>2, CloserFrame
    <2>3. CASE UNCHANGED vars
      BY <2>2, <2>3 DEF vars
    <2> QED
      BY <2>1, <2>2, <2>3, OthersSteps DEF Next, Halted, Process
  <1> QED
    BY <1>1, <1>2 DEF CloserInv

-----------------------------------------------------------------------------
(* The theorems.                                                            *)

\* The invariant holds in every reachable state, for any callers and administrators.
THEOREM Invariance == Spec => []IInv
  <1>1. Init => IInv
    BY InitIInv
  <1>2. IInv /\ [Next]_vars => IInv'
    <2> SUFFICES ASSUME IInv, [Next]_vars PROVE IInv'
      OBVIOUS
    <2>1. EntryInv'
      BY EntryStep
    <2> QED
      BY <2>1, TypeStep, ControlStep, MapStep, PendingStep, WaitersStep, AbandonStep, CloserStep
         DEF IInv
  <1> QED
    BY <1>1, <1>2, PTL DEF Spec

\* Every variable keeps its type; e.waiters never falls below zero.
THEOREM TypeCorrect == Spec => []TypeOK
  <1>1. IInv => TypeOK
    BY DEF IInv
  <1> QED
    BY <1>1, Invariance, PTL

\* A provider that is open, or that a factory may still return, can be reached from the
\* map or from m.pending, whatever races retire its entry.
THEOREM NoOrphans == Spec => []NoOrphanProvider
  <1>1. IInv => NoOrphanProvider
    <2> SUFFICES ASSUME IInv, NEW e \in Entry,
                        ent[e].prov = "open" \/ ent[e].build \in {"started", "calling"}
                 PROVE  e \in MapEntries \cup pending
      BY DEF NoOrphanProvider
    <2>1. EntryFits(e)
      BY DEF IInv, EntryInv
    <2>2. Started(e) /\ ent[e].life # "finished"
      BY <2>1 DEF EntryFits, Started, Built
    <2>3. ~Free(e) /\ ent[e].conn \in Conn
      BY <2>1, <2>2 DEF EntryFits, Unused, Started
    <2>4. CASE Retired(e)
      BY <2>2, <2>4 DEF IInv, PendingTracksCloses
    <2>5. CASE ~Retired(e)
      <3>1. entries[ent[e].conn] = e
        BY <2>3, <2>5 DEF IInv, MapHoldsLiveEntries
      <3> QED
        BY <2>3, <3>1, DataAssumption DEF MapEntries
    <2> QED
      BY <2>4, <2>5
  <1> QED
    BY <1>1, Invariance, PTL

\* Whoever is the last caller to leave an unfinished entry retires it: no loader and no
\* factory runs for an entry in the map that nobody waits for.
THEOREM NoAbandoned == Spec => []NoAbandonedWork
  <1>1. IInv => NoAbandonedWork
    BY DEF IInv
  <1> QED
    BY <1>1, Invariance, PTL

\* When Close has returned, nothing the manager ever built is open and nothing can be
\* built any more.
THEOREM CloseFinal == Spec => []CloseIsFinal
  <1>1. IInv => CloseIsFinal
    BY DEF IInv, CloserInv, AllClosed, CloseIsFinal
  <1> QED
    BY <1>1, Invariance, PTL

-----------------------------------------------------------------------------
(* The promises.                                                            *)

Holds(c) == pc[c] \in Inside \cup {"read"} \/ (pc[c] = "done" /\ call[c].res = "provider")

\* A caller past the check of its entry has a loaded one, and so has every construction.
Loads ==
    /\ \A e \in Entry : Started(e) => ent[e].load = "loaded"
    /\ \A c \in Caller :
          /\ pc[c] \in {"guard", "begin", "awaitDone", "read"} => ent[at[c]].load = "loaded"
          /\ call[c].kind \in {"get", "getFor"}
          /\ call[c].res = "provider" =>
                pc[c] = "done" /\ at[c] \in Entry /\ ent[at[c]].load = "loaded"
    /\ \A p \in Admin :
          /\ call[p].kind \in AdminKind
          /\ pc[p] \in {"cancel", "dispatch", "await"} => call[p].next # "start"

\* From the check of the configuration on, a GetFor has an entry built from its own.
Supplied ==
    \A c \in Caller : call[c].kind = "getFor" =>
        /\ call[c].want # None
        /\ pc[c] \in {"guard", "begin", "awaitDone", "read"} \/ Served(c, "getFor") =>
              ent[at[c]].cfg = call[c].want

\* The entries a sweep need not look at: loaded, and on another file.
Elsewhere(p, e) == Loaded(e) /\ ~Matches(p, e)

\* The entries that were not closed when the sweep of a file began: each is still to be
\* looked at, or retired, then in m.pending or closed, or known to be elsewhere.
SweepOK(p) ==
    /\ pc[p] \in {"start", "sweep", "retire", "cancel", "dispatch", "await", "pendingSweep",
                  "drain", "done"}
    /\ pc[p] \in {"cancel", "dispatch", "await"} => call[p].next = "sweep"
    /\ call[p].seen \subseteq Entry /\ \A e \in call[p].seen : ~Free(e)
    /\ pc[p] \in {"sweep", "retire", "cancel", "dispatch", "await"} =>
          \A e \in call[p].seen : \/ e \in call[p].todo \/ Retired(e) \/ Elsewhere(p, e)
                                  \/ pc[p] = "retire" /\ at[p] = e
    /\ pc[p] = "pendingSweep" =>
          \A e \in call[p].seen : \/ Elsewhere(p, e) \/ Closed(e)
                                  \/ e \in call[p].todo /\ Retired(e) /\ Started(e)
    /\ pc[p] \in {"drain", "done"} => \A e \in call[p].seen : Elsewhere(p, e) \/ Closed(e)

Sweeps == \A p \in Admin : call[p].kind = "where" => SweepOK(p)

\* An administrator waits for every close that is not to be recorded; nobody loses a failure.
Awaited(e) ==
    \E p \in Admin : Waits(p) /\ at[p] = e /\ pc[p] \in {"cancel", "dispatch", "await"}

Reported ==
    /\ \A e \in Entry :
          ent[e].waited /\ Retired(e) /\ Started(e) /\ ent[e].life # "finished" => Awaited(e)
    /\ \A p \in Admin : pc[p] \in {"start", "joinClose"} => call[p].errs = {}
    /\ CloseFailuresSurface

\* Lookups only: no GetFor puts a configuration of its own into the map.
OnlyGets == \A c \in Caller : GetKinds[c] \subseteq {"get"}

\* An update that has stored its version looks for the entry, or retires it, or there is
\* none built from an older one.
NothingOutdated ==
    /\ \A c \in Caller : call[c].kind = "get" /\ call[c].want = None
    /\ \A p \in Admin : call[p].kind = "update" /\ call[p].want # None =>
          /\ call[p].want <= profile[call[p].conn]
          /\ \A e \in Entry :
                ent[e].load = "loaded" /\ ~Retired(e) /\ ent[e].conn = call[p].conn =>
                    \/ ent[e].cfg >= call[p].want
                    \/ pc[p] = "lookup" \/ (pc[p] = "retire" /\ at[p] = e)
    /\ \A c \in Caller : Holds(c) =>
          /\ ent[at[c]].conn = call[c].conn
          /\ \A v \in call[c].floor :
                v <= profile[call[c].conn] /\ (ent[at[c]].load = "loaded" => ent[at[c]].cfg >= v)

Promises == Loads /\ Supplied /\ Sweeps /\ Reported

-----------------------------------------------------------------------------
(* One step.                                                                *)

\* What an entry has been given it keeps: its configuration, whether its close is waited
\* for, and how the close ended; and only an entry with a configuration is built.
Steady(e) ==
    /\ Loaded(e) => ent'[e].load = ent[e].load /\ ent'[e].cfg = ent[e].cfg
    /\ Retired(e) => ent'[e].waited = ent[e].waited
    /\ ent[e].life \in {"closing", "finished"} => ent'[e].prov = ent[e].prov
    /\ Started(e)' => Started(e) \/ ent[e].load = "loaded"

\* What gives an entry its configuration, its retirement and the end of its close.
Caused(e) ==
    /\ Free(e) => Free(e)' \/ ent'[e].load = "loading" \/ \E c \in Caller : call[c].want # None
    /\ ent[e].load = "loading" /\ ent'[e].load = "loaded" =>
          ent'[e].cfg = profile[ent[e].conn] /\ profile' = profile
    /\ Retired(e)' => \/ Retired(e) \/ ent'[e].waited = FALSE
                      \/ \E p \in Process : Retire(p) /\ at[p] = e /\ Waits(p)
    /\ ent'[e].life = "finished" => ent[e].life = "finished" \/ FinishClose(e)

Same(p) == pc'[p] = pc[p] /\ at'[p] = at[p] /\ call'[p] = call[p]

USE DEF Goto

\* What the others do leaves a caller's place, entry and call alone.
LEMMA CallerApart ==
  ASSUME IInv, NEW p \in Caller
  PROVE  /\ \A c \in Caller \ {p} : Get(c) \/ ContextDone(c) => Same(p)
         /\ \A q \in Process \ {p} : Retirement(q) => Same(p)
         /\ \A q \in Admin : Administer(q) => Same(p)
         /\ \A e \in Entry : Background(e) => Same(p)
  <1>1. TypeOK
    BY DEF IInv
  <1>2. ASSUME NEW c \in Caller \ {p}, Get(c) \/ ContextDone(c) PROVE Same(p)
    <2>1. CASE GetClosed(c)
      BY <1>1, <2>1 DEF GetClosed, CanEnter, TypeOK, Process, Same
    <2>2. CASE GetJoin(c)
      BY <1>1, <2>2 DEF GetJoin, CanEnter, TypeOK, Process, Same
    <2>3. CASE GetCreate(c)
      BY <1>1, <2>3 DEF GetCreate, CanEnter, TypeOK, Process, Same
    <2>4. CASE CheckEntry(c)
      BY <1>1, <2>4 DEF CheckEntry, Fail, TypeOK, Process, Same
    <2>5. CASE Guard(c)
      BY <1>1, <2>5 DEF Guard, Fail, TypeOK, Process, Same
    <2>6. CASE StartOrJoin(c)
      BY <1>1, <2>6 DEF StartOrJoin, Fail, TypeOK, Process, Same
    <2>7. CASE AwaitDone(c)
      BY <1>1, <2>7 DEF AwaitDone, TypeOK, Process, Same
    <2>8. CASE Leave(c)
      BY <1>1, <2>8 DEF Leave, MarkRetired, TypeOK, Process, Same
    <2>9. CASE ReadResult(c)
      BY <1>1, <2>9 DEF ReadResult, TypeOK, Process, Same
    <2>10. CASE ContextDone(c)
      BY <1>1, <2>10 DEF ContextDone, Fail, TypeOK, Process, Same
    <2> QED
      BY <1>2, <2>1, <2>2, <2>3, <2>4, <2>5, <2>6, <2>7, <2>8, <2>9, <2>10 DEF Get
  <1>3. ASSUME NEW q \in Process \ {p}, Retirement(q) PROVE Same(p)
    BY <1>1, <1>3 DEF TypeOK, Retirement, Retire, Cancel, Dispatch, Await, Same, Process
  <1>4. ASSUME NEW q \in Admin, Administer(q) PROVE Same(p)
    <2>1. q \in Process /\ q # p
      BY ProcessAssumption DEF Process
    <2>2. CASE UpdateProfile(q) \/ Invalidate(q) \/ InvalidateAndWait(q) \/ JoinClose(q)
               \/ InvalidateAndWaitWhere(q) \/ Close(q)
      BY <1>1, <2>1, <2>2 DEF TypeOK, UpdateProfile, Invalidate, InvalidateAndWait,
            JoinClose, InvalidateAndWaitWhere, Close, Same, Process
    <2>3. CASE SweepEntry(q) \/ SweepPending(q) \/ AwaitPending(q) \/ Drain(q)
               \/ FinishManagerClose(q)
      BY <1>1, <2>1, <2>3 DEF TypeOK, SweepEntry, SweepPending, AwaitPending, Drain,
            FinishManagerClose, Same, Process
    <2> QED
      BY <1>4, <2>2, <2>3 DEF Administer
  <1>5. ASSUME NEW e \in Entry, Background(e) PROVE Same(p)
    BY <1>5 DEF Background, Load, Construct, FactoryReturns, CloseProvider, FinishClose, Same
  <1> QED
    BY <1>2, <1>3, <1>4, <1>5

\* Whatever step is taken, a process keeps its place, its entry and its call unless it moves itself.
LEMMA Movers ==
  ASSUME IInv, [Next]_vars, NEW p \in Process
  PROVE  \/ p \in Caller /\ (Get(p) \/ ContextDone(p))
         \/ Retirement(p)
         \/ p \in Admin /\ Administer(p)
         \/ Same(p)
  <1>1. CASE p \in Admin
    BY <1>1, OthersSteps DEF Next, Halted, Same, vars, Process
  <1>2. CASE p \in Caller
    BY <1>2, CallerApart DEF Next, Halted, Same, vars, Process
  <1> QED
    BY <1>1, <1>2 DEF Process

\* Marking an entry changes nothing of its configuration or its construction.
LEMMA MarkKeeps ==
  ASSUME TypeOK, NEW e \in Entry, NEW n \in Nat, NEW w \in BOOLEAN,
         MarkRetired(e, [ent[e] EXCEPT !.waiters = n], w)
  PROVE  /\ \A f \in Entry \ {e} : ent'[f] = ent[f]
         /\ ent'[e].load = ent[e].load /\ ent'[e].cfg = ent[e].cfg /\ ent'[e].conn = ent[e].conn
         /\ ent'[e].prov = ent[e].prov /\ ent'[e].build = ent[e].build
         /\ ent'[e].life = "marked" /\ ent'[e].waited = w
  <1>1. ent' = [ent EXCEPT ![e].waiters = n, ![e].life = "marked", ![e].waited = w]
    BY EntryType DEF TypeOK, EntryState, MarkRetired
  <1> QED
    BY <1>1, EntryType DEF TypeOK, EntryState

\* Every step keeps what an entry has been given, and changes the rest for a known cause.
LEMMA Steadiness ==
  ASSUME IInv, Loads, [Next]_vars
  PROVE  \A e \in Entry : Steady(e) /\ Caused(e)
  <1> USE DEF Free, Loaded, Retired, Started, Steady, Caused
  <1>1. /\ TypeOK /\ EntryInv
        /\ \A p \in Process : pc[p] \in Working => at[p] \in Entry /\ ~Free(at[p])
    BY DEF IInv, ControlInv, ControlOK
  <1>2. CASE ent' = ent
    BY <1>2
  <1>3. ASSUME NEW c \in Caller, Get(c) PROVE \A e \in Entry : Steady(e) /\ Caused(e)
    <2>1. c \in Process
      BY DEF Process
    <2>2. CASE GetJoin(c)
      <3>1. entries[call[c].conn] \in Entry
        BY <1>1, <2>1, <2>2, CallType DEF TypeOK, GetJoin
      <3> QED
        BY <1>1, <2>2, <3>1, EntryType DEF TypeOK, GetJoin, EntryState
    <2>3. CASE GetCreate(c)
      <3>1. PICK e \in Entry :
              /\ Free(e)
              /\ ent' = [ent EXCEPT ![e] =
                    [Unused EXCEPT !.conn = call[c].conn, !.cfg = call[c].want,
                                   !.load = IF call[c].want = None THEN "loading" ELSE "loaded",
                                   !.waiters = 1]]
        BY <2>3 DEF GetCreate
      <3>2. ent[e] = Unused /\ \A f \in Entry \ {e} : ent'[f] = ent[f]
        BY <1>1, <3>1 DEF EntryInv, EntryFits, TypeOK
      <3>3. /\ ent'[e].build = "idle" /\ ent'[e].life = "live"
            /\ ent'[e].load = IF call[c].want = None THEN "loading" ELSE "loaded"
        BY <1>1, <3>1 DEF TypeOK, Unused
      <3>4. Steady(e) /\ Caused(e)
        BY <3>2, <3>3 DEF Unused
      <3> QED
        BY <3>2, <3>4
    <2>4. CASE StartOrJoin(c)
      BY <1>1, <2>1, <2>4, EntryType DEF TypeOK, StartOrJoin, EntryState, Loads, Working, Inside
    <2>5. CASE AwaitDone(c)
      BY <1>1, <2>1, <2>5, EntryType DEF TypeOK, AwaitDone, EntryState, Working, Inside
    <2>6. CASE Leave(c)
      <3>1. at[c] \in Entry /\ ent[at[c]].waiters - 1 \in Nat
        BY <2>6, CountedCaller DEF Leave, Inside
      <3>2. CASE MarkRetired(at[c], [ent[at[c]] EXCEPT !.waiters = @ - 1], FALSE)
                 /\ ~Retired(at[c])
        BY <1>1, <3>1, <3>2, MarkKeeps, ZenonT(60)
      <3>3. CASE ent' = [ent EXCEPT ![at[c]] = [ent[at[c]] EXCEPT !.waiters = @ - 1]]
        BY <1>1, <3>1, <3>3, EntryType DEF TypeOK, EntryState
      <3> QED
        BY <2>6, <3>2, <3>3 DEF Leave
    <2> QED
      BY <1>2, <1>3, <2>2, <2>3, <2>4, <2>5, <2>6, QuietSteps DEF Get, QuietGet
  <1>4. ASSUME NEW p \in Process, Retirement(p) PROVE \A e \in Entry : Steady(e) /\ Caused(e)
    <2>1. CASE Retire(p)
      <3>1. at[p] \in Entry /\ ent[at[p]].waiters \in Nat /\ Waits(p) \in BOOLEAN
        BY <1>1, <2>1, EntryType DEF Retire, Working, Waits
      <3>2. ent[at[p]] = [ent[at[p]] EXCEPT !.waiters = ent[at[p]].waiters]
        BY <1>1, <3>1, EntryType DEF EntryState
      <3>3. CASE MarkRetired(at[p], ent[at[p]], Waits(p)) /\ ~Retired(at[p])
        <4>1. /\ \A f \in Entry \ {at[p]} : ent'[f] = ent[f]
              /\ ent'[at[p]].load = ent[at[p]].load /\ ent'[at[p]].cfg = ent[at[p]].cfg
              /\ ent'[at[p]].prov = ent[at[p]].prov /\ ent'[at[p]].build = ent[at[p]].build
              /\ ent'[at[p]].life = "marked"
          BY <1>1, <3>1, <3>2, <3>3, MarkKeeps
        <4>2. ent'[at[p]].waited = FALSE \/ \E q \in Process : Retire(q) /\ at[q] = at[p] /\ Waits(q)
          <5>1. CASE Waits(p)
            BY <2>1, <5>1
          <5>2. CASE ~Waits(p)
            <6>1. ent'[at[p]].waited = Waits(p)
              BY <1>1, <3>1, <3>2, <3>3, MarkKeeps
            <6> QED
              BY <5>2, <6>1
          <5> QED
            BY <5>1, <5>2
        <4>3. PICK e \in Entry : e = at[p]
          BY <3>1
        <4>4. Steady(e) /\ Caused(e)
          BY <3>3, <4>1, <4>2, <4>3
        <4> QED
          BY <4>1, <4>3, <4>4
      <3> QED
        BY <1>2, <2>1, <3>3 DEF Retire
    <2>2. CASE Cancel(p) \/ Dispatch(p)
      BY <1>1, <2>2, EntryType DEF TypeOK, Cancel, Dispatch, EntryState, Working, EntryInv,
            EntryFits, IInv, ControlInv, ControlOK
    <2> QED
      BY <1>2, <1>4, <2>1, <2>2, QuietSteps DEF Retirement
  <1>5. ASSUME NEW e \in Entry, Background(e) PROVE \A f \in Entry : Steady(f) /\ Caused(f)
    <2>1. CASE Load(e)
      BY <1>1, <2>1, EntryType DEF TypeOK, Load, EntryState
    <2>2. CASE Construct(e) \/ FactoryReturns(e)
      BY <1>1, <2>2, EntryType, SMTT(30) DEF TypeOK, Construct, FactoryReturns, EntryState, EntryInv,
            EntryFits, Built
    <2>3. CASE CloseProvider(e) \/ FinishClose(e)
      BY <1>1, <2>3, EntryType DEF TypeOK, CloseProvider, FinishClose, EntryState
    <2> QED
      BY <1>5, <2>1, <2>2, <2>3 DEF Background
  <1> QED
    BY <1>2, <1>3, <1>4, <1>5, QuietSteps DEF Next, QuietGet, vars

-----------------------------------------------------------------------------
(* Configurations.                                                          *)

\* A caller's own step, and the steps of the others, keep its entry loaded.
LEMMA LoadsStep ==
  ASSUME IInv, Loads, [Next]_vars
  PROVE  Loads'
  <1>1. /\ TypeOK /\ \A e \in Entry : Steady(e) /\ Advances(e)
        /\ \A p \in Process : ControlOK(p)
    BY Steadiness, EntryStep DEF IInv, ControlInv
  <1>2. ASSUME NEW e \in Entry, Started(e)' PROVE ent'[e].load = "loaded"
    BY <1>1, <1>2 DEF Loads, Steady, Loaded
  <1>3. ASSUME NEW c \in Caller
        PROVE  /\ pc'[c] \in {"guard", "begin", "awaitDone", "read"} => ent'[at'[c]].load = "loaded"
               /\ call'[c].kind \in {"get", "getFor"}
               /\ call'[c].res = "provider" =>
                     pc'[c] = "done" /\ at'[c] \in Entry /\ ent'[at'[c]].load = "loaded"
    <2>1. c \in Process
      BY DEF Process
    <2>2. /\ pc[c] \in {"guard", "begin", "awaitDone", "read"} =>
                at[c] \in Entry /\ ent[at[c]].load = "loaded"
          /\ call[c].kind \in {"get", "getFor"}
          /\ call[c].res = "provider" =>
                pc[c] = "done" /\ at[c] \in Entry /\ ent[at[c]].load = "loaded"
          /\ pc[c] = "leave" => call[c].next \in {"done", "retire"}
          /\ pc[c] \in Working => at[c] \in Entry
      BY <1>1, <2>1 DEF Loads, ControlOK, Working, Inside
    <2>3. \A e \in Entry : ent[e].load = "loaded" => ent'[e].load = "loaded"
      BY <1>1 DEF Steady, Loaded
    <2>4. CASE Same(c)
      BY <2>2, <2>3, <2>4 DEF Same
    <2>5. CASE Get(c) \/ ContextDone(c)
      <3>1. CASE GetClosed(c) \/ GetJoin(c) \/ GetCreate(c)
        BY <1>1, <2>1, <2>2, <3>1 DEF TypeOK, Call, CanEnter, GetClosed, GetJoin, GetCreate
      <3>2. CASE CheckEntry(c)
        BY <1>1, <2>1, <2>2, <2>3, <3>2 DEF TypeOK, Call, CheckEntry, Fail, Working, Inside
      <3>3. CASE Guard(c) \/ ContextDone(c)
        BY <1>1, <2>1, <2>2, <2>3, <3>3 DEF TypeOK, Call, Guard, ContextDone, Fail
      <3>4. CASE StartOrJoin(c) \/ AwaitDone(c)
        BY <1>1, <2>1, <2>2, <2>3, <3>4 DEF TypeOK, Call, StartOrJoin, AwaitDone, Fail
      <3>5. CASE ReadResult(c)
        BY <1>1, <2>1, <2>2, <2>3, <3>5 DEF TypeOK, Call, ReadResult, Working
      <3>6. CASE Leave(c)
        <4>1. call' = call /\ pc[c] = "leave" /\ pc'[c] \in {"cancel", call[c].next}
          BY <1>1, <2>1, <3>6 DEF TypeOK, Leave
        <4> QED
          BY <2>2, <4>1
      <3> QED
        BY <2>5, <3>1, <3>2, <3>3, <3>4, <3>5, <3>6 DEF Get
    <2>6. CASE Retirement(c)
      <3>1. CASE Retire(c) \/ Await(c)
        BY <1>1, <2>1, <2>2, <3>1, ProcessAssumption
        DEF TypeOK, Call, Retire, Await, Waits, AfterRetire, ControlOK
      <3>2. CASE Cancel(c) \/ Dispatch(c)
        BY <1>1, <2>1, <2>2, <3>2 DEF TypeOK, Call, Cancel, Dispatch, ControlOK
      <3> QED
        BY <2>6, <3>1, <3>2 DEF Retirement
    <2> QED
      BY <2>1, <2>4, <2>5, <2>6, Movers, ProcessAssumption
  <1>4. ASSUME NEW p \in Admin
        PROVE  /\ call'[p].kind \in AdminKind
               /\ pc'[p] \in {"cancel", "dispatch", "await"} => call'[p].next # "start"
    <2>1. /\ p \in Process /\ p \notin Caller /\ call[p].kind \in AdminKind
          /\ pc[p] \in {"cancel", "dispatch", "await"} => call[p].next # "start"
      BY ProcessAssumption DEF Process, Loads
    <2>2. CASE Same(p)
      BY <2>1, <2>2 DEF Same
    <2>3. CASE Retirement(p)
      BY <1>1, <2>1, <2>3 DEF TypeOK, Call, Retirement, Retire, Cancel, Dispatch, Await, Waits, AfterRetire
    <2>4. CASE Administer(p)
      BY <1>1, <2>1, <2>4 DEF TypeOK, Call, Administer, UpdateProfile, Invalidate,
            InvalidateAndWait, InvalidateAndWaitWhere, Close, JoinClose, SweepEntry,
            SweepPending, AwaitPending, Drain, FinishManagerClose
    <2> QED
      BY <2>1, <2>2, <2>3, <2>4, Movers
  <1> QED
    BY <1>2, <1>3, <1>4 DEF Loads

\* A GetFor gets past the check with an entry of its configuration, which no step changes.
LEMMA SuppliedStep ==
  ASSUME IInv, Loads, Supplied, [Next]_vars
  PROVE  Supplied'
  <1>1. /\ TypeOK /\ \A e \in Entry : Steady(e)
        /\ \A p \in Process : ControlOK(p)
    BY Steadiness DEF IInv, ControlInv
  <1> SUFFICES ASSUME NEW c \in Caller, call'[c].kind = "getFor"
               PROVE  /\ call'[c].want # None
                      /\ pc'[c] \in {"guard", "begin", "awaitDone", "read"} \/ Served(c, "getFor")' =>
                            ent'[at'[c]].cfg = call'[c].want
    BY DEF Supplied, Served
  <1>2. c \in Process
    BY DEF Process
  <1>3. /\ pc[c] \in {"guard", "begin", "awaitDone", "read"} \/ Served(c, "getFor") =>
              at[c] \in Entry /\ ent[at[c]].load = "loaded"
        /\ call[c].res = "provider" => pc[c] = "done"
        /\ pc[c] = "leave" => call[c].next \in {"done", "retire"}
        /\ pc[c] \in Working => at[c] \in Entry
    BY <1>1, <1>2 DEF Loads, ControlOK, Working, Inside, Served
  <1>4. \A e \in Entry : ent[e].load = "loaded" => ent'[e].cfg = ent[e].cfg
    BY <1>1 DEF Steady, Loaded
  <1>5. call[c].kind = "getFor" =>
            /\ call[c].want # None
            /\ pc[c] \in {"guard", "begin", "awaitDone", "read"} \/ Served(c, "getFor") =>
                  ent[at[c]].cfg = call[c].want
    BY DEF Supplied
  <1>6. CASE Same(c)
    BY <1>3, <1>4, <1>5, <1>6 DEF Same, Served
  <1>7. CASE Get(c) \/ ContextDone(c)
    <2>1. CASE GetClosed(c) \/ GetJoin(c) \/ GetCreate(c)
      BY <1>1, <1>2, <1>3, <1>5, <2>1 DEF TypeOK, Call, CanEnter, GetClosed, GetJoin, GetCreate, Served
    <2>2. CASE CheckEntry(c)
      BY <1>1, <1>2, <1>3, <1>4, <1>5, <2>2
      DEF TypeOK, Call, CheckEntry, Fail, Working, Inside, Served
    <2>3. CASE Guard(c) \/ ContextDone(c)
      BY <1>1, <1>2, <1>3, <1>4, <1>5, <2>3 DEF TypeOK, Call, Guard, ContextDone, Fail, Served
    <2>4. CASE StartOrJoin(c) \/ AwaitDone(c)
      BY <1>1, <1>2, <1>3, <1>4, <1>5, <2>4 DEF TypeOK, Call, StartOrJoin, AwaitDone, Fail, Served
    <2>5. CASE ReadResult(c)
      BY <1>1, <1>2, <1>3, <1>4, <1>5, <2>5 DEF TypeOK, Call, ReadResult, Served
    <2>6. CASE Leave(c)
      <3>1. call' = call /\ pc[c] = "leave" /\ pc'[c] \in {"cancel", call[c].next}
        BY <1>1, <1>2, <2>6 DEF TypeOK, Leave
      <3> QED
        BY <1>3, <1>5, <3>1 DEF Served
    <2> QED
      BY <1>7, <2>1, <2>2, <2>3, <2>4, <2>5, <2>6 DEF Get
  <1>8. CASE Retirement(c)
    BY <1>1, <1>2, <1>3, <1>5, <1>8, ProcessAssumption
    DEF TypeOK, Call, Retirement, Retire, Cancel, Dispatch, Await, Waits, AfterRetire, ControlOK, Served
  <1> QED
    BY <1>2, <1>6, <1>7, <1>8, Movers, ProcessAssumption

-----------------------------------------------------------------------------
(* Sweeps.                                                                  *)

\* What the sweep of p knows of an entry stays true while p keeps its arguments.
LEMMA KnownEntries ==
  ASSUME IInv, Loads, [Next]_vars, NEW p \in Admin, call[p].kind = "where",
         call'[p].kind = "where", call'[p].file = call[p].file, NEW e \in Entry
  PROVE  /\ ~Free(e) => ~Free(e)'
         /\ Retired(e) => Retired(e)'
         /\ Retired(e) /\ Started(e) => Started(e)'
         /\ Elsewhere(p, e) => Elsewhere(p, e)'
         /\ Closed(e) => Closed(e)'
  <1>1. Steady(e) /\ Advances(e)
    BY Steadiness, EntryStep
  <1>2. Elsewhere(p, e) => Elsewhere(p, e)'
    BY <1>1 DEF Elsewhere, Matches, Loaded, Steady, Advances, Free
  <1> QED
    BY <1>1, <1>2 DEF Advances, Closed

\* Nothing escapes the sweep of a file: an entry is in the snapshot of the map, or retired
\* already and then in the snapshot of m.pending that is taken afterwards.
LEMMA SweepsStep ==
  ASSUME IInv, Loads, Sweeps, [Next]_vars
  PROVE  Sweeps'
  <1> SUFFICES ASSUME NEW p \in Admin, call'[p].kind = "where" PROVE SweepOK(p)'
    BY DEF Sweeps
  <1>1. TypeOK /\ p \in Process /\ p \notin Caller /\ ControlOK(p)
    BY ProcessAssumption DEF IInv, ControlInv, Process
  <1>2. call[p].kind = "where" /\ call'[p].file = call[p].file
    <2>1. Same(p) \/ Retirement(p) \/ Administer(p)
      BY <1>1, Movers
    <2>2. CASE Retirement(p)
      BY <1>1, <2>2 DEF TypeOK, Call, Retirement, Retire, Cancel, Dispatch, Await
    <2>3. CASE Administer(p)
      BY <1>1, <2>3 DEF TypeOK, Call, Administer, UpdateProfile, Invalidate, InvalidateAndWait,
            InvalidateAndWaitWhere, Close, JoinClose, SweepEntry, SweepPending, AwaitPending,
            Drain, FinishManagerClose
    <2> QED
      BY <2>1, <2>2, <2>3 DEF Same
  <1>3. SweepOK(p)
    BY <1>2 DEF Sweeps
  <1>4. \A e \in Entry : /\ ~Free(e) => ~Free(e)'
                         /\ Retired(e) => Retired(e)'
                         /\ Retired(e) /\ Started(e) => Started(e)'
                         /\ Elsewhere(p, e) => Elsewhere(p, e)'
                         /\ Closed(e) => Closed(e)'
    BY <1>2, KnownEntries
  <1>5. CASE Same(p)
    BY <1>3, <1>4, <1>5 DEF SweepOK, Same
  <1>6. CASE Retirement(p)
    <2>1. /\ call'[p].todo = call[p].todo /\ call'[p].seen = call[p].seen /\ at' = at
          /\ pc'[p] \in {"sweep", "cancel", "dispatch", "await"}
          /\ pc'[p] \in {"cancel", "dispatch", "await"} => call'[p].next = "sweep"
          /\ pc[p] \in {"retire", "cancel", "dispatch", "await"}
      <3>1. CASE Retire(p)
        BY <1>1, <1>2, <3>1 DEF TypeOK, Call, Retire, AfterRetire
      <3>2. CASE Cancel(p)
        BY <1>1, <1>3, <3>2 DEF TypeOK, Cancel, SweepOK
      <3>3. CASE Dispatch(p)
        BY <1>1, <1>3, <3>3 DEF TypeOK, Dispatch, SweepOK
      <3>4. CASE Await(p)
        BY <1>1, <1>3, <3>4 DEF TypeOK, Call, Await, SweepOK
      <3> QED
        BY <1>6, <3>1, <3>2, <3>3, <3>4 DEF Retirement
    <2>2. ASSUME NEW e \in Entry, pc[p] = "retire", at[p] = e PROVE Retired(e)'
      <3>1. Retire(p)
        BY <1>6, <2>2 DEF Retirement, Cancel, Dispatch, Await
      <3>2. CASE Retired(e)
        BY <1>4, <3>2
      <3>3. CASE ~Retired(e)
        <4>1. MarkRetired(e, ent[e], Waits(p))
          BY <2>2, <3>1, <3>3 DEF Retire
        <4>2. ent'[e] = [ent[e] EXCEPT !.life = "marked", !.waited = Waits(p)]
          BY <1>1, <4>1 DEF MarkRetired, TypeOK
        <4>3. ent'[e].life = "marked"
          BY <1>1, <4>2, EntryType DEF EntryState
        <4> QED
          BY <4>3 DEF Retired
      <3> QED
        BY <3>2, <3>3
    <2> QED
      BY <1>3, <1>4, <2>1, <2>2 DEF SweepOK
  <1>7. CASE Administer(p)
    <2>1. ent' = ent /\ entries' = entries /\ pending' = pending
      BY <1>7, QuietSteps, QuietTables
    <2>2. CASE InvalidateAndWaitWhere(p)
      <3>1. /\ pc'[p] = "sweep" /\ call'[p].todo = MapEntries /\ call'[p].seen = Unclosed
        BY <1>1, <2>2 DEF TypeOK, Call, InvalidateAndWaitWhere
      <3>2. \A e \in Unclosed : e \in Entry /\ ~Free(e) /\ (e \in MapEntries \/ Retired(e))
        <4> SUFFICES ASSUME NEW e \in Entry, ~Free(e), ~Retired(e) PROVE e \in MapEntries
          BY DEF Unclosed
        <4>1. ent[e].conn \in Conn
          BY DEF IInv, EntryInv, EntryFits
        <4>2. entries[ent[e].conn] = e /\ e # None
          BY <4>1, DataAssumption DEF IInv, MapHoldsLiveEntries
        <4> QED
          BY <4>1, <4>2 DEF MapEntries
      <3> QED
        BY <1>4, <3>1, <3>2 DEF SweepOK
    <2>3. CASE SweepEntry(p)
      <3>1. PICK e \in call[p].todo :
              /\ Loaded(e)
              /\ call' = [call EXCEPT ![p].todo = @ \ {e}]
              /\ IF Matches(p, e) THEN at' = [at EXCEPT ![p] = e] /\ pc' = [pc EXCEPT ![p] = "retire"]
                                  ELSE UNCHANGED <<at, pc>>
        BY <1>2, <2>3 DEF SweepEntry
      <3>2. /\ call'[p].todo = call[p].todo \ {e} /\ call'[p].seen = call[p].seen
            /\ e \in Entry /\ pc[p] = "sweep"
        BY <1>1, <2>3, <3>1 DEF TypeOK, Call, SweepEntry
      <3>3. CASE Matches(p, e)
        BY <1>1, <1>3, <1>4, <3>1, <3>2, <3>3 DEF TypeOK, SweepOK
      <3>4. CASE ~Matches(p, e)
        <4>1. Elsewhere(p, e)'
          BY <1>4, <3>1, <3>2, <3>4 DEF Elsewhere
        <4> QED
          BY <1>1, <1>3, <1>4, <3>1, <3>2, <3>4, <4>1 DEF TypeOK, SweepOK
      <3> QED
        BY <3>3, <3>4
    <2>4. CASE SweepPending(p)
      <3>1. /\ pc[p] = "sweep" /\ call[p].todo = {} /\ pc'[p] = "pendingSweep"
            /\ call'[p].todo = pending /\ call'[p].seen = call[p].seen
        BY <1>1, <2>4 DEF TypeOK, Call, SweepPending
      <3>2. \A e \in Entry : Retired(e) => Closed(e) \/ (e \in pending /\ Started(e))
        BY DEF IInv, PendingTracksCloses, Closed
      <3> QED
        BY <1>3, <1>4, <3>1, <3>2 DEF SweepOK
    <2>5. CASE AwaitPending(p)
      <3>1. /\ pc[p] = "pendingSweep" /\ pc'[p] = "drain" /\ call'[p].seen = call[p].seen
            /\ \A e \in call[p].todo : Matches(p, e) => ent[e].life = "finished"
        BY <1>1, <2>5 DEF TypeOK, Call, AwaitPending
      <3>2. \A e \in Entry : Started(e) => Loaded(e)
        BY DEF Loads, Loaded
      <3>3. \A e \in call[p].seen : Elsewhere(p, e) \/ Closed(e)
        BY <1>3, <3>1, <3>2 DEF SweepOK, Elsewhere, Closed
      <3> QED
        BY <1>3, <1>4, <3>1, <3>3 DEF SweepOK
    <2>6. CASE Drain(p)
      <3>1. pc[p] = "drain" /\ pc'[p] = "done" /\ call'[p].seen = call[p].seen
        BY <1>1, <2>6 DEF TypeOK, Call, Drain
      <3> QED
        BY <1>3, <1>4, <3>1 DEF SweepOK
    <2> QED
      BY <1>2, <1>3, <1>7, <2>2, <2>3, <2>4, <2>5, <2>6
      DEF Administer, UpdateProfile, Invalidate, InvalidateAndWait, Close, JoinClose,
          FinishManagerClose, SweepOK
  <1> QED
    BY <1>1, <1>5, <1>6, <1>7, Movers

-----------------------------------------------------------------------------
(* Failures.                                                                *)

\* An administrator on its way to a close comes to wait for it, and leaves with its failure.
LEMMA AwaiterSteps ==
  ASSUME IInv, Loads, [Next]_vars, NEW p \in Admin, Waits(p),
         pc[p] \in {"cancel", "dispatch", "await"}, Started(at[p]), ent[at[p]].waited
  PROVE  /\ Waits(p)' /\ at'[p] = at[p] /\ call[p].errs \subseteq call'[p].errs
         /\ \/ pc'[p] \in {"cancel", "dispatch", "await"}
            \/ /\ pc[p] = "await" /\ ent[at[p]].life = "finished"
               /\ Failing(at[p]) => at[p] \in call'[p].errs
  <1>1. TypeOK /\ p \in Process /\ p \notin Caller
    BY ProcessAssumption DEF IInv, Process
  <1>2. CASE Same(p)
    BY <1>2 DEF Same, Waits
  <1>3. CASE Cancel(p) \/ Dispatch(p)
    BY <1>1, <1>3 DEF TypeOK, Cancel, Dispatch, Waits
  <1>4. CASE Await(p)
    BY <1>1, <1>4 DEF TypeOK, Call, Await, Waits
  <1> QED
    BY <1>1, <1>2, <1>3, <1>4, Movers
    DEF Retirement, Retire, Administer, UpdateProfile, Invalidate, InvalidateAndWait,
        InvalidateAndWaitWhere, Close, JoinClose, SweepEntry, SweepPending, AwaitPending,
        Drain, FinishManagerClose

\* Failures that an administrator has it keeps, and it starts without any.
LEMMA ErrorsKept ==
  ASSUME IInv, Loads, Reported, [Next]_vars, NEW p \in Admin
  PROVE  /\ call[p].errs \subseteq call'[p].errs
         /\ pc'[p] \in {"start", "joinClose"} => call'[p].errs = {}
  <1>1. /\ TypeOK /\ p \in Process /\ p \notin Caller
        /\ pc[p] \in {"start", "joinClose"} => call[p].errs = {}
        /\ pc[p] \in {"cancel", "dispatch", "await"} => call[p].next # "start"
        /\ pc[p] \in {"cancel", "dispatch", "await"} =>
              call[p].next \in {"done", "retire", "start", "drain", "sweep"}
    BY ProcessAssumption DEF IInv, Process, Reported, Loads, ControlInv, ControlOK
  <1>2. CASE Same(p)
    BY <1>1, <1>2 DEF Same
  <1>3. CASE Retirement(p)
    BY <1>1, <1>3 DEF TypeOK, Call, Retirement, Retire, Cancel, Dispatch, Await, Waits, AfterRetire
  <1>4. CASE Administer(p)
    BY <1>1, <1>4 DEF TypeOK, Call, Administer, UpdateProfile, Invalidate, InvalidateAndWait,
          InvalidateAndWaitWhere, Close, JoinClose, SweepEntry, SweepPending, AwaitPending,
          Drain, FinishManagerClose
  <1> QED
    BY <1>1, <1>2, <1>3, <1>4, Movers

\* A record leaves retireErrs only into the hands of an administrator.
LEMMA RecordsKept ==
  ASSUME IInv, [Next]_vars, NEW e \in retireErrs
  PROVE  e \in retireErrs' \/ \E p \in Admin : e \in call'[p].errs
  <1>1. ASSUME NEW p \in Admin, Administer(p)
        PROVE  e \in retireErrs' \/ \E q \in Admin : e \in call'[q].errs
    <2>1. CASE Drain(p)
      BY <2>1 DEF IInv, TypeOK, Call, Process, Drain
    <2> QED
      BY <1>1, <2>1 DEF Administer, UpdateProfile, Invalidate, InvalidateAndWait, managerVars,
            InvalidateAndWaitWhere, Close, JoinClose, SweepEntry, SweepPending, AwaitPending,
            FinishManagerClose
  <1>2. ASSUME NEW c \in Caller, Get(c) \/ ContextDone(c) PROVE retireErrs' = retireErrs
    BY <1>2 DEF Get, GetClosed, GetJoin, GetCreate, CheckEntry, Guard, StartOrJoin, AwaitDone,
          Leave, ReadResult, ContextDone, managerVars
  <1>3. ASSUME NEW p \in Process, Retirement(p) PROVE retireErrs' = retireErrs
    BY <1>3 DEF Retirement, Retire, Cancel, Dispatch, Await, managerVars
  <1>4. ASSUME NEW f \in Entry, Background(f) PROVE retireErrs \subseteq retireErrs'
    BY <1>4 DEF Background, Load, Construct, FactoryReturns, CloseProvider, FinishClose,
          managerVars
  <1> QED
    BY <1>1, <1>2, <1>3, <1>4 DEF Next, Halted, vars

\* A close that is not to be recorded has an administrator waiting for it, who takes its
\* failure along; the failure of any other close is recorded when it is published.
LEMMA ReportedStep ==
  ASSUME IInv, Loads, Reported, [Next]_vars
  PROVE  Reported'
  <1>1. /\ TypeOK /\ \A p \in Process : ControlOK(p)
        /\ \A e \in Entry : Steady(e) /\ Caused(e) /\ Advances(e)
    BY Steadiness, EntryStep DEF IInv, ControlInv
  <1>2. ASSUME NEW e \in Entry, ent'[e].waited, Retired(e)', Started(e)', ent'[e].life # "finished"
        PROVE  Awaited(e)'
    <2>1. CASE Retired(e)
      <3>1. ent[e].waited /\ Started(e) /\ ent[e].life # "finished"
        BY <1>1, <1>2, <2>1 DEF Steady, Advances
      <3>2. PICK p \in Admin : Waits(p) /\ at[p] = e /\ pc[p] \in {"cancel", "dispatch", "await"}
        BY <2>1, <3>1 DEF Reported, Awaited
      <3>3. Waits(p)' /\ at'[p] = e /\ pc'[p] \in {"cancel", "dispatch", "await"}
        BY <3>1, <3>2, AwaiterSteps
      <3> QED
        BY <3>3 DEF Awaited
    <2>2. CASE ~Retired(e)
      <3>1. PICK p \in Process : Retire(p) /\ at[p] = e /\ Waits(p)
        BY <1>1, <1>2, <2>2 DEF Caused
      <3>2. p \in Admin
        BY <3>1 DEF Process, Waits, Loads
      <3>3. pc'[p] = "cancel" /\ at'[p] = e /\ call'[p].kind = call[p].kind
        BY <1>1, <2>2, <3>1 DEF TypeOK, Call, Retire
      <3> QED
        BY <3>1, <3>2, <3>3 DEF Awaited, Waits
    <2> QED
      BY <2>1, <2>2
  <1>3. ASSUME NEW e \in Entry, Failing(e)', ent'[e].life = "finished"
        PROVE  \/ e \in retireErrs'
               \/ \E p \in Admin : \/ e \in call'[p].errs
                                   \/ pc'[p] = "await" /\ at'[p] = e /\ Waits(p)'
    <2>1. CASE ent[e].life = "finished"
      <3>1. Failing(e)
        BY <1>1, <1>3, <2>1 DEF Steady, Failing
      <3>2. \/ e \in retireErrs
            \/ \E p \in Admin : \/ e \in call[p].errs
                                \/ pc[p] = "await" /\ at[p] = e /\ Waits(p)
        BY <2>1, <3>1 DEF Reported, CloseFailuresSurface
      <3>3. CASE e \in retireErrs
        BY <3>3, RecordsKept
      <3>4. ASSUME NEW p \in Admin, e \in call[p].errs PROVE e \in call'[p].errs
        BY <3>4, ErrorsKept
      <3>5. ASSUME NEW p \in Admin, pc[p] = "await", at[p] = e, Waits(p)
            PROVE  \/ e \in call'[p].errs
                   \/ pc'[p] = "await" /\ at'[p] = e /\ Waits(p)'
        <4>1. p \in Process /\ p \notin Caller
          BY ProcessAssumption DEF Process
        <4>2. CASE Same(p)
          BY <3>5, <4>2 DEF Same, Waits
        <4>3. CASE Await(p)
          BY <1>1, <3>1, <3>5, <4>1, <4>3 DEF TypeOK, Call, Await
        <4> QED
          BY <3>5, <4>1, <4>2, <4>3, Movers
          DEF Retirement, Retire, Cancel, Dispatch, Administer, UpdateProfile, Invalidate,
              InvalidateAndWait, InvalidateAndWaitWhere, Close, JoinClose, SweepEntry,
              SweepPending, AwaitPending, Drain, FinishManagerClose
      <3> QED
        BY <3>2, <3>3, <3>4, <3>5
    <2>2. CASE ent[e].life # "finished"
      <3>1. FinishClose(e)
        BY <1>1, <1>3, <2>2 DEF Caused
      <3>2. ent[e].life = "closing" /\ Failing(e) /\ Started(e) /\ Retired(e)
        <4>1. ent[e].life = "closing"
          BY <3>1 DEF FinishClose
        <4>2. Built(e)
          BY <4>1 DEF IInv, EntryInv, EntryFits
        <4> QED
          BY <1>1, <1>3, <4>1, <4>2 DEF Steady, Failing, Built, Started, Retired
      <3>3. CASE ~ent[e].waited
        BY <3>1, <3>2, <3>3 DEF FinishClose
      <3>4. CASE ent[e].waited
        <4>1. PICK p \in Admin : Waits(p) /\ at[p] = e /\ pc[p] \in {"cancel", "dispatch", "await"}
          BY <3>2, <3>4 DEF Reported, Awaited
        <4>2. pc[p] = "await"
          BY <1>1, <3>2, <4>1 DEF ControlOK, Process
        <4> QED
          BY <3>1, <4>1, <4>2 DEF FinishClose, Waits
      <3> QED
        BY <3>3, <3>4
    <2> QED
      BY <2>1, <2>2
  <1>4. CloseFailuresSurface'
    BY <1>3 DEF CloseFailuresSurface
  <1> QED
    BY <1>2, <1>4, ErrorsKept DEF Reported

-----------------------------------------------------------------------------
(* Updates.                                                                 *)

\* The store only moves forward, one version at a time.
LEMMA ProfileGrows ==
  ASSUME IInv, [Next]_vars, NEW k \in Conn
  PROVE  profile[k] \in Nat /\ profile'[k] \in Nat /\ profile[k] <= profile'[k]
  <1>1. TypeOK /\ TypeOK' /\ Version \subseteq Nat
    BY TypeStep, DataAssumption DEF IInv, Version
  <1>2. CASE \E p \in Admin : UpdateProfile(p)
    BY <1>1, <1>2, CallType DEF TypeOK, UpdateProfile, Process
  <1>3. CASE profile' = profile
    <2>1. profile[k] \in Nat
      BY <1>1 DEF TypeOK
    <2> QED
      BY <1>3, <2>1
  <1>4. ASSUME NEW c \in Caller, Get(c) \/ ContextDone(c) PROVE profile' = profile
    BY <1>4 DEF Get, GetClosed, GetJoin, GetCreate, CheckEntry, Guard, StartOrJoin, AwaitDone,
          Leave, ReadResult, ContextDone
  <1>5. ASSUME NEW p \in Process, Retirement(p) PROVE profile' = profile
    BY <1>5 DEF Retirement, Retire, Cancel, Dispatch, Await
  <1>6. ASSUME NEW e \in Entry, Background(e) PROVE profile' = profile
    BY <1>6 DEF Background, Load, Construct, FactoryReturns, CloseProvider, FinishClose
  <1>7. ASSUME NEW p \in Admin, Administer(p) PROVE UpdateProfile(p) \/ profile' = profile
    BY <1>7 DEF Administer, Invalidate, InvalidateAndWait, InvalidateAndWaitWhere, Close,
          JoinClose, SweepEntry, SweepPending, AwaitPending, Drain, FinishManagerClose
  <1> QED
    BY <1>2, <1>3, <1>4, <1>5, <1>6, <1>7 DEF Next, Halted, vars

\* A version that an update stored is a number the store has reached.
LEMMA StoredVersion ==
  ASSUME IInv, NothingOutdated, NEW p \in Admin, call[p].kind = "update", call[p].want # None
  PROVE  call[p].want \in Nat /\ call[p].want <= profile[call[p].conn]
  BY DataAssumption, CallType DEF IInv, NothingOutdated, Process, Version

\* Only a load of the stored profile gives an entry its configuration: whatever the store
\* held before, the configuration is as new, and an entry that has one keeps it.
LEMMA ConfigSteps ==
  ASSUME IInv, Loads, NothingOutdated, [Next]_vars, NEW e \in Entry, ent'[e].load = "loaded"
  PROVE  /\ ~Free(e) /\ ent'[e].conn = ent[e].conn
         /\ \/ ent[e].load = "loaded" /\ ent'[e].cfg = ent[e].cfg
            \/ ent'[e].cfg = profile'[ent[e].conn]
  <1>1. Steady(e) /\ Caused(e) /\ Advances(e) /\ ent[e].load \in LoadState
    BY Steadiness, EntryStep, EntryType DEF IInv
  <1>2. ~Free(e)
    BY <1>1 DEF Caused, Free, NothingOutdated
  <1> QED
    BY <1>1, <1>2 DEF Steady, Caused, Advances, Loaded, Free, LoadState

\* An update keeps its word: from the store on until it has looked for the entry, and
\* retired what it found.
LEMMA UpdatesStep ==
  ASSUME IInv, Loads, NothingOutdated, [Next]_vars, NEW p \in Admin,
         call'[p].kind = "update", call'[p].want # None
  PROVE  /\ call'[p].want <= profile'[call'[p].conn]
         /\ \A e \in Entry :
               ent'[e].load = "loaded" /\ ~Retired(e)' /\ ent'[e].conn = call'[p].conn =>
                   \/ ent'[e].cfg >= call'[p].want
                   \/ pc'[p] = "lookup" \/ (pc'[p] = "retire" /\ at'[p] = e)
  <1>1. /\ TypeOK /\ p \in Process /\ p \notin Caller /\ call[p].conn \in Conn
        /\ \A e \in Entry : Advances(e)
    BY ProcessAssumption, EntryStep, CallType DEF IInv, Process
  <1>2. CASE UpdateProfile(p)
    <2>1. /\ pc'[p] = "lookup" /\ call'[p].conn = call[p].conn
          /\ call'[p].want = profile'[call[p].conn]
      BY <1>1, <1>2 DEF TypeOK, Call, UpdateProfile
    <2> QED
      BY <1>1, <2>1, ProfileGrows
  <1>3. ASSUME call'[p].want = call[p].want, call'[p].kind = call[p].kind,
               call'[p].conn = call[p].conn,
               \A e \in Entry :
                  /\ ent[e].load = "loaded" /\ ~Retired(e) /\ ~Retired(e)'
                  /\ ent[e].conn = call[p].conn
                  /\ pc[p] = "lookup" \/ (pc[p] = "retire" /\ at[p] = e)
                  => pc'[p] = "lookup" \/ (pc'[p] = "retire" /\ at'[p] = e)
        PROVE  /\ call'[p].want <= profile'[call'[p].conn]
               /\ \A e \in Entry :
                     ent'[e].load = "loaded" /\ ~Retired(e)' /\ ent'[e].conn = call'[p].conn =>
                         \/ ent'[e].cfg >= call'[p].want
                         \/ pc'[p] = "lookup" \/ (pc'[p] = "retire" /\ at'[p] = e)
    <2>1. call[p].want \in Nat /\ call[p].want <= profile[call[p].conn]
      BY <1>3, StoredVersion
    <2>2. call[p].want <= profile'[call[p].conn]
      BY <1>1, <2>1, ProfileGrows
    <2>3. ASSUME NEW e \in Entry, ent'[e].load = "loaded", ~Retired(e)', ent'[e].conn = call[p].conn
          PROVE  \/ ent'[e].cfg >= call[p].want
                 \/ pc'[p] = "lookup" \/ (pc'[p] = "retire" /\ at'[p] = e)
      <3>1. ent[e].conn = call[p].conn /\ ~Retired(e)
        BY <1>1, <2>3, ConfigSteps DEF Advances
      <3>2. CASE ent'[e].cfg = profile'[ent[e].conn]
        <4>1. profile'[call[p].conn] \in Nat
          BY <1>1, ProfileGrows
        <4> QED
          BY <2>1, <2>2, <3>1, <3>2, <4>1
      <3>3. CASE ent[e].load = "loaded" /\ ent'[e].cfg = ent[e].cfg
        BY <1>3, <2>3, <3>1, <3>3 DEF NothingOutdated
      <3> QED
        BY <2>3, <3>2, <3>3, ConfigSteps
    <2> QED
      BY <1>3, <2>2, <2>3
  <1>4. CASE Same(p)
    BY <1>3, <1>4 DEF Same
  <1>5. CASE Retire(p)
    <2>1. call'[p].want = call[p].want /\ call'[p].kind = call[p].kind /\ call'[p].conn = call[p].conn
      BY <1>1, <1>5 DEF TypeOK, Call, Retire
    <2>2. ASSUME NEW e \in Entry, ~Retired(e), ~Retired(e)' PROVE at[p] # e
      <3>1. SUFFICES ASSUME at[p] = e PROVE FALSE
        OBVIOUS
      <3>2. MarkRetired(e, ent[e], Waits(p))
        BY <1>5, <2>2, <3>1 DEF Retire
      <3>3. ent'[e] = [ent[e] EXCEPT !.life = "marked", !.waited = Waits(p)]
        BY <1>1, <3>2 DEF MarkRetired, TypeOK
      <3>4. ent'[e].life = "marked"
        BY <1>1, <3>3, EntryType DEF EntryState
      <3> QED
        BY <2>2, <3>4 DEF Retired
    <2>3. pc[p] = "retire"
      BY <1>5 DEF Retire
    <2> QED
      BY <1>3, <2>1, <2>2, <2>3
  <1>6. CASE Cancel(p) \/ Dispatch(p) \/ Await(p)
    <2>1. /\ call'[p].want = call[p].want /\ call'[p].kind = call[p].kind
          /\ call'[p].conn = call[p].conn /\ pc[p] \in {"cancel", "dispatch", "await"}
      BY <1>1, <1>6 DEF TypeOK, Call, Cancel, Dispatch, Await
    <2> QED
      BY <1>3, <2>1
  <1>7. CASE Invalidate(p)
    <2>1. call' = call /\ pc[p] = "lookup" /\ ent' = ent
      BY <1>7 DEF Invalidate
    <2>2. ASSUME NEW e \in Entry, ent[e].load = "loaded", ~Retired(e), ent[e].conn = call[p].conn
          PROVE  pc'[p] = "retire" /\ at'[p] = e
      <3>1. entries[call[p].conn] = e /\ e # None
        BY <1>1, <2>2, DataAssumption DEF IInv, MapHoldsLiveEntries, Free
      <3> QED
        BY <1>1, <1>7, <3>1 DEF TypeOK, Invalidate
    <2> QED
      BY <1>3, <2>1, <2>2
  <1>8. CASE Administer(p) /\ ~UpdateProfile(p) /\ ~Invalidate(p)
    <2>1. /\ call'[p].want = call[p].want /\ call'[p].kind = call[p].kind
          /\ call'[p].conn = call[p].conn /\ pc[p] \notin {"lookup", "retire"}
      BY <1>1, <1>8 DEF TypeOK, Call, Administer, InvalidateAndWait,
            InvalidateAndWaitWhere, Close, JoinClose, SweepEntry, SweepPending, AwaitPending,
            Drain, FinishManagerClose
    <2> QED
      BY <1>3, <2>1
  <1> QED
    BY <1>1, <1>2, <1>4, <1>5, <1>6, <1>7, <1>8, Movers DEF Retirement

\* A caller takes an entry that no finished update condemns, and what it may rely on from
\* then on cannot be taken back.
LEMMA HoldersStep ==
  ASSUME IInv, Loads, NothingOutdated, [Next]_vars, NEW c \in Caller
  PROVE  /\ call'[c].kind = "get" /\ call'[c].want = None
         /\ Holds(c)' =>
               /\ ent'[at'[c]].conn = call'[c].conn
               /\ \A v \in call'[c].floor :
                     /\ v <= profile'[call'[c].conn]
                     /\ ent'[at'[c]].load = "loaded" => ent'[at'[c]].cfg >= v
  <1>1. /\ TypeOK /\ c \in Process /\ call[c].conn \in Conn /\ call[c].floor \subseteq Nat
        /\ \A e \in Entry : Advances(e)
        /\ Holds(c) => at[c] \in Entry /\ ~Free(at[c])
        /\ pc[c] \in Working => at[c] \in Entry /\ ~Free(at[c])
    <2>1. TypeOK /\ c \in Process /\ ControlOK(c) /\ \A e \in Entry : Advances(e)
      BY EntryStep DEF IInv, ControlInv, Process
    <2>2. call[c].conn \in Conn /\ call[c].floor \subseteq Nat
      BY <2>1, DataAssumption DEF TypeOK, Call, Version
    <2> QED
      BY <2>1, <2>2 DEF ControlOK, Holds, Working, Inside, Loads, Free
  <1>2. call[c].kind = "get" /\ call[c].want = None /\ call[c].res \in Results
    BY <1>1 DEF NothingOutdated, TypeOK, Call
  <1>3. ASSUME Holds(c), at'[c] = at[c], call'[c].conn = call[c].conn, call'[c].floor = call[c].floor
        PROVE  /\ ent'[at'[c]].conn = call'[c].conn
               /\ \A v \in call'[c].floor :
                     /\ v <= profile'[call'[c].conn]
                     /\ ent'[at'[c]].load = "loaded" => ent'[at'[c]].cfg >= v
    <2>1. PICK e \in Entry : e = at[c] /\ ~Free(e) /\ ent[e].conn = call[c].conn /\ Advances(e)
      BY <1>1, <1>3 DEF NothingOutdated
    <2>2. ent'[e].conn = call[c].conn
      BY <2>1 DEF Advances
    <2>3. ASSUME NEW v \in call[c].floor
          PROVE  v <= profile'[call[c].conn] /\ (ent'[e].load = "loaded" => ent'[e].cfg >= v)
      <3>1. /\ v \in Nat /\ v <= profile[call[c].conn]
            /\ ent[e].load = "loaded" => ent[e].cfg >= v
        BY <1>1, <1>3, <2>1 DEF NothingOutdated
      <3>2. v <= profile'[call[c].conn] /\ profile'[call[c].conn] \in Nat
        BY <1>1, <3>1, ProfileGrows
      <3> QED
        BY <2>1, <3>1, <3>2, ConfigSteps
    <2> QED
      BY <1>3, <2>1, <2>2, <2>3
  <1>4. CASE Same(c)
    BY <1>2, <1>3, <1>4 DEF Same, Holds
  <1>5. CASE GetJoin(c)
    <2>1. PICK e \in Entry : e = entries[call[c].conn]
      BY <1>1, <1>5 DEF TypeOK, GetJoin
    <2>2. ~Free(e) /\ ent[e].conn = call[c].conn /\ ~Retired(e)
      BY <1>1, <2>1 DEF IInv, MapHoldsLiveEntries
    <2>3. /\ at'[c] = e /\ call'[c].conn = call[c].conn /\ call'[c].kind = call[c].kind
          /\ call'[c].want = call[c].want /\ call'[c].floor = Settled(call[c].conn)
          /\ profile' = profile
      BY <1>1, <1>5, <2>1 DEF TypeOK, Call, GetJoin
    <2>4. ent'[e].conn = ent[e].conn /\ ent'[e].load = ent[e].load /\ ent'[e].cfg = ent[e].cfg
      BY <1>1, <1>5, <2>1, EntryType DEF TypeOK, GetJoin, EntryState
    <2>5. ASSUME NEW v \in Settled(call[c].conn)
          PROVE  v <= profile[call[c].conn] /\ (ent[e].load = "loaded" => ent[e].cfg >= v)
      <3>1. PICK p \in Admin : /\ call[p].kind = "update" /\ call[p].conn = call[c].conn
                               /\ pc[p] = "done" /\ call[p].want = v /\ v # None
        BY DEF Settled
      <3> QED
        BY <2>2, <3>1 DEF NothingOutdated
    <2> QED
      BY <1>2, <2>2, <2>3, <2>4, <2>5
  <1>6. CASE GetCreate(c)
    <2>1. PICK e \in Entry :
            /\ Free(e)
            /\ ent' = [ent EXCEPT ![e] =
                  [Unused EXCEPT !.conn = call[c].conn, !.cfg = call[c].want,
                                 !.load = IF call[c].want = None THEN "loading" ELSE "loaded",
                                 !.waiters = 1]]
            /\ at' = [at EXCEPT ![c] = e]
      BY <1>6 DEF GetCreate
    <2>2. /\ at'[c] = e /\ call'[c].conn = call[c].conn /\ call'[c].kind = call[c].kind
          /\ call'[c].want = call[c].want /\ call'[c].floor = Settled(call[c].conn)
          /\ profile' = profile
      BY <1>1, <1>6, <2>1 DEF TypeOK, Call, GetCreate
    <2>3. ent'[e].conn = call[c].conn /\ ent'[e].load = "loading"
      BY <1>1, <1>2, <2>1 DEF TypeOK, Unused
    <2>4. ASSUME NEW v \in Settled(call[c].conn) PROVE v <= profile[call[c].conn]
      <3>1. PICK p \in Admin : /\ call[p].kind = "update" /\ call[p].conn = call[c].conn
                               /\ pc[p] = "done" /\ call[p].want = v /\ v # None
        BY DEF Settled
      <3> QED
        BY <3>1 DEF NothingOutdated
    <2> QED
      BY <1>2, <2>2, <2>3, <2>4
  <1>7. ASSUME at'[c] = at[c], call'[c].conn = call[c].conn, call'[c].floor = call[c].floor,
               call'[c].kind = call[c].kind, call'[c].want = call[c].want, Holds(c)' => Holds(c)
        PROVE  /\ call'[c].kind = "get" /\ call'[c].want = None
               /\ Holds(c)' =>
                     /\ ent'[at'[c]].conn = call'[c].conn
                     /\ \A v \in call'[c].floor :
                           /\ v <= profile'[call'[c].conn]
                           /\ ent'[at'[c]].load = "loaded" => ent'[at'[c]].cfg >= v
    BY <1>2, <1>3, <1>7
  <1>8. CASE GetClosed(c)
    BY <1>1, <1>2, <1>7, <1>8 DEF TypeOK, Call, GetClosed, CanEnter, Holds, Inside
  <1>9. CASE CheckEntry(c) \/ Guard(c) \/ ContextDone(c)
    BY <1>1, <1>7, <1>9 DEF TypeOK, Call, CheckEntry, Guard, ContextDone, Fail, Holds, Inside
  <1>10. CASE StartOrJoin(c) \/ AwaitDone(c) \/ ReadResult(c)
    BY <1>1, <1>7, <1>10 DEF TypeOK, Call, StartOrJoin, AwaitDone, ReadResult, Fail, Holds, Inside
  <1>11. CASE Leave(c)
    <2>1. call' = call /\ at' = at /\ pc[c] = "leave"
      BY <1>11 DEF Leave
    <2> QED
      BY <1>7, <2>1 DEF Holds, Inside
  <1>12. CASE Retirement(c)
    <2>1. /\ at'[c] = at[c] /\ call'[c].conn = call[c].conn /\ call'[c].floor = call[c].floor
          /\ call'[c].kind = call[c].kind /\ call'[c].want = call[c].want
          /\ call'[c].res = call[c].res /\ pc[c] \in {"retire", "cancel", "dispatch", "await"}
      BY <1>1, <1>12 DEF TypeOK, Call, Retirement, Retire, Cancel, Dispatch, Await
    <2>2. pc'[c] \in {"done", "start", "retire", "drain", "sweep", "cancel", "dispatch", "await"}
      <3>1. ControlOK(c)
        BY <1>1 DEF IInv, ControlInv
      <3> QED
        BY <1>1, <1>12, <3>1 DEF TypeOK, Retirement, Retire, Cancel, Dispatch, Await, AfterRetire,
              ControlOK
    <2>3. call[c].res # "provider"
      BY <2>1 DEF Loads
    <2> QED
      BY <1>7, <2>1, <2>2, <2>3 DEF Holds, Inside
  <1> QED
    BY <1>1, <1>4, <1>5, <1>6, <1>8, <1>9, <1>10, <1>11, <1>12, Movers, ProcessAssumption DEF Get

\* Every step keeps what ties an entry's configuration to the stored updates.
LEMMA FreshStep ==
  ASSUME IInv, Loads, NothingOutdated, [Next]_vars
  PROVE  NothingOutdated'
  BY UpdatesStep, HoldersStep DEF NothingOutdated

-----------------------------------------------------------------------------
(* The theorems.                                                            *)

\* The promises hold of the empty manager.
LEMMA InitPromises == Init => Promises
  <1> SUFFICES ASSUME Init PROVE Promises
    OBVIOUS
  <1>1. /\ \A c \in Caller : /\ call[c].kind \in {"get", "getFor"} /\ call[c].res = "none"
                             /\ call[c].kind = "getFor" => call[c].want # None
        /\ \A p \in Admin : call[p].kind \in AdminKind /\ call[p].errs = {} /\ call[p].seen = {}
    <2>1. \A c \in Caller : call[c] \in GetRequests(GetKinds[c])
      BY DEF Init
    <2>2. \A p \in Admin : call[p] \in AdminRequests(AdminKinds[p])
      BY DEF Init
    <2> QED
      BY <2>1, <2>2, ProcessAssumption, DataAssumption DEF GetRequests, AdminRequests, NewCall, AdminKind
  <1>2. Loads /\ Supplied /\ Sweeps
    BY <1>1 DEF Init, Loads, Supplied, Sweeps, SweepOK, Served, Process, Unused, Started
  <1>3. Reported
    BY <1>1 DEF Init, Reported, CloseFailuresSurface, Process, Unused, Started, Failing
  <1> QED
    BY <1>2, <1>3 DEF Promises

\* The promises are kept in every reachable state.
THEOREM Kept == Spec => [](IInv /\ Promises)
  <1>1. Init => IInv /\ Promises
    BY InitIInv, InitPromises
  <1>2. Promises /\ IInv /\ IInv' /\ [Next]_vars => Promises'
    BY LoadsStep, SuppliedStep, SweepsStep, ReportedStep DEF Promises
  <1>3. Spec => []IInv
    BY Invariance
  <1> QED
    BY <1>1, <1>2, <1>3, PTL DEF Spec

\* A GetFor is served a provider built from the configuration it supplied.
THEOREM SuppliedAlways == Spec => []SuppliedConfig
  <1>1. IInv /\ Promises => SuppliedConfig
    BY DEF Promises, Supplied, SuppliedConfig, Served
  <1> QED
    BY <1>1, Kept, PTL

\* InvalidateAndWaitWhere returns when every entry on the file that existed when it started
\* is closed, whoever retired it.
THEOREM WhereCloses == Spec => []WhereClosesAll
  <1>1. IInv /\ Promises => WhereClosesAll
    BY DEF Promises, Sweeps, SweepOK, Elsewhere, WhereClosesAll
  <1> QED
    BY <1>1, Kept, PTL

\* No failed close is forgotten: it is on record, or an administrator has it or comes for it.
THEOREM FailuresSurface == Spec => []CloseFailuresSurface
  <1>1. IInv /\ Promises => CloseFailuresSurface
    BY DEF Promises, Reported
  <1> QED
    BY <1>1, Kept, PTL

\* Where there are only Gets, none that starts after an update has returned is served a
\* provider built from an older profile.
THEOREM NeverStale == OnlyGets => (Spec => []NoStaleProvider)
  <1> SUFFICES ASSUME OnlyGets PROVE Spec => []NoStaleProvider
    OBVIOUS
  <1>1. Init => NothingOutdated
    <2> SUFFICES ASSUME Init PROVE NothingOutdated
      OBVIOUS
    <2>1. \A c \in Caller : call[c].kind = "get" /\ call[c].want = None /\ call[c].res = "none"
      BY DEF Init, OnlyGets, GetRequests, NewCall
    <2>2. \A p \in Admin : call[p].kind = "update" => call[p].want = None
      BY DEF Init, AdminRequests, NewCall
    <2> QED
      BY <2>1, <2>2 DEF Init, NothingOutdated, Holds, Inside, Process
  <1>2. NothingOutdated /\ IInv /\ Promises /\ [Next]_vars => NothingOutdated'
    BY FreshStep DEF Promises
  <1>3. NothingOutdated /\ IInv /\ Promises => NoStaleProvider
    <2> SUFFICES ASSUME NothingOutdated, Promises, NEW c \in Caller, Served(c, "get"), NEW v \in call[c].floor
                 PROVE  ent[at[c]].cfg >= v
      BY DEF NoStaleProvider
    <2>1. Holds(c) /\ ent[at[c]].load = "loaded"
      BY DEF Served, Holds, Promises, Loads
    <2> QED
      BY <2>1 DEF NothingOutdated
  <1> QED
    BY <1>1, <1>2, <1>3, Kept, PTL DEF Spec

-----------------------------------------------------------------------------
(* The manager as a pool of providers.                                      *)

\* The provider is there from the end of a successful construction to the close.
ProvFits(e) ==
    /\ ent[e].build # "built" => ent[e].prov = "none"
    /\ ent[e].build = "built" =>
          ent[e].prov \in IF ent[e].life \in {"closing", "finished"}
                          THEN {"closed", "closeFailed"} ELSE {"open"}

\* A caller works with, and is served, an entry of the connection it asked for.
OnTarget(c) == Holds(c) => at[c] \in Entry /\ ent[at[c]].conn = call[c].conn

Serving == (\A e \in Entry : ProvFits(e)) /\ (\A c \in Caller : OnTarget(c))

\* How an entry that changes looks to the pool afterwards; the others stay as they are.
Turns(e, s, p) ==
    /\ \A f \in Entry \ {e} : ent'[f] = ent[f]
    /\ ent'[e].conn = ent[e].conn
    /\ Stage(e)' = s /\ Provision(e)' = p

\* What the pool may see happen to one entry.
PoolMove(e) ==
    \/ Turns(e, Stage(e), Provision(e))
    \/ Provision(e) = "none" /\ Stage(e) \in {"current", "leaving"}
       /\ \E r \in {"open", "failed"} : Turns(e, Stage(e), r)
    \/ Stage(e) = "current" /\ Turns(e, "leaving", Provision(e))
    \/ Stage(e) = "current" /\ Provision(e) = "none" /\ Turns(e, "gone", "none")
    \/ Stage(e) = "leaving" /\ Provision(e) = "open" /\ Turns(e, "leaving", "closed")
    \/ Stage(e) = "leaving" /\ Provision(e) \in {"failed", "closed"} /\ Turns(e, "gone", Provision(e))

Created(e, k) ==
    /\ \A f \in Entry \ {e} : ent'[f] = ent[f]
    /\ closing = "no" /\ k \in Conn /\ entries[k] = None /\ Free(e)
    /\ ent'[e].conn = k /\ ~Free(e)'
    /\ ent'[e].life = "live" /\ ent'[e].build = "idle" /\ ent'[e].prov = "none"

\* What a step does to the entry it changes: a waiter or a configuration, a retirement on
\* its way, the construction, the close.
Effect(e) ==
    /\ \A f \in Entry \ {e} : ent'[f] = ent[f]
    /\ ent'[e].conn = ent[e].conn /\ ~Free(e) /\ ~Free(e)'
    /\ \/ /\ ent'[e].build = ent[e].build /\ ent'[e].prov = ent[e].prov
          /\ \/ ent'[e].life = ent[e].life
             \/ ent[e].life = "live" /\ ent'[e].life = "marked"
             \/ /\ ent[e].life \in {"marked", "cancelled"}
                /\ ent'[e].life \in {"cancelled", "draining"}
       \/ /\ ~Started(e) /\ ent'[e].build = "started"
          /\ ent'[e].prov = ent[e].prov /\ ent'[e].life = "live" /\ ent[e].life = "live"
       \/ /\ ent[e].build \in {"started", "calling"} /\ ent'[e].life = ent[e].life
          /\ \/ ent'[e].build \in {"calling", "failed"} /\ ent'[e].prov = ent[e].prov
             \/ ent'[e].build = "built" /\ ent'[e].prov = "open"
       \/ /\ ent[e].life = "draining" /\ Built(e) /\ ent'[e].build = ent[e].build
          /\ ent'[e].life = "closing"
          /\ ent'[e].prov \in IF ent[e].prov = "open" THEN {"closed", "closeFailed"} ELSE {ent[e].prov}
       \/ /\ ent[e].life = "closing" /\ ent'[e].life = "finished"
          /\ ent'[e].build = ent[e].build /\ ent'[e].prov = ent[e].prov

\* The caller is handed its provider.
Receives(c) == ReadResult(c) /\ call'[c].res = "provider"

\* Every step that changes an entry makes one, or has one of these effects.
LEMMA Effects ==
  ASSUME IInv, [Next]_vars
  PROVE  \/ ent' = ent
         \/ \E e \in Entry : Effect(e)
         \/ \E c \in Caller, e \in Entry : Created(e, call[c].conn) /\ GetCreate(c) /\ at'[c] = e
  <1> USE DEF Free, Started, Retired
  <1>1. TypeOK /\ EntryInv /\ ControlInv
    BY DEF IInv
  <1>2. \A p \in Process : pc[p] \in Working => at[p] \in Entry /\ ~Free(at[p])
    BY <1>1 DEF ControlInv, ControlOK
  <1>3. ASSUME NEW e \in Entry, ~Free(e), NEW n, ent' = [ent EXCEPT ![e].waiters = n]
        PROVE  Effect(e)
    BY <1>1, <1>3, EntryType DEF TypeOK, EntryState, Effect
  <1>4. ASSUME NEW e \in Entry, ~Free(e), NEW n \in Nat, NEW w \in BOOLEAN, ~Retired(e),
               MarkRetired(e, [ent[e] EXCEPT !.waiters = n], w)
        PROVE  Effect(e)
    <2>1. ent' = [ent EXCEPT ![e].waiters = n, ![e].life = "marked", ![e].waited = w]
      BY <1>1, <1>4, EntryType DEF TypeOK, EntryState, MarkRetired
    <2> QED
      BY <1>1, <1>4, <2>1, EntryType DEF TypeOK, EntryState, Effect
  <1>5. ASSUME NEW c \in Caller, GetJoin(c) PROVE \E e \in Entry : Effect(e)
    <2>1. PICK e \in Entry : e = entries[call[c].conn]
      BY <1>1, <1>5, CallType DEF TypeOK, GetJoin, Process
    <2>2. ~Free(e)
      BY <1>1, <1>5, <2>1, CallType DEF IInv, MapHoldsLiveEntries, Process
    <2> QED
      BY <1>3, <1>5, <2>1, <2>2 DEF GetJoin
  <1>6. ASSUME NEW c \in Caller, GetCreate(c)
        PROVE  \E e \in Entry : Created(e, call[c].conn) /\ at'[c] = e
    <2>1. PICK e \in Entry :
            /\ Free(e)
            /\ ent' = [ent EXCEPT ![e] =
                  [Unused EXCEPT !.conn = call[c].conn, !.cfg = call[c].want,
                                 !.load = IF call[c].want = None THEN "loading" ELSE "loaded",
                                 !.waiters = 1]]
            /\ at' = [at EXCEPT ![c] = e]
      BY <1>6 DEF GetCreate
    <2>2. /\ \A f \in Entry \ {e} : ent'[f] = ent[f]
          /\ ent'[e].conn = call[c].conn /\ ent'[e].load # "unused" /\ ent'[e].life = "live"
          /\ ent'[e].build = "idle" /\ ent'[e].prov = "none"
      BY <1>1, <2>1 DEF TypeOK, Unused
    <2>3. call[c].conn \in Conn
      BY <1>1, CallType DEF Process
    <2> QED
      BY <1>1, <1>6, <2>1, <2>2, <2>3 DEF TypeOK, Created, GetCreate, Process
  <1>7. ASSUME NEW c \in Caller, StartOrJoin(c) PROVE ent' = ent \/ \E e \in Entry : Effect(e)
    <2>1. PICK e \in Entry : e = at[c] /\ ~Free(e)
      BY <1>2, <1>7 DEF StartOrJoin, Working, Inside, Process
    <2>2. CASE ent' = [ent EXCEPT ![e].build = "started"] /\ ~Started(e) /\ ~Retired(e)
      BY <1>1, <2>1, <2>2, EntryType DEF TypeOK, EntryState, Effect
    <2> QED
      BY <1>7, <2>1, <2>2 DEF StartOrJoin
  <1>8. ASSUME NEW c \in Caller, AwaitDone(c) PROVE \E e \in Entry : Effect(e)
    <2>1. PICK e \in Entry : e = at[c] /\ ~Free(e)
      BY <1>2, <1>8 DEF AwaitDone, Working, Inside, Process
    <2> QED
      BY <1>3, <1>8, <2>1 DEF AwaitDone
  <1>9. ASSUME NEW c \in Caller, Leave(c) PROVE \E e \in Entry : Effect(e)
    <2>1. PICK e \in Entry : e = at[c] /\ ~Free(e) /\ ent[e].waiters - 1 \in Nat
      BY <1>9, CountedCaller DEF Leave, Inside
    <2>2. \/ ent' = [ent EXCEPT ![e].waiters = ent[e].waiters - 1]
          \/ /\ ~Retired(e)
             /\ MarkRetired(e, [ent[e] EXCEPT !.waiters = ent[e].waiters - 1], FALSE)
      BY <1>1, <1>9, <2>1, EntryType DEF TypeOK, EntryState, Leave
    <2> QED
      BY <1>3, <1>4, <2>1, <2>2
  <1>10. ASSUME NEW p \in Process, Retire(p) PROVE ent' = ent \/ \E e \in Entry : Effect(e)
    <2>1. PICK e \in Entry : e = at[p] /\ ~Free(e)
      BY <1>2, <1>10 DEF Retire, Working
    <2>2. ent' = ent \/ (~Retired(e) /\ MarkRetired(e, ent[e], Waits(p)))
      BY <1>10, <2>1 DEF Retire
    <2>3. ent[e] = [ent[e] EXCEPT !.waiters = ent[e].waiters] /\ ent[e].waiters \in Nat
      BY <1>1, EntryType DEF EntryState
    <2>4. Waits(p) \in BOOLEAN
      BY DEF Waits
    <2>5. CASE ~Retired(e) /\ MarkRetired(e, ent[e], Waits(p))
      <3>1. MarkRetired(e, [ent[e] EXCEPT !.waiters = ent[e].waiters], Waits(p))
        BY <2>3, <2>5
      <3> QED
        BY <1>4, <2>1, <2>3, <2>4, <2>5, <3>1
    <2> QED
      BY <2>2, <2>5
  <1>11. ASSUME NEW p \in Process, Cancel(p) \/ Dispatch(p) PROVE \E e \in Entry : Effect(e)
    <2>1. pc[p] \in Retiring
      BY <1>11 DEF Cancel, Dispatch, Retiring
    <2>2. PICK e \in Entry : e = at[p] /\ ent[e].life \in {"marked", "cancelled"} /\ ~Free(e)
      BY <1>2, <2>1, RetiringLife DEF Retiring, Working
    <2>3. PICK x \in {"cancelled", "draining"} : ent' = [ent EXCEPT ![e].life = x]
      BY <1>11, <2>2 DEF Cancel, Dispatch
    <2> QED
      BY <1>1, <2>2, <2>3, EntryType DEF TypeOK, EntryState, Effect
  <1>12. ASSUME NEW e \in Entry, Background(e) PROVE Effect(e)
    <2>1. Free(e) => ent[e].build = "idle" /\ ent[e].life = "live"
      BY <1>1 DEF EntryInv, EntryFits, Unused
    <2>2. CASE Load(e)
      BY <1>1, <2>1, <2>2, EntryType DEF TypeOK, Load, EntryState, Effect
    <2>3. CASE Construct(e) \/ FactoryReturns(e)
      BY <1>1, <2>1, <2>3, EntryType DEF TypeOK, Construct, FactoryReturns, EntryState, Effect
    <2>4. CASE CloseProvider(e)
      BY <1>1, <2>1, <2>4, EntryType DEF TypeOK, CloseProvider, EntryState, Effect
    <2>5. CASE FinishClose(e)
      BY <1>1, <2>1, <2>5, EntryType DEF TypeOK, FinishClose, EntryState, Effect
    <2> QED
      BY <1>12, <2>2, <2>3, <2>4, <2>5 DEF Background
  <1>13. CASE UNCHANGED vars
    BY <1>13 DEF vars
  <1> QED
    BY <1>5, <1>6, <1>7, <1>8, <1>9, <1>10, <1>11, <1>12, <1>13, QuietSteps
       DEF Next, Get, Retirement, QuietGet

\* An entry keeps the provider that its construction and its retirement call for.
LEMMA ProvFitsStep ==
  ASSUME IInv, \A e \in Entry : ProvFits(e), [Next]_vars
  PROVE  \A e \in Entry : ProvFits(e)'
  <1>1. CASE ent' = ent
    BY <1>1 DEF ProvFits
  <1>2. ASSUME NEW e \in Entry, Effect(e) PROVE \A f \in Entry : ProvFits(f)'
    <2>1. ProvFits(e) /\ EntryFits(e)
      BY DEF IInv, EntryInv
    <2>2. ProvFits(e)'
      BY <1>2, <2>1 DEF Effect, ProvFits, EntryFits, Built, Started
    <2> QED
      BY <1>2, <2>2 DEF Effect, ProvFits
  <1>3. ASSUME NEW e \in Entry, NEW k, Created(e, k) PROVE \A f \in Entry : ProvFits(f)'
    BY <1>3, SMTT(30) DEF Created, ProvFits
  <1> QED
    BY <1>1, <1>2, <1>3, Effects

\* What the pool sees of it is one of its steps.
LEMMA MoveOf ==
  ASSUME IInv, NEW e \in Entry, ProvFits(e), Effect(e)
  PROVE  PoolMove(e)
  <1>1. ent[e] \in EntryState /\ EntryFits(e)
    BY EntryType DEF IInv, EntryInv
  <1> USE DEF Turns, PoolMove, Stage, Provision, Closed, Retired, Started
  <1>2. /\ \A f \in Entry \ {e} : ent'[f] = ent[f]
        /\ ent'[e].conn = ent[e].conn /\ ~Free(e) /\ ~Free(e)'
    BY DEF Effect
  <1>3. CASE ent'[e].build = ent[e].build /\ ent'[e].prov = ent[e].prov /\ ent'[e].life = ent[e].life
    BY <1>2, <1>3
  <1>4. CASE /\ ent'[e].build = ent[e].build /\ ent'[e].prov = ent[e].prov
             /\ ent[e].life = "live" /\ ent'[e].life = "marked"
    BY <1>2, <1>4 DEF ProvFits
  <1>5. CASE /\ ent'[e].build = ent[e].build /\ ent'[e].prov = ent[e].prov
             /\ ent[e].life \in {"marked", "cancelled"} /\ ent'[e].life \in {"cancelled", "draining"}
    BY <1>2, <1>5
  <1>6. CASE /\ ~Started(e) /\ ent'[e].build = "started" /\ ent'[e].prov = ent[e].prov
             /\ ent'[e].life = "live" /\ ent[e].life = "live"
    BY <1>2, <1>6
  <1>7. CASE /\ ent[e].build \in {"started", "calling"} /\ ent'[e].life = ent[e].life
             /\ \/ ent'[e].build \in {"calling", "failed"} /\ ent'[e].prov = ent[e].prov
                \/ ent'[e].build = "built" /\ ent'[e].prov = "open"
    <2>1. ent[e].life # "finished" /\ ent[e].prov = "none"
      BY <1>1, <1>7 DEF EntryFits, Built, ProvFits
    <2> QED
      BY <1>2, <1>7, <2>1
  <1>8. CASE /\ ent[e].life = "draining" /\ Built(e) /\ ent'[e].build = ent[e].build
             /\ ent'[e].life = "closing"
             /\ ent'[e].prov \in IF ent[e].prov = "open" THEN {"closed", "closeFailed"} ELSE {ent[e].prov}
    BY <1>2, <1>8 DEF Built
  <1>9. CASE /\ ent[e].life = "closing" /\ ent'[e].life = "finished"
             /\ ent'[e].build = ent[e].build /\ ent'[e].prov = ent[e].prov
    BY <1>1, <1>2, <1>9 DEF EntryFits, Built, ProvFits
  <1> QED
    BY <1>3, <1>4, <1>5, <1>6, <1>7, <1>8, <1>9 DEF Effect

\* A caller that takes an entry takes that of its connection, and keeps it.
LEMMA OnTargetStep ==
  ASSUME IInv, Loads, Serving, [Next]_vars, NEW c \in Caller
  PROVE  OnTarget(c)' /\ call'[c].conn = call[c].conn
  <1>1. /\ TypeOK /\ c \in Process /\ call[c].conn \in Conn /\ ControlOK(c)
        /\ call[c].res \in Results
    BY CallType DEF IInv, ControlInv, Process, TypeOK, Call
  <1>2. Holds(c) => /\ at[c] \in Entry /\ ~Free(at[c]) /\ ent[at[c]].conn = call[c].conn
                    /\ ent'[at[c]].conn = call[c].conn
    <2>1. Holds(c) => at[c] \in Entry /\ ~Free(at[c]) /\ ent[at[c]].conn = call[c].conn
      BY <1>1 DEF ControlOK, Holds, Working, Inside, Loads, Free, Serving, OnTarget
    <2> QED
      BY <2>1, EntryStep DEF Advances
  <1>3. ASSUME at'[c] = at[c], call'[c].conn = call[c].conn, Holds(c)' => Holds(c)
        PROVE  OnTarget(c)' /\ call'[c].conn = call[c].conn
    BY <1>2, <1>3 DEF OnTarget
  <1>4. CASE Same(c)
    BY <1>3, <1>4 DEF Same, Holds
  <1>5. CASE GetJoin(c)
    <2>1. PICK e \in Entry : e = entries[call[c].conn]
      BY <1>1, <1>5 DEF TypeOK, GetJoin
    <2>2. ~Free(e) /\ ent[e].conn = call[c].conn
      BY <1>1, <2>1 DEF IInv, MapHoldsLiveEntries
    <2>3. at'[c] = e /\ call'[c].conn = call[c].conn
      BY <1>1, <1>5, <2>1 DEF TypeOK, Call, GetJoin
    <2> QED
      BY <2>2, <2>3, EntryStep DEF Advances, OnTarget
  <1>6. CASE GetCreate(c)
    <2>1. PICK e \in Entry :
            /\ ent' = [ent EXCEPT ![e] =
                  [Unused EXCEPT !.conn = call[c].conn, !.cfg = call[c].want,
                                 !.load = IF call[c].want = None THEN "loading" ELSE "loaded",
                                 !.waiters = 1]]
            /\ at' = [at EXCEPT ![c] = e]
      BY <1>6 DEF GetCreate
    <2>2. at'[c] = e /\ ent'[e].conn = call[c].conn
      BY <1>1, <2>1 DEF TypeOK, Unused
    <2>3. call'[c].conn = call[c].conn
      BY <1>1, <1>6 DEF TypeOK, Call, GetCreate
    <2> QED
      BY <2>2, <2>3 DEF OnTarget
  <1>7. CASE GetClosed(c)
    <2>1. /\ at'[c] = at[c] /\ call'[c].conn = call[c].conn
          /\ pc'[c] = "done" /\ call'[c].res = "error"
      BY <1>1, <1>7 DEF TypeOK, Call, GetClosed
    <2> QED
      BY <1>3, <2>1 DEF Holds, Inside
  <1>8. CASE CheckEntry(c) \/ Guard(c) \/ ContextDone(c)
    BY <1>1, <1>3, <1>8 DEF TypeOK, Call, CheckEntry, Guard, ContextDone, Fail, Holds, Inside
  <1>9. CASE StartOrJoin(c) \/ AwaitDone(c) \/ ReadResult(c)
    BY <1>1, <1>3, <1>9 DEF TypeOK, Call, StartOrJoin, AwaitDone, ReadResult, Fail, Holds, Inside
  <1>10. CASE Leave(c)
    <2>1. call' = call /\ at' = at /\ pc[c] = "leave"
      BY <1>10 DEF Leave
    <2> QED
      BY <1>3, <2>1 DEF Holds, Inside
  <1>11. CASE Retirement(c)
    <2>1. /\ at'[c] = at[c] /\ call'[c].conn = call[c].conn
          /\ call'[c].res = call[c].res /\ pc[c] \in {"retire", "cancel", "dispatch", "await"}
      BY <1>1, <1>11 DEF TypeOK, Call, Retirement, Retire, Cancel, Dispatch, Await
    <2>2. pc'[c] \in {"done", "start", "retire", "drain", "sweep", "cancel", "dispatch", "await"}
      <3>1. CASE Retire(c)
        BY <1>1, <3>1 DEF TypeOK, Retire, AfterRetire
      <3>2. CASE Cancel(c) \/ Dispatch(c) \/ Await(c)
        BY <1>1, <3>2 DEF TypeOK, Cancel, Dispatch, Await, ControlOK
      <3> QED
        BY <1>11, <3>1, <3>2 DEF Retirement
    <2>3. call[c].res # "provider"
      BY <2>1 DEF Loads
    <2> QED
      BY <1>3, <2>1, <2>2, <2>3 DEF Holds, Inside
  <1> QED
    BY <1>1, <1>4, <1>5, <1>6, <1>7, <1>8, <1>9, <1>10, <1>11, Movers, ProcessAssumption DEF Get

\* A caller is given nothing but by reading the result of its own entry.
LEMMA GivenStep ==
  ASSUME IInv, Loads, Serving, [Next]_vars, NEW c \in Caller
  PROVE  Given'[c] = Given[c] \/ Receives(c)
  <1>1. /\ TypeOK /\ c \in Process /\ ControlOK(c) /\ call[c].res \in Results
        /\ call[c].res = "provider" => pc[c] = "done"
    BY DEF IInv, ControlInv, Process, TypeOK, Call, Loads
  <1>2. Given[c] = (IF pc[c] = "done" /\ call[c].res = "provider" THEN at[c] ELSE None)
        /\ Given'[c] = (IF pc'[c] = "done" /\ call'[c].res = "provider" THEN at'[c] ELSE None)
    BY DEF Given
  <1>3. CASE Same(c)
    BY <1>2, <1>3 DEF Same
  <1>4. ASSUME pc[c] # "done", call'[c].res = call[c].res \/ call'[c].res # "provider"
        PROVE  Given'[c] = Given[c]
    BY <1>1, <1>2, <1>4
  <1>5. CASE GetClosed(c) \/ GetJoin(c) \/ GetCreate(c)
    BY <1>1, <1>4, <1>5 DEF TypeOK, Call, GetClosed, GetJoin, GetCreate, CanEnter
  <1>6. CASE CheckEntry(c) \/ Guard(c) \/ ContextDone(c)
    BY <1>1, <1>4, <1>6 DEF TypeOK, Call, CheckEntry, Guard, ContextDone, Fail
  <1>7. CASE StartOrJoin(c) \/ AwaitDone(c)
    BY <1>1, <1>4, <1>7 DEF TypeOK, Call, StartOrJoin, AwaitDone, Fail
  <1>10. CASE Leave(c)
    BY <1>4, <1>10 DEF Leave
  <1>8. CASE ReadResult(c) /\ ~Receives(c)
    BY <1>1, <1>4, <1>8 DEF ReadResult, Receives
  <1>9. CASE Retirement(c)
    BY <1>1, <1>4, <1>9 DEF TypeOK, Call, Retirement, Retire, Cancel, Dispatch, Await
  <1> QED
    BY <1>1, <1>3, <1>5, <1>6, <1>7, <1>8, <1>9, <1>10, Movers, ProcessAssumption DEF Get

\* Only Close and the end of it change m.closed.
LEMMA OnlyClose ==
  ASSUME [Next]_vars, closing' # closing
  PROVE  \E p \in Admin : Close(p) \/ FinishManagerClose(p)
  <1>1. ASSUME NEW c \in Caller, Get(c) \/ ContextDone(c) PROVE FALSE
    BY <1>1 DEF Get, ContextDone, GetClosed, GetJoin, GetCreate, CheckEntry, Guard, StartOrJoin,
          AwaitDone, Leave, ReadResult, managerVars
  <1>2. ASSUME NEW p \in Process, Retirement(p) PROVE FALSE
    BY <1>2 DEF Retirement, Retire, Cancel, Dispatch, Await, managerVars
  <1>3. ASSUME NEW e \in Entry, Background(e) PROVE FALSE
    BY <1>3 DEF Background, Load, Construct, FactoryReturns, CloseProvider, FinishClose, managerVars
  <1>4. ASSUME NEW p \in Admin, Administer(p), ~Close(p), ~FinishManagerClose(p) PROVE FALSE
    BY <1>4 DEF Administer, UpdateProfile, Invalidate, InvalidateAndWait, InvalidateAndWaitWhere,
          JoinClose, SweepEntry, SweepPending, AwaitPending, Drain, managerVars
  <1> QED
    BY <1>1, <1>2, <1>3, <1>4 DEF Next, Halted, vars

\* Only Close begins the shutdown and ends it, when every entry is closed.
LEMMA ClosingStep ==
  ASSUME IInv, [Next]_vars
  PROVE  \/ closing' = closing
         \/ /\ ent' = ent /\ \A c \in Caller : ~Receives(c)
            /\ \/ closing = "no" /\ closing' = "begun"
               \/ closing \in {"begun", "finished"} /\ closing' = "finished" /\ AllClosed
  <1>1. ASSUME NEW p \in Admin, Close(p), closing' # closing
        PROVE  ent' = ent /\ closing = "no" /\ closing' = "begun" /\ \A c \in Caller : ~Receives(c)
    BY <1>1 DEF Close, Receives, ReadResult, managerVars
  <1>2. ASSUME NEW p \in Admin, FinishManagerClose(p), closing' # closing
        PROVE  /\ ent' = ent /\ \A c \in Caller : ~Receives(c)
               /\ closing \in {"begun", "finished"} /\ closing' = "finished" /\ AllClosed
    <2>1. CloserOK(p) /\ closing \in {"no", "begun", "finished"}
      BY DEF IInv, CloserInv, TypeOK
    <2> QED
      BY <1>2, <2>1 DEF FinishManagerClose, Receives, ReadResult, managerVars, CloserOK
  <1> QED
    BY <1>1, <1>2, OnlyClose

\* The pool after a step that changes one entry.
LEMMA PoolAfter ==
  ASSUME NEW e \in Entry, NEW s, NEW p, Turns(e, s, p)
  PROVE  /\ p = Provision(e) => Pool' = [Pool EXCEPT ![e].stage = s]
         /\ s = Stage(e) => Pool' = [Pool EXCEPT ![e].prov = p]
         /\ s = Stage(e) /\ p = Provision(e) => Pool' = Pool
  <1>1. \A f \in Entry \ {e} : Stage(f)' = Stage(f) /\ Provision(f)' = Provision(f)
    BY DEF Turns, Stage, Provision, Free, Retired, Closed, Started
  <1> QED
    BY <1>1 DEF Turns, Pool

\* The pool sees what happens to an entry as one of its own steps.
LEMMA EntryRefines ==
  ASSUME IInv, Serving, [Next]_vars, Wants' = Wants, Given' = Given, closing' = closing
  PROVE  PP!PoolNext \/ Pool' = Pool
  <1>1. CASE ent' = ent
    BY <1>1 DEF Pool, Stage, Provision, Free, Retired, Closed, Started
  <1>2. ASSUME NEW e \in Entry, Effect(e) PROVE PP!PoolNext \/ Pool' = Pool
    <2>1. PoolMove(e)
      BY <1>2, MoveOf DEF Serving
    <2>2. Pool[e] = [conn |-> ent[e].conn, stage |-> Stage(e), prov |-> Provision(e)]
      BY DEF Pool
    <2>3. CASE Turns(e, Stage(e), Provision(e))
      BY <2>3, PoolAfter
    <2>4. CASE /\ Provision(e) = "none" /\ Stage(e) \in {"current", "leaving"}
               /\ \E r \in {"open", "failed"} : Turns(e, Stage(e), r)
      <3>1. PICK r \in {"open", "failed"} : Turns(e, Stage(e), r)
        BY <2>4
      <3>2. Pool' = [Pool EXCEPT ![e].prov = r]
        BY <3>1, PoolAfter
      <3>3. PP!Open(e)
        <4>1. Pool[e].stage \in {"current", "leaving"} /\ Pool[e].prov = "none"
          BY <2>2, <2>4
        <4>2. \E x \in {"open", "failed"} : Pool' = [Pool EXCEPT ![e].prov = x]
          BY <3>1, <3>2
        <4> QED
          BY <4>1, <4>2 DEF PP!Open
      <3> QED
        BY <3>3 DEF PP!PoolNext
    <2>5. CASE Stage(e) = "current" /\ Turns(e, "leaving", Provision(e))
      <3>1. Pool' = [Pool EXCEPT ![e].stage = "leaving"]
        BY <2>5, PoolAfter
      <3>2. PP!Replace(e)
        <4>1. PP!Current(e) /\ Pool[e].prov = Provision(e)
          BY <2>2, <2>5 DEF PP!Current
        <4>2. "leaving" \in {"leaving"} \cup (IF Pool[e].prov = "none" THEN {"gone"} ELSE {})
          BY <2>5, <4>1
        <4> QED
          BY <3>1, <4>1, <4>2 DEF PP!Replace
      <3> QED
        BY <3>2 DEF PP!PoolNext
    <2>6. CASE Stage(e) = "current" /\ Provision(e) = "none" /\ Turns(e, "gone", "none")
      <3>1. Pool' = [Pool EXCEPT ![e].stage = "gone"]
        BY <2>6, PoolAfter
      <3>2. PP!Replace(e)
        <4>1. PP!Current(e) /\ Pool[e].prov = Provision(e)
          BY <2>2, <2>6 DEF PP!Current
        <4>2. "gone" \in {"leaving"} \cup (IF Pool[e].prov = "none" THEN {"gone"} ELSE {})
          BY <2>6, <4>1
        <4> QED
          BY <3>1, <4>1, <4>2 DEF PP!Replace
      <3> QED
        BY <3>2 DEF PP!PoolNext
    <2>7. CASE Stage(e) = "leaving" /\ Provision(e) = "open" /\ Turns(e, "leaving", "closed")
      <3>1. Pool' = [Pool EXCEPT ![e].prov = "closed"]
        BY <2>7, PoolAfter
      <3>2. PP!Close(e)
        BY <2>2, <2>7, <3>1 DEF PP!Close
      <3> QED
        BY <3>2 DEF PP!PoolNext
    <2>8. CASE /\ Stage(e) = "leaving" /\ Provision(e) \in {"failed", "closed"}
               /\ Turns(e, "gone", Provision(e))
      <3>1. Pool' = [Pool EXCEPT ![e].stage = "gone"]
        BY <2>8, PoolAfter
      <3>2. PP!Leave(e)
        BY <2>2, <2>8, <3>1 DEF PP!Leave
      <3> QED
        BY <3>2 DEF PP!PoolNext
    <2> QED
      BY <2>1, <2>3, <2>4, <2>5, <2>6, <2>7, <2>8 DEF PoolMove
  <1>3. ASSUME NEW e \in Entry, NEW c \in Caller, Created(e, call[c].conn) PROVE PP!PoolNext
    <2>1. PICK k \in Conn : k = call[c].conn
      BY <1>3 DEF Created
    <2>2. \A f \in Entry : Pool[f].conn = ent[f].conn /\ Pool[f].stage = Stage(f)
      BY DEF Pool
    <2>3. Stage(e) = "absent" /\ Stage(e)' = "current" /\ Provision(e)' = "none" /\ ent'[e].conn = k
      BY <1>3, <2>1 DEF Created, Stage, Provision, Closed, Retired, Free
    <2>4. \A f \in Entry \ {e} : /\ Stage(f)' = Stage(f) /\ Provision(f)' = Provision(f)
                                 /\ ent'[f].conn = ent[f].conn
      BY <1>3 DEF Created, Stage, Provision, Free, Retired, Closed, Started
    <2>5. Pool' = [Pool EXCEPT ![e] = [conn |-> k, stage |-> "current", prov |-> "none"]]
      BY <2>3, <2>4 DEF Pool
    <2>6. \A f \in Entry : Stage(f) = "current" => ent[f].conn # k
      <3> SUFFICES ASSUME NEW f \in Entry, Stage(f) = "current", ent[f].conn = k PROVE FALSE
        OBVIOUS
      <3>1. ~Free(f) /\ ~Retired(f)
        BY DEF Stage
      <3>2. entries[k] = f
        BY <3>1 DEF IInv, MapHoldsLiveEntries
      <3> QED
        BY <1>3, <2>1, <3>2, DataAssumption DEF Created
    <2>7. PP!Begin(e, k)
      <3>1. closing = "no" /\ Pool[e].stage = "absent"
        BY <1>3, <2>2, <2>3 DEF Created
      <3>2. ~\E h \in Entry : PP!Current(h) /\ Pool[h].conn = k
        BY <2>2, <2>6 DEF PP!Current
      <3> QED
        BY <2>5, <3>1, <3>2 DEF PP!Begin
    <2> QED
      BY <2>7 DEF PP!PoolNext
  <1> QED
    BY <1>1, <1>2, <1>3, Effects

\* Every step of the manager is one of the pool, or one it does not see.
LEMMA PoolStep ==
  ASSUME IInv, Loads, Serving, [Next]_vars
  PROVE  [PP!PoolNext]_(PP!poolVars)
  <1>1. Wants' = Wants
    BY OnTargetStep DEF Wants
  <1>2. CASE \E c \in Caller : Receives(c)
    <2>1. PICK c \in Caller : Receives(c)
      BY <1>2
    <2>2. /\ pc[c] = "read" /\ ~Retired(at[c]) /\ ent[at[c]].build = "built"
          /\ pc'[c] = "done" /\ call'[c].res = "provider"
          /\ at' = at /\ ent' = ent /\ closing' = closing
      <3>1. call[c].res # "provider" /\ pc[c] = "read" /\ TypeOK /\ c \in Process
        BY <2>1 DEF Receives, ReadResult, Loads, IInv, Process
      <3> QED
        BY <2>1, <3>1 DEF Receives, ReadResult, managerVars, TypeOK, Call
    <2>3. PICK e \in Entry : e = at[c] /\ ~Free(e) /\ ent[e].conn = call[c].conn /\ ent[e].prov = "open"
      <3>1. at[c] \in Entry /\ ent[at[c]].conn = call[c].conn /\ ~Free(at[c])
        BY <2>2 DEF Serving, OnTarget, Holds, IInv, ControlInv, ControlOK, Working, Process
      <3> QED
        BY <2>2, <3>1 DEF Serving, ProvFits, Retired
    <2>4. \A d \in Caller \ {c} : Given'[d] = Given[d]
      BY <2>1, <2>2, GivenStep DEF Receives, ReadResult, IInv, TypeOK, Process
    <2>5. Given' = [Given EXCEPT ![c] = e] /\ Given[c] = None
      BY <2>2, <2>3, <2>4 DEF Given
    <2>6. Pool' = Pool
      BY <2>2 DEF Pool, Stage, Provision, Free, Retired, Closed, Started
    <2>7. Pool[e].stage = "current" /\ Pool[e].prov = "open" /\ Pool[e].conn = Wants[c]
      BY <2>2, <2>3 DEF Pool, Stage, Provision, Closed, Wants
    <2>8. PP!Give(c, e)
      BY <1>1, <2>2, <2>5, <2>6, <2>7 DEF PP!Give, PP!Current
    <2> QED
      BY <2>8 DEF PP!PoolNext
  <1>3. CASE \A c \in Caller : ~Receives(c)
    <2>1. Given' = Given
      BY <1>3, GivenStep DEF Given
    <2>2. CASE closing' = closing
      BY <1>1, <2>1, <2>2, EntryRefines DEF PP!poolVars
    <2>3. ASSUME closing' # closing PROVE PP!PoolNext
      <3>1. /\ ent' = ent
            /\ \/ closing = "no" /\ closing' = "begun"
               \/ closing = "begun" /\ closing' = "finished" /\ AllClosed
        BY <2>3, ClosingStep
      <3>2. Pool' = Pool
        BY <3>1 DEF Pool, Stage, Provision, Free, Retired, Closed, Started
      <3>3. CASE closing = "no" /\ closing' = "begun"
        BY <1>1, <2>1, <3>2, <3>3 DEF PP!PoolNext, PP!ShutDown
      <3>4. CASE closing = "begun" /\ closing' = "finished" /\ AllClosed
        <4>1. \A e \in Entry : Pool[e].stage \in {"absent", "gone"}
          BY <3>4 DEF Pool, Stage, AllClosed, Closed
        <4> QED
          BY <1>1, <2>1, <3>2, <3>4, <4>1 DEF PP!PoolNext, PP!ShutDownEnds
      <3> QED
        BY <3>1, <3>3, <3>4
    <2> QED
      BY <2>2, <2>3
  <1> QED
    BY <1>2, <1>3

\* Initially nobody was served and nothing built.
LEMMA InitServing == Init => Serving
  <1> SUFFICES ASSUME Init PROVE Serving
    OBVIOUS
  <1>1. \A e \in Entry : ent[e] = Unused
    BY DEF Init
  <1>2. \A c \in Caller : pc[c] = "start"
    BY DEF Init, Process
  <1> QED
    BY <1>1, <1>2 DEF Serving, ProvFits, OnTarget, Holds, Inside, Unused

\* Initially the pool is empty.
LEMMA InitPool == Init => PP!PoolInit
  <1> SUFFICES ASSUME Init PROVE PP!PoolInit
    OBVIOUS
  <1>1. \A e \in Entry : ent[e] = Unused
    BY DEF Init
  <1>2. \A c \in Caller : pc[c] = "start" /\ call[c].conn \in Conn
    BY InitIInv, CallType DEF Init, IInv, Process
  <1>3. Pool = [e \in Entry |-> [conn |-> None, stage |-> "absent", prov |-> "none"]]
    BY <1>1 DEF Pool, Stage, Provision, Free, Unused, Retired, Closed, Started
  <1>4. Wants \in [Caller -> Conn] /\ Given = [c \in Caller |-> None]
    BY <1>2 DEF Wants, Given
  <1> QED
    BY <1>3, <1>4 DEF PP!PoolInit, Init

\* Serving is kept.
LEMMA ServingStep ==
  ASSUME IInv, Loads, Serving, [Next]_vars
  PROVE  Serving'
  BY ProvFitsStep, OnTargetStep DEF Serving

\* For those who use its providers the manager is a pool: whatever is loaded, shared,
\* abandoned, retired and closed meanwhile, each connection has one current provider at a
\* time, opened once, handed out while it is current, closed once after that, and none is
\* left when Close returns.
THEOREM PoolRefinement == Spec => ImplementsPool
  <1>1. IInv /\ Promises /\ Serving /\ [Next]_vars => Serving'
    BY ServingStep DEF Promises
  <1>2. IInv /\ Promises /\ Serving /\ [Next]_vars => [PP!PoolNext]_(PP!poolVars)
    BY PoolStep DEF Promises
  <1> QED
    BY InitServing, InitPool, <1>1, <1>2, Kept, PTL DEF Spec, ImplementsPool, PP!PoolSpec

-----------------------------------------------------------------------------
(* Work and waiters.                                                        *)

\* An entry whose close is owed: retired, and its construction begun.
Owed(e) == Retired(e) /\ Started(e)
Closing(q) == call[q].kind = "close" /\ pc[q] \notin {"start", "joinClose", "done"}

\* Who wakes whom. A retired entry is in the hands of the goroutine that marked it until
\* its close has been handed on, and a Close is at work until it has published its result.
Wakers ==
    /\ \A e \in Entry : Owed(e) /\ ent[e].life \in {"marked", "cancelled"} =>
          \E q \in Process : at[q] = e /\ pc[q] \in Retiring
    /\ \A p \in Process :
          /\ pc[p] = "awaitDone" => Started(at[p])
          /\ pc[p] = "await" => Owed(at[p])
    /\ \A p \in Admin :
          /\ pc[p] = "pendingSweep" => \A e \in call[p].todo : Owed(e)
          /\ pc[p] = "joinClose" => closing # "no"
    /\ closing = "begun" => \E q \in Admin : Closing(q)

\* What is owed stays owed, and an entry that has been started stays started.
LEMMA OwedStays ==
  ASSUME IInv, [Next]_vars, NEW e \in Entry
  PROVE  (Owed(e) => Owed(e)') /\ (Started(e) => Started(e)')
  BY EntryStep DEF Advances, Owed

\* An entry that a step marks is in the hands of the goroutine that marked it.
LEMMA Marker ==
  ASSUME IInv, [Next]_vars, NEW e \in Entry, ent[e].life = "live", ent'[e].life # "live"
  PROVE  \E q \in Process : at'[q] = e /\ pc'[q] = "cancel"
  <1>1. TypeOK /\ EntryInv /\ ControlInv
    BY DEF IInv
  <1>2. \A p \in Process : pc[p] \in Working => at[p] \in Entry /\ ~Free(at[p])
    BY <1>1 DEF ControlInv, ControlOK
  <1>3. ent' # ent
    OBVIOUS
  <1>4. ASSUME NEW f \in Entry, NEW n, ent' = [ent EXCEPT ![f].waiters = n] PROVE FALSE
    BY <1>1, <1>4, EntryType DEF TypeOK, EntryState
  <1>5. ASSUME NEW c \in Caller, GetJoin(c) PROVE FALSE
    <2>1. entries[call[c].conn] \in Entry
      BY <1>1, <1>5, CallType DEF TypeOK, GetJoin, Process
    <2> QED
      BY <1>4, <1>5, <2>1 DEF GetJoin
  <1>6. ASSUME NEW c \in Caller, GetCreate(c) PROVE FALSE
    <2>1. PICK f \in Entry :
            ent' = [ent EXCEPT ![f] =
                  [Unused EXCEPT !.conn = call[c].conn, !.cfg = call[c].want,
                                 !.load = IF call[c].want = None THEN "loading" ELSE "loaded",
                                 !.waiters = 1]]
      BY <1>6 DEF GetCreate
    <2>2. (\A g \in Entry \ {f} : ent'[g] = ent[g]) /\ ent'[f].life = "live"
      BY <1>1, <2>1 DEF TypeOK, Unused
    <2> QED
      BY <2>2
  <1>7. ASSUME NEW c \in Caller, StartOrJoin(c) PROVE FALSE
    BY <1>1, <1>7, EntryType DEF TypeOK, EntryState, StartOrJoin
  <1>8. ASSUME NEW c \in Caller, AwaitDone(c) PROVE FALSE
    <2>1. at[c] \in Entry
      BY <1>8, CountedCaller DEF AwaitDone, Inside
    <2> QED
      BY <1>4, <1>8, <2>1 DEF AwaitDone
  <1>9. ASSUME NEW c \in Caller, Leave(c) PROVE \E q \in Process : at'[q] = e /\ pc'[q] = "cancel"
    <2>1. PICK f \in Entry : f = at[c]
      BY <1>9, CountedCaller DEF Leave, Inside
    <2>2. \/ ent' = [ent EXCEPT ![f].waiters = ent[f].waiters - 1]
          \/ (\A g \in Entry \ {f} : ent'[g] = ent[g]) /\ pc'[c] = "cancel" /\ at'[c] = f
      BY <1>1, <1>9, <2>1 DEF TypeOK, Leave, MarkRetired, Process
    <2>3. f = e /\ pc'[c] = "cancel" /\ at'[c] = f
      BY <1>4, <2>2
    <2> QED
      BY <2>3 DEF Process
  <1>10. ASSUME NEW p \in Process, Retire(p) PROVE \E q \in Process : at'[q] = e /\ pc'[q] = "cancel"
    <2>1. at[p] \in Entry
      BY <1>2, <1>10 DEF Retire, Working
    <2>2. (\A g \in Entry \ {at[p]} : ent'[g] = ent[g]) /\ pc'[p] = "cancel" /\ at'[p] = at[p]
      BY <1>1, <1>3, <1>10, <2>1 DEF TypeOK, Retire, MarkRetired
    <2> QED
      BY <2>2
  <1>11. ASSUME NEW p \in Process, Cancel(p) \/ Dispatch(p) PROVE FALSE
    <2>1. at[p] \in Entry /\ ent[at[p]].life \in {"marked", "cancelled"}
      BY <1>11, RetiringLife DEF Cancel, Dispatch, Retiring
    <2> QED
      BY <1>1, <1>11, <2>1 DEF TypeOK, Cancel, Dispatch
  <1>12. ASSUME NEW f \in Entry, Background(f) PROVE FALSE
    <2>1. CASE Load(f)
      BY <1>1, <2>1, EntryType DEF TypeOK, EntryState, Load
    <2>2. CASE Construct(f)
      BY <1>1, <2>2, EntryType DEF TypeOK, EntryState, Construct
    <2>3. CASE FactoryReturns(f)
      BY <1>1, <2>3, EntryType DEF TypeOK, EntryState, FactoryReturns
    <2>4. CASE CloseProvider(f) \/ FinishClose(f)
      BY <1>1, <2>4 DEF TypeOK, CloseProvider, FinishClose
    <2> QED
      BY <1>12, <2>1, <2>2, <2>3, <2>4 DEF Background
  <1> QED
    BY <1>3, <1>5, <1>6, <1>7, <1>8, <1>9, <1>10, <1>11, <1>12, QuietSteps
       DEF Next, Get, Retirement, QuietGet, vars

\* The goroutine that has marked an entry keeps it until its close is handed on.
LEMMA HandsStep ==
  ASSUME IInv, Wakers, [Next]_vars, NEW e \in Entry, Owed(e)',
         ent'[e].life \in {"marked", "cancelled"}
  PROVE  \E q \in Process : at'[q] = e /\ pc'[q] \in Retiring
  <1>1. TypeOK
    BY DEF IInv
  <1>2. CASE ent[e].life = "live"
    BY <1>2, Marker DEF Retiring
  <1>3. CASE ent[e].life # "live"
    <2>1. Owed(e)
      BY <1>3, EntryStep DEF Advances, Owed, Retired
    <2>2. ent[e].life \in {"marked", "cancelled"}
      <3>1. ent[e].life \in {"draining", "closing", "finished"} =>
                ent'[e].life \in {"draining", "closing", "finished"}
        BY Effects DEF Effect, Created, Free, IInv, EntryInv, EntryFits, Unused
      <3> QED
        BY <1>1, <1>3, <3>1, EntryType DEF LifeState
    <2>3. PICK q \in Process : at[q] = e /\ pc[q] \in Retiring
      BY <2>1, <2>2 DEF Wakers
    <2>4. CASE Same(q)
      BY <2>3, <2>4 DEF Same
    <2>5. CASE Cancel(q)
      BY <1>1, <2>1, <2>3, <2>5 DEF TypeOK, Cancel, Owed, Retiring
    <2>6. CASE Dispatch(q)
      BY <1>1, <2>3, <2>6, EntryType DEF TypeOK, Dispatch, EntryState
    <2>7. ~Retire(q) /\ ~Await(q)
      BY <2>3 DEF Retire, Await, Retiring
    <2>8. CASE q \in Caller /\ (Get(q) \/ ContextDone(q))
      BY <2>3, <2>8 DEF Get, ContextDone, GetClosed, GetJoin, GetCreate, CanEnter, CheckEntry, Guard,
            StartOrJoin, AwaitDone, Leave, ReadResult, Retiring
    <2>9. CASE q \in Admin /\ Administer(q)
      BY <2>3, <2>9 DEF Administer, UpdateProfile, Invalidate, InvalidateAndWait,
            InvalidateAndWaitWhere, Close, JoinClose, SweepEntry, SweepPending, AwaitPending,
            Drain, FinishManagerClose, Retiring
    <2> QED
      BY <2>3, <2>4, <2>5, <2>6, <2>7, <2>8, <2>9, Movers DEF Retirement
  <1> QED
    BY <1>2, <1>3

\* Whoever begins to wait for a construction or a close waits for one that has begun or is
\* owed.
LEMMA WaitsStep ==
  ASSUME IInv, Loads, Wakers, [Next]_vars, NEW p \in Process
  PROVE  /\ pc'[p] = "awaitDone" => Started(at[p])'
         /\ pc'[p] = "await" => Owed(at[p])'
  <1>1. TypeOK /\ ControlOK(p)
    BY DEF IInv, ControlInv
  <1>2. pc[p] \in Working => at[p] \in Entry
    BY <1>1 DEF ControlOK
  <1>3. /\ pc[p] = "awaitDone" => Started(at[p])
        /\ pc[p] = "await" => Owed(at[p])
    BY DEF Wakers
  <1>4. CASE Same(p)
    BY <1>2, <1>3, <1>4, OwedStays DEF Same, Working, Inside, Started, Owed, Retired
  <1>5. CASE p \in Caller /\ StartOrJoin(p)
    <2>1. pc[p] = "begin" /\ at' = at /\ pc'[p] # "await"
      BY <1>1, <1>5 DEF TypeOK, StartOrJoin, Fail
    <2>2. CASE pc'[p] = "awaitDone"
      <3>1. PICK e \in Entry : e = at[p]
        BY <1>2, <2>1 DEF Working, Inside
      <3>2. Started(e) \/ ent' = [ent EXCEPT ![e].build = "started"]
        BY <1>1, <1>5, <2>2, <3>1 DEF TypeOK, StartOrJoin, Fail
      <3>3. ent' = [ent EXCEPT ![e].build = "started"] => Started(e)'
        BY <1>1, EntryType DEF TypeOK, EntryState, Started
      <3> QED
        BY <2>1, <3>1, <3>2, <3>3, OwedStays DEF Started
    <2> QED
      BY <2>1, <2>2
  <1>6. CASE p \in Caller /\ (Get(p) \/ ContextDone(p)) /\ ~StartOrJoin(p)
    <2>1. CASE Leave(p)
      BY <1>1, <2>1 DEF TypeOK, Leave, ControlOK
    <2>2. CASE ~Leave(p)
      BY <1>1, <1>6, <2>2 DEF TypeOK, Get, ContextDone, GetClosed, GetJoin, GetCreate, CheckEntry,
            Guard, AwaitDone, ReadResult, Fail
    <2> QED
      BY <2>1, <2>2
  <1>7. CASE Retire(p)
    <2>1. PICK e \in Entry : e = at[p] /\ at'[p] = e
      BY <1>2, <1>7 DEF Retire, Working
    <2>2. pc'[p] # "awaitDone"
      BY <1>1, <1>7 DEF TypeOK, Retire, AfterRetire
    <2>3. pc'[p] = "await" => Owed(e)
      BY <1>1, <1>7, <2>1 DEF TypeOK, Retire, AfterRetire, Owed
    <2> QED
      BY <2>1, <2>2, <2>3, OwedStays DEF Owed, Retired, Started
  <1>8. CASE Cancel(p) \/ Await(p)
    BY <1>1, <1>8 DEF TypeOK, Cancel, Await, ControlOK
  <1>9. CASE Dispatch(p)
    <2>1. PICK e \in Entry : e = at[p] /\ at'[p] = e /\ Owed(e)
      BY <1>1, <1>2, <1>9 DEF Dispatch, Working, ControlOK, Owed, Retired
    <2>2. pc'[p] # "awaitDone"
      BY <1>1, <1>9 DEF TypeOK, Dispatch, ControlOK
    <2> QED
      BY <2>1, <2>2, OwedStays DEF Owed, Retired, Started
  <1>10. CASE p \in Admin /\ InvalidateAndWait(p)
    <2>1. pc'[p] # "awaitDone"
      BY <1>1, <1>10 DEF TypeOK, InvalidateAndWait
    <2>2. CASE pc'[p] = "await"
      <3>1. PICK e \in PendingOf(call[p].conn) : at'[p] = e
        BY <1>1, <1>10, <2>2 DEF TypeOK, InvalidateAndWait
      <3>2. e \in Entry /\ Owed(e)
        BY <1>1, <3>1 DEF PendingOf, TypeOK, IInv, PendingTracksCloses, Owed
      <3> QED
        BY <2>1, <3>1, <3>2, OwedStays DEF Owed, Retired, Started
    <2> QED
      BY <2>1, <2>2
  <1>11. CASE p \in Admin /\ Administer(p) /\ ~InvalidateAndWait(p)
    BY <1>1, <1>11 DEF TypeOK, Administer, UpdateProfile, Invalidate, InvalidateAndWaitWhere, Close,
          JoinClose, SweepEntry, SweepPending, AwaitPending, Drain, FinishManagerClose
  <1> QED
    BY <1>4, <1>5, <1>6, <1>7, <1>8, <1>9, <1>10, <1>11, Movers DEF Retirement

\* A sweep that has listed m.pending has closes before it that are owed, and a second Close
\* waits for one that has begun.
LEMMA ListedStep ==
  ASSUME IInv, Wakers, [Next]_vars, NEW p \in Admin
  PROVE  /\ pc'[p] = "pendingSweep" => \A e \in call'[p].todo : Owed(e)'
         /\ pc'[p] = "joinClose" => closing' # "no"
  <1>1. TypeOK /\ p \in Process /\ ControlOK(p) /\ call[p].todo \subseteq Entry
    BY CallType DEF IInv, ControlInv, Process
  <1>2. /\ pc[p] = "pendingSweep" => \A e \in call[p].todo : Owed(e)
        /\ pc[p] = "joinClose" => closing # "no"
    BY DEF Wakers
  <1>3. closing # "no" => closing' # "no"
    BY ClosingStep
  <1>4. CASE Same(p)
    BY <1>1, <1>2, <1>3, <1>4, OwedStays DEF Same
  <1>5. CASE SweepPending(p)
    <2>1. call'[p].todo = pending /\ pc'[p] = "pendingSweep"
      BY <1>1, <1>5 DEF TypeOK, Call, SweepPending
    <2>2. \A e \in pending : e \in Entry /\ Owed(e)
      BY <1>1 DEF TypeOK, IInv, PendingTracksCloses, Owed
    <2> QED
      BY <2>1, <2>2, OwedStays
  <1>6. CASE Close(p)
    BY <1>1, <1>6 DEF TypeOK, Close
  <1>7. CASE Retirement(p)
    <2>1. CASE Retire(p)
      BY <1>1, <2>1, ProcessAssumption DEF TypeOK, Retire, AfterRetire
    <2>2. CASE Cancel(p) \/ Dispatch(p) \/ Await(p)
      BY <1>1, <2>2 DEF TypeOK, Cancel, Dispatch, Await, ControlOK
    <2> QED
      BY <1>7, <2>1, <2>2 DEF Retirement
  <1>8. CASE Administer(p) /\ ~SweepPending(p) /\ ~Close(p)
    BY <1>1, <1>8 DEF TypeOK, Administer, UpdateProfile, Invalidate, InvalidateAndWait,
          InvalidateAndWaitWhere, JoinClose, SweepEntry, AwaitPending, Drain, FinishManagerClose
  <1> QED
    BY <1>1, <1>4, <1>5, <1>6, <1>7, <1>8, Movers, ProcessAssumption

\* A Close that has begun is at work until it has published its result.
LEMMA CloserWorks ==
  ASSUME IInv, Wakers, [Next]_vars, closing' = "begun"
  PROVE  \E q \in Admin : Closing(q)'
  <1>1. TypeOK
    BY DEF IInv
  <1>2. CASE closing = "begun"
    <2>1. PICK q \in Admin : Closing(q)
      BY <1>2 DEF Wakers
    <2>2. q \in Process /\ ControlOK(q) /\ CloserOK(q) /\ q \notin Caller
          /\ call[q].kind = "close" /\ pc[q] \notin {"start", "joinClose", "done"}
      BY <2>1, ProcessAssumption DEF IInv, ControlInv, CloserInv, Process, Closing
    <2>3. CASE Same(q)
      BY <2>1, <2>3 DEF Same, Closing
    <2>4. CASE Retire(q)
      BY <1>1, <2>2, <2>4 DEF TypeOK, Call, Retire, AfterRetire, Closing
    <2>5. CASE Cancel(q) \/ Dispatch(q) \/ Await(q)
      BY <1>1, <2>2, <2>5 DEF TypeOK, Call, Cancel, Dispatch, Await, CloserOK, Closing
    <2>6. CASE SweepEntry(q) \/ SweepPending(q) \/ AwaitPending(q)
      BY <1>1, <2>2, <2>6 DEF TypeOK, Call, SweepEntry, SweepPending, AwaitPending, Closing
    <2>7. ~FinishManagerClose(q) /\ ~Drain(q)
      BY <1>2, <2>2 DEF FinishManagerClose, Drain
    <2>8. ~UpdateProfile(q) /\ ~Invalidate(q) /\ ~InvalidateAndWait(q)
          /\ ~InvalidateAndWaitWhere(q) /\ ~Close(q) /\ ~JoinClose(q)
      BY <2>2 DEF UpdateProfile, Invalidate, InvalidateAndWait, InvalidateAndWaitWhere, Close,
            JoinClose, CloserOK
    <2> QED
      BY <2>2, <2>3, <2>4, <2>5, <2>6, <2>7, <2>8, Movers DEF Retirement, Administer
  <1>3. CASE closing # "begun"
    <2>1. PICK q \in Admin : Close(q) /\ closing = "no"
      <3>1. closing = "no" /\ closing' # closing
        BY <1>3, ClosingStep
      <3> QED
        BY <3>1, OnlyClose DEF FinishManagerClose
    <2> QED
      BY <1>1, <2>1 DEF TypeOK, Call, Close, Closing, Process
  <1> QED
    BY <1>2, <1>3

\* The wakers stay at work.
LEMMA WakersStep ==
  ASSUME IInv, Loads, Wakers, [Next]_vars
  PROVE  Wakers'
  BY HandsStep, WaitsStep, ListedStep, CloserWorks DEF Wakers

\* At the start nobody works or waits.
LEMMA InitWakers == Init => Wakers
  <1> SUFFICES ASSUME Init PROVE Wakers
    OBVIOUS
  <1>1. \A p \in Process : pc[p] = "start"
    BY DEF Init
  <1>2. \A e \in Entry : ~Owed(e)
    BY DEF Init, Owed, Retired, Unused
  <1> QED
    BY <1>1, <1>2 DEF Init, Wakers, Process

\* What the wakers do is enough for all who wait.
LEMMA WakersSuffice ==
  ASSUME IInv, Wakers
  PROVE  WorkAndWaitersMeet
  <1> SUFFICES NobodyWaitsInVain
    BY DEF IInv, WorkAndWaitersMeet
  <1>1. \A p \in Process : pc[p] = "await" => at[p] \in Entry
    BY DEF IInv, ControlInv, ControlOK, Working
  <1>2. \A p \in Admin : call[p].todo \subseteq Entry
    BY CallType DEF IInv, Process
  <1>3. \A e \in Entry : Owed(e) => CloseComes(e)
    BY DEF Wakers, Owed, CloseComes, Retiring
  <1>4. \A p \in Admin : pc[p] = "joinClose" =>
              closing = "finished" \/ \E q \in Admin : Closing(q)
    BY DEF Wakers, IInv, TypeOK
  <1> QED
    BY <1>1, <1>2, <1>3, <1>4 DEF NobodyWaitsInVain, Wakers, Closing, Process

\* No unfinished work is left without a caller that waits for it, and nobody waits in vain:
\* whoever waits for a construction, for the close of a provider or for a Close, there is a
\* goroutine that takes it there and does not wait for him.
THEOREM WorkMeetsWaiters == Spec => []WorkAndWaitersMeet
  <1>1. IInv /\ Promises /\ Wakers /\ [Next]_vars => Wakers'
    BY WakersStep DEF Promises
  <1>2. IInv /\ Wakers => WorkAndWaitersMeet
    BY WakersSuffice
  <1> QED
    BY InitWakers, <1>1, <1>2, Kept, PTL DEF Spec
=============================================================================
