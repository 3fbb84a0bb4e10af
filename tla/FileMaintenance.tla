--------------------------- MODULE FileMaintenance ---------------------------
(***************************************************************************)
(* internal/database/database.go over dbcore/manager.go: DB.get takes the  *)
(* read side of the file's maintenance lock inside GetWithGuard,           *)
(* DB.WithMaintenance takes the write side, closes every managed provider  *)
(* on the file with InvalidateAndWaitWhere, runs the file operation and    *)
(* closes again, and DB.Open builds an unmanaged provider for a probe      *)
(* under the read side.                                                    *)
(*                                                                         *)
(* The lock is KeyedLock, which MaintenanceLock implements.  Everything    *)
(* the manager does is the action of ProviderManager of the same name.     *)
(***************************************************************************)
EXTENDS ProviderManager

CONSTANTS
    Maintainer,   \* the administrators that run WithMaintenance
    Prober        \* goroutines that run Open and use and close its provider

Locker == Process \cup Prober

ASSUME RoleAssumption ==
    /\ Maintainer \subseteq Admin
    /\ Prober \cap Process = {}

VARIABLES
    lock,    \* [Locker -> L!LockRecord]: who asked for and who holds which file
    stage,   \* where each maintainer is in WithMaintenance: resolve, queue, acquire,
             \* before (first retire), fn, again (second retire), release, returned
    probe    \* per prober: the file of the configuration, the control state (idle,
             \* wait, open, unlock, using, closed), and whether it has a provider

maintVars == <<lock, stage, probe>>
allVars == <<vars, maintVars>>

L == INSTANCE KeyedLock WITH Proc <- Locker, Key <- Files

\* A maintainer's administrator call is always the one WithMaintenance prepares.
MInit ==
    /\ Init
    /\ \A p \in Maintainer : call[p].kind = "where" /\ call[p].file = FileOf[call[p].conn][0]
    /\ L!LockInit
    /\ stage = [p \in Maintainer |-> "resolve"]
    /\ probe \in [Prober -> [file : Files, state : {"idle"}, prov : {FALSE}]]

EntryFile(e) == FileOf[ent[e].conn][ent[e].cfg]

-----------------------------------------------------------------------------
(* DB.get: the guard asks for the read side, waits for it, and the release  *)
(* is deferred to the return of GetWithGuard.                               *)

GuardAsks(c) ==
    /\ pc[c] = "guard"
    /\ L!Request(c, EntryFile(at[c]), "read")
    /\ UNCHANGED <<vars, stage, probe>>

\* Mutant: the read side is taken while a maintainer has the write side.
GuardBarges(c) ==
    /\ lock[c].key # None
    /\ lock' = [lock EXCEPT ![c].held = TRUE]
    /\ Guard(c) /\ pc'[c] = "begin"
    /\ UNCHANGED <<stage, probe>>

GuardReturns(c) ==
    /\ L!Acquire(c)
    /\ Guard(c) /\ pc'[c] = "begin"
    /\ UNCHANGED <<stage, probe>>

\* Mutant: a lookup that fails keeps the read side.
GetReleasesOnSuccess(c) ==
    /\ pc[c] = "done" /\ call[c].res = "provider"
    /\ L!Release(c)
    /\ UNCHANGED <<vars, stage, probe>>

GetReleases(c) ==
    /\ pc[c] = "done"
    /\ L!Release(c)
    /\ UNCHANGED <<vars, stage, probe>>

GetSteps(c) ==
    \/ /\ GetClosed(c) \/ GetJoin(c) \/ GetCreate(c) \/ CheckEntry(c) \/ StartOrJoin(c)
       /\ UNCHANGED maintVars
    \/ /\ AwaitDone(c) \/ Leave(c) \/ ReadResult(c) \/ Retirement(c)
       /\ UNCHANGED maintVars
    \/ GuardAsks(c) \/ GuardReturns(c) \/ GetReleases(c)

-----------------------------------------------------------------------------
(* DB.WithMaintenance.                                                      *)

ToStage(p, s) == stage' = [stage EXCEPT ![p] = s]

\* The profile is read once: lock, closes and file operation all use this reading.
Resolve(p) ==
    /\ stage[p] = "resolve"
    /\ call' = [call EXCEPT ![p].file = FileOf[call[p].conn][profile[call[p].conn]]]
    /\ ToStage(p, "queue")
    /\ UNCHANGED <<ent, managerVars, profile, pc, at, lock, probe>>

Queue(p) ==
    /\ stage[p] = "queue"
    /\ L!Request(p, call[p].file, "write")
    /\ ToStage(p, "acquire")
    /\ UNCHANGED <<vars, probe>>

AcquireWrite(p) ==
    /\ stage[p] = "acquire"
    /\ L!Acquire(p)
    /\ ToStage(p, "before")
    /\ UNCHANGED <<vars, probe>>

\* retire(), before and after fn: InvalidateAndWaitWhere, step by step.
RetireFile(p) ==
    /\ stage[p] \in {"before", "again"}
    /\ Administer(p) \/ Retirement(p)
    /\ UNCHANGED maintVars

\* Mutant: a failed close does not stop the file operation.
RetiredIgnoringErrors(p) ==
    /\ stage[p] = "before" /\ pc[p] = "done"
    /\ ToStage(p, "fn")
    /\ UNCHANGED <<vars, lock, probe>>

\* If any close failed the file operation is skipped, else fn runs.
RetiredBefore(p) ==
    /\ stage[p] = "before" /\ pc[p] = "done"
    /\ ToStage(p, IF call[p].errs # {} THEN "release" ELSE "fn")
    /\ UNCHANGED <<vars, lock, probe>>

\* fn returns, with or without an error: the second retire starts.
FnReturns(p) ==
    /\ stage[p] = "fn"
    /\ ToStage(p, "again")
    /\ Goto(p, "start")
    /\ UNCHANGED <<ent, managerVars, profile, at, call, lock, probe>>

\* The after hook runs under the lock too; then the deferred release.
RetiredAgain(p) ==
    /\ stage[p] = "again" /\ pc[p] = "done"
    /\ ToStage(p, "release")
    /\ UNCHANGED <<vars, lock, probe>>

\* Mutant: the write side is not released.
MaintenanceKeepsLock(p) ==
    /\ stage[p] = "release"
    /\ ToStage(p, "returned")
    /\ UNCHANGED <<vars, lock, probe>>

MaintenanceReturns(p) ==
    /\ stage[p] = "release"
    /\ L!Release(p)
    /\ ToStage(p, "returned")
    /\ UNCHANGED <<vars, probe>>

WithMaintenance(p) ==
    \/ Resolve(p) \/ Queue(p) \/ AcquireWrite(p) \/ RetireFile(p) \/ RetiredBefore(p)
    \/ FnReturns(p) \/ RetiredAgain(p) \/ MaintenanceReturns(p)

-----------------------------------------------------------------------------
(* DB.Open for a probe; the caller closes the provider it got.              *)

Probing(x, from, to) ==
    /\ probe[x].state = from
    /\ probe' = [probe EXCEPT ![x].state = to]
    /\ UNCHANGED <<vars, stage>>

OpenAsks(x) == Probing(x, "idle", "wait") /\ L!Request(x, probe[x].file, "read")
OpenAcquires(x) == Probing(x, "wait", "open") /\ L!Acquire(x)

\* Registry.Open: the factory returns a provider or an error.
OpenFactory(x) ==
    /\ probe[x].state = "open"
    /\ \E ok \in BOOLEAN :
          probe' = [probe EXCEPT ![x].state = "unlock", ![x].prov = ok]
    /\ UNCHANGED <<vars, stage, lock>>

\* The deferred release: the caller has the provider and the lock is free.
OpenReturns(x) == Probing(x, "unlock", "using") /\ L!Release(x)

ProbeCloses(x) ==
    /\ probe[x].state = "using"
    /\ probe' = [probe EXCEPT ![x].state = "closed", ![x].prov = FALSE]
    /\ UNCHANGED <<vars, stage, lock>>

Probe(x) == OpenAsks(x) \/ OpenAcquires(x) \/ OpenFactory(x) \/ OpenReturns(x) \/ ProbeCloses(x)

-----------------------------------------------------------------------------
Returned ==
    /\ \A p \in Process : pc[p] \in {"start", "done"} /\ lock[p] = L!NoLock
    /\ \A p \in Maintainer : stage[p] = "returned"
    /\ \A x \in Prober : probe[x].state = "closed"
    /\ UNCHANGED allVars

MNext ==
    \/ \E c \in Caller : GetSteps(c) \/ (ContextDone(c) /\ UNCHANGED maintVars)
    \/ \E p \in Maintainer : WithMaintenance(p)
    \/ \E p \in Admin \ Maintainer : (Administer(p) \/ Retirement(p)) /\ UNCHANGED maintVars
    \/ \E e \in Entry : Background(e) /\ UNCHANGED maintVars
    \/ \E x \in Prober : Probe(x)
    \/ Returned

MSpec == MInit /\ [][MNext]_allVars

-----------------------------------------------------------------------------
(* Correctness.                                                             *)

\* From fn to the release of the lock the file is the maintainer's.
Maintaining(p) == stage[p] \in {"fn", "again", "release"} /\ call[p].errs = {}

\* While a file operation runs no managed provider is open on its file, under
\* construction or being closed, whichever profile it belongs to (WithMaintenance).
NoManagedProviderDuringFn ==
    \A p \in Maintainer, e \in Entry :
        Maintaining(p) /\ ent[e].load = "loaded" /\ EntryFile(e) = call[p].file =>
            /\ ent[e].prov # "open"
            /\ ent[e].build \notin {"started", "calling"}

\* If a close that was due when the maintainer came has failed, fn does not run: it
\* is not run against a handle that may still be open (WithMaintenance).
FailedCloseStopsFn ==
    \A p \in Maintainer : stage[p] = "fn" =>
        \A e \in call[p].seen : Matches(p, e) => ~Failing(e)
=============================================================================
