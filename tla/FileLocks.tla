------------------------------ MODULE FileLocks ------------------------------
(***************************************************************************)
(* The two halves of internal/database/database.go: the table of mutexes   *)
(* (MaintenanceLock), and lookups and maintenance on top of the keyed lock *)
(* that table implements (FileMaintenance).  They meet in KeyedLock alone, *)
(* so each one runs with the other standing still.                         *)
(***************************************************************************)
EXTENDS FileMaintenance, MaintenanceLock

VARIABLE half

locksVars == <<half, allVars, lockVars>>

\* The half that stands still has one initial state.
LocksInit ==
    /\ half \in {"files", "mutexes"}
    /\ MInit /\ LockInit
    /\ half = "mutexes" => \A p \in Process : call[p].conn = CHOOSE k \in Conn : TRUE

OfFiles(A) == half = "files" /\ A /\ UNCHANGED <<half, lockVars>>
OfMutexes(A) == half = "mutexes" /\ A /\ UNCHANGED <<half, allVars>>

LocksNext == OfFiles(MNext) \/ OfMutexes(LockNext)

\* Each goroutine of the half that acts goes on when it can, and a writer gets its turn
\* among others in the end: sync.Mutex hands over to a waiter that starves.
LocksFairness ==
    /\ \A c \in Caller : WF_locksVars(OfFiles(GetSteps(c)))
    /\ \A p \in Maintainer :
          /\ WF_locksVars(OfFiles(WithMaintenance(p)))
          /\ SF_locksVars(OfFiles(AcquireWrite(p)))
    /\ \A p \in Admin \ Maintainer :
          WF_locksVars(OfFiles((Administer(p) \/ Retirement(p)) /\ UNCHANGED maintVars))
    /\ \A e \in Entry : WF_locksVars(OfFiles(Background(e) /\ UNCHANGED maintVars))
    /\ \A x \in Prober : WF_locksVars(OfFiles(Probe(x)))
    /\ \A p \in Proc : WF_locksVars(OfMutexes(LockStep(p))) /\ SF_locksVars(OfMutexes(Lock(p)))

FairLocksSpec == LocksInit /\ [][LocksNext]_locksVars /\ LocksFairness

-----------------------------------------------------------------------------
\* Maintenance that began returns and no lookup waits for ever on its file: the waits of
\* the manager and of the file lock do not deadlock, whatever fails and whoever moves.
FileWorkEnds ==
    half = "files" =>
        <>(/\ \A p \in Maintainer : stage[p] = "returned"
           /\ \A c \in Caller : pc[c] = "done" /\ lock[c] = L!NoLock)
=============================================================================
