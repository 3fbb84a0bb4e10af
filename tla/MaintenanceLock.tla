--------------------------- MODULE MaintenanceLock ---------------------------
(***************************************************************************)
(* DB.acquireMaintenanceLock (internal/database/database.go): a table of   *)
(* sync.RWMutex values, one per key in use, made on demand, counted and    *)
(* pruned.  A step is one maintMu section or one operation of the          *)
(* RWMutex, whose rules are Go's: one writer at a time takes the turn, a   *)
(* writer with the turn makes later readers queue, and the readers that    *)
(* queued are all admitted when it unlocks.                                *)
(***************************************************************************)
EXTENDS Naturals, FiniteSets, Absent

CONSTANTS
    Proc,    \* goroutines that want file or connection locks
    Key,     \* "file:<path>" and "conn:<id>"
    Mutex    \* identities of *sync.RWMutex values

ASSUME ProcFinite == IsFiniteSet(Proc)
ASSUME NoneIsNothing == None \notin Proc \cup Key \cup Mutex

VARIABLES
    maint,     \* d.maint: the mutex of each key
    maintRefs, \* d.maintRefs: holders and waiters of each key
    turn,      \* per mutex: the writer that holds it or waits for its readers
    readers,   \* per mutex: the readers admitted
    queued,    \* per mutex: the readers waiting for the writer
    lockPc, key, mode, mine  \* per goroutine: control, arguments, and l

lockVars == <<maint, maintRefs, turn, readers, queued, lockPc, key, mode, mine>>
mutexVars == <<turn, readers, queued>>
tableVars == <<maint, maintRefs>>
argVars == <<key, mode, mine>>

LockPCs == {"idle", "retained", "turn", "queued", "held", "drop"}

LockTypeOK ==
    /\ maint \in [Key -> Mutex \cup {None}]
    /\ maintRefs \in [Key -> Nat]
    /\ turn \in [Mutex -> Proc \cup {None}]
    /\ readers \in [Mutex -> SUBSET Proc]
    /\ queued \in [Mutex -> SUBSET Proc]
    /\ lockPc \in [Proc -> LockPCs]
    /\ key \in [Proc -> Key \cup {None}]
    /\ mode \in [Proc -> {"read", "write"}]
    /\ mine \in [Proc -> Mutex \cup {None}]

LockInit ==
    /\ maint = [k \in Key |-> None]
    /\ maintRefs = [k \in Key |-> 0]
    /\ turn = [l \in Mutex |-> None]
    /\ readers = [l \in Mutex |-> {}]
    /\ queued = [l \in Mutex |-> {}]
    /\ lockPc = [p \in Proc |-> "idle"]
    /\ key = [p \in Proc |-> None]
    /\ mode = [p \in Proc |-> "read"]
    /\ mine = [p \in Proc |-> None]

LockGoto(p, where) == lockPc' = [lockPc EXCEPT ![p] = where]

\* A mutex is fresh when no goroutine and no key refers to it: Go may have
\* collected the value that had this identity before.
Fresh(l) == (\A p \in Proc : mine[p] # l) /\ (\A k \in Key : maint[k] # l)

-----------------------------------------------------------------------------
(* The first maintMu section: find or make the mutex of k and retain it.    *)
Retain(p, k, m) ==
    /\ lockPc[p] = "idle"
    /\ \E l \in Mutex :
          /\ IF maint[k] = None THEN Fresh(l) ELSE l = maint[k]
          /\ maint' = [maint EXCEPT ![k] = l]
          /\ mine' = [mine EXCEPT ![p] = l]
    /\ maintRefs' = [maintRefs EXCEPT ![k] = @ + 1]
    /\ key' = [key EXCEPT ![p] = k]
    /\ mode' = [mode EXCEPT ![p] = m]
    /\ LockGoto(p, "retained")
    /\ UNCHANGED mutexVars

\* l.Lock(): the turn first, then the lock once the readers have left.
Lock(p) ==
    /\ lockPc[p] = "retained" /\ mode[p] = "write"
    /\ turn[mine[p]] = None
    /\ turn' = [turn EXCEPT ![mine[p]] = p]
    /\ LockGoto(p, "turn")
    /\ UNCHANGED <<tableVars, argVars, readers, queued>>

LockGranted(p) ==
    /\ lockPc[p] = "turn"
    /\ readers[mine[p]] = {}
    /\ LockGoto(p, "held")
    /\ UNCHANGED <<tableVars, argVars, mutexVars>>

\* l.RLock(): at once, or after the writer whose turn it is.
RLock(p) ==
    /\ lockPc[p] = "retained" /\ mode[p] = "read"
    /\ turn[mine[p]] = None
    /\ readers' = [readers EXCEPT ![mine[p]] = @ \cup {p}]
    /\ LockGoto(p, "held")
    /\ UNCHANGED <<tableVars, argVars, turn, queued>>

RLockQueues(p) ==
    /\ lockPc[p] = "retained" /\ mode[p] = "read"
    /\ turn[mine[p]] # None
    /\ queued' = [queued EXCEPT ![mine[p]] = @ \cup {p}]
    /\ LockGoto(p, "queued")
    /\ UNCHANGED <<tableVars, argVars, turn, readers>>

RLockGranted(p) ==
    /\ lockPc[p] = "queued"
    /\ p \in readers[mine[p]]
    /\ LockGoto(p, "held")
    /\ UNCHANGED <<tableVars, argVars, mutexVars>>

\* Mutant: the write side is not unlocked.
UnlockForgotten(p) ==
    /\ lockPc[p] = "held" /\ mode[p] = "write"
    /\ LockGoto(p, "drop")
    /\ UNCHANGED <<tableVars, argVars, mutexVars>>

\* The release function: first the mutex.
Unlock(p) ==
    /\ lockPc[p] = "held" /\ mode[p] = "write"
    /\ turn' = [turn EXCEPT ![mine[p]] = None]
    /\ readers' = [readers EXCEPT ![mine[p]] = queued[mine[p]]]
    /\ queued' = [queued EXCEPT ![mine[p]] = {}]
    /\ LockGoto(p, "drop")
    /\ UNCHANGED <<tableVars, argVars>>

RUnlock(p) ==
    /\ lockPc[p] = "held" /\ mode[p] = "read"
    /\ readers' = [readers EXCEPT ![mine[p]] = @ \ {p}]
    /\ LockGoto(p, "drop")
    /\ UNCHANGED <<tableVars, argVars, turn, queued>>

\* Mutants: the entry of the key is pruned with goroutines still on it, or never.
DropPrunesAlways(p) ==
    /\ lockPc[p] = "drop"
    /\ maintRefs' = [maintRefs EXCEPT ![key[p]] = @ - 1]
    /\ maint' = [maint EXCEPT ![key[p]] = None]
    /\ key' = [key EXCEPT ![p] = None]
    /\ mine' = [mine EXCEPT ![p] = None]
    /\ LockGoto(p, "idle")
    /\ UNCHANGED <<mutexVars, mode>>
DropNeverPrunes(p) ==
    /\ lockPc[p] = "drop"
    /\ maintRefs' = [maintRefs EXCEPT ![key[p]] = @ - 1]
    /\ key' = [key EXCEPT ![p] = None]
    /\ mine' = [mine EXCEPT ![p] = None]
    /\ LockGoto(p, "idle")
    /\ UNCHANGED <<mutexVars, mode, maint>>

\* Then the second maintMu section: the last one out prunes the key.
Drop(p) ==
    /\ lockPc[p] = "drop"
    /\ LET k == key[p] IN
          /\ maintRefs' = [maintRefs EXCEPT ![k] = @ - 1]
          /\ maint' = IF maintRefs[k] = 1 /\ maint[k] = mine[p]
                      THEN [maint EXCEPT ![k] = None] ELSE maint
    /\ key' = [key EXCEPT ![p] = None]
    /\ mine' = [mine EXCEPT ![p] = None]
    /\ LockGoto(p, "idle")
    /\ UNCHANGED <<mutexVars, mode>>

LockStep(p) ==
    \/ Lock(p) \/ LockGranted(p) \/ Unlock(p)
    \/ RLock(p) \/ RLockQueues(p) \/ RLockGranted(p) \/ RUnlock(p)
    \/ Drop(p)

LockNext ==
    \E p \in Proc :
        \/ \E k \in Key, m \in {"read", "write"} : Retain(p, k, m)
        \/ LockStep(p)

LockSpec == LockInit /\ [][LockNext]_lockVars

(***************************************************************************)
(* Holders release (the release functions are deferred), the scheduler     *)
(* runs who can run, and Go's mutex does not starve a writer that waits    *)
(* for the turn, though others may take it in between.                     *)
(***************************************************************************)
LockFairness == \A p \in Proc : WF_lockVars(LockStep(p)) /\ SF_lockVars(Lock(p))
FairLockSpec == LockSpec /\ LockFairness

-----------------------------------------------------------------------------
(* Correctness.                                                             *)

\* The lock as its callers see it.
AbstractLock ==
    [p \in Proc |->
        [key  |-> IF lockPc[p] \in {"idle", "drop"} THEN None ELSE key[p],
         mode |-> IF lockPc[p] \in {"idle", "drop"} THEN "read" ELSE mode[p],
         held |-> lockPc[p] = "held"]]

KL == INSTANCE KeyedLock WITH lock <- AbstractLock

\* The counted table of mutexes is a keyed reader/writer lock: pruning never lets
\* two goroutines lock different mutexes under one key (acquireMaintenanceLock).
ImplementsKeyedLock == KL!LockSpec

\* A key nobody holds or waits for has no mutex and no count: the table does not
\* grow with the files and connections it has served.
PrunesUnused ==
    \A k \in Key : (\A p \in Proc : key[p] # k) =>
        maint[k] = None /\ maintRefs[k] = 0

\* Whoever asks for the lock gets it, also a writer among readers that keep coming.
EverybodyServed == \A p \in Proc : (lockPc[p] = "retained") ~> (lockPc[p] = "held")

=============================================================================
