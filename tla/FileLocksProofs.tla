--------------------------- MODULE FileLocksProofs ---------------------------
(***************************************************************************)
(* Theorems about both halves of FileLocks, for any lookups, maintainers,  *)
(* probers, goroutines, profiles, files and mutexes.                       *)
(*                                                                         *)
(* The table of mutexes is pruned and implements KeyedLock. The inductive  *)
(* invariant says that every goroutine on a key refers to the mutex of     *)
(* that key, which no other key has, and that the mutex grants Go's        *)
(* reader/writer exclusion. Nobody is left in the queue of a mutex: who is *)
(* queued has before it a goroutine whose unlock lets it in.               *)
(*                                                                         *)
(* On top of the keyed lock, while a file operation runs no managed        *)
(* provider is open on its file, and it does not run after a failed close. *)
(* The manager's invariants carry over, for the facade adds nothing to     *)
(* what the manager does but the reuse of a maintainer's call. On top of   *)
(* them the invariant says which side of the lock each goroutine has where *)
(* it relies on it: a lookup starts a construction under the read side of  *)
(* its entry's file, a maintainer sweeps and works under the write side.   *)
(* So between a maintainer's Acquire and its Release no construction can   *)
(* start on the file, and what was there before, the sweep has closed.     *)
(*                                                                         *)
(* Towards its callers the manager under the facade is still the pool it   *)
(* implements alone, and the two kinds of waiting do not meet in a circle: *)
(* what the holder of a file's lock waits for waits for no file.           *)
(***************************************************************************)
EXTENDS FileLocks, ProviderManagerProofs

-----------------------------------------------------------------------------
(* The table of mutexes.                                                    *)

Users(k) == {p \in Proc : key[p] = k}

\* The table: idle goroutines refer to nothing, the others to the mutex of their key.
TableInv ==
    /\ \A p \in Proc : lockPc[p] = "idle" <=> key[p] = None
    /\ \A p \in Proc : key[p] = None => mine[p] = None
    /\ \A p \in Proc : key[p] # None => mine[p] # None /\ mine[p] = maint[key[p]]
    /\ \A j, k \in Key : maint[j] = maint[k] /\ maint[j] # None => j = k

\* maintRefs counts the goroutines of a key; a key that has a mutex has some.
RefsInv ==
    \A k \in Key :
        /\ maintRefs[k] = Cardinality(Users(k))
        /\ maint[k] # None => \E p \in Proc : key[p] = k

\* The mutexes: who has the turn, who reads, who is queued.
MutexInv ==
    /\ \A p \in Proc, l \in Mutex :
          turn[l] = p => mine[p] = l /\ mode[p] = "write" /\ lockPc[p] \in {"turn", "held"}
    /\ \A p \in Proc, l \in Mutex :
          p \in readers[l] => mine[p] = l /\ mode[p] = "read" /\ lockPc[p] \in {"queued", "held"}
    /\ \A p \in Proc, l \in Mutex :
          p \in queued[l] => mine[p] = l /\ mode[p] = "read" /\ lockPc[p] = "queued"
    /\ \A l \in Mutex : readers[l] \cap queued[l] = {}
    /\ \A p \in Proc : lockPc[p] = "turn" => mode[p] = "write"
    /\ \A p \in Proc : lockPc[p] \in {"turn", "held"} /\ mode[p] = "write" => turn[mine[p]] = p
    /\ \A p \in Proc : lockPc[p] = "held" /\ mode[p] = "write" => readers[mine[p]] = {}
    /\ \A p \in Proc : lockPc[p] = "held" /\ mode[p] = "read" => p \in readers[mine[p]]

MutexesInv == LockTypeOK /\ TableInv /\ RefsInv /\ MutexInv

-----------------------------------------------------------------------------
(* The initial states, and counting.                                        *)

\* The invariant holds before any goroutine has asked for a lock.
LEMMA InitMutexes == LockInit => MutexesInv
  <1> SUFFICES ASSUME LockInit PROVE MutexesInv
    OBVIOUS
  <1>1. LockTypeOK
    BY DEF LockInit, LockTypeOK, LockPCs
  <1>2. TableInv
    BY DEF LockInit, TableInv
  <1>3. RefsInv
    <2> SUFFICES ASSUME NEW k \in Key
                 PROVE  maintRefs[k] = Cardinality(Users(k)) /\ maint[k] = None
      BY DEF RefsInv
    <2>1. Users(k) = {}
      BY NoneIsNothing DEF LockInit, Users
    <2> QED
      BY <2>1, FS_EmptySet DEF LockInit
  <1>4. MutexInv
    BY NoneIsNothing DEF LockInit, MutexInv
  <1> QED
    BY <1>1, <1>2, <1>3, <1>4 DEF MutexesInv

\* How the set of goroutines on a key changes when one of them gets or drops it.
LEMMA UsersCount ==
  ASSUME NEW p \in Proc, NEW k \in Key, LockTypeOK
  PROVE  /\ IsFiniteSet(Users(k))
         /\ Cardinality(Users(k)) \in Nat
         /\ p \notin Users(k) => Cardinality(Users(k) \cup {p}) = Cardinality(Users(k)) + 1
         /\ p \in Users(k) => Cardinality(Users(k) \ {p}) = Cardinality(Users(k)) - 1
  <1>1. Users(k) \subseteq Proc
    BY DEF Users
  <1>2. IsFiniteSet(Users(k))
    BY <1>1, ProcFinite, FS_Subset
  <1> QED
    BY <1>2, FS_AddElement, FS_RemoveElement, FS_CardinalityType

\* Retain is the only step that adds a goroutine to a key.
LEMMA RetainUsers ==
  ASSUME MutexesInv, NEW p \in Proc, NEW k \in Key, NEW m \in {"read", "write"}, Retain(p, k, m)
  PROVE  \A j \in Key : Users(j)' = IF j = k THEN Users(j) \cup {p} ELSE Users(j)
  <1>1. key[p] = None /\ key' = [key EXCEPT ![p] = k] /\ key \in [Proc -> Key \cup {None}]
    BY DEF MutexesInv, LockTypeOK, TableInv, Retain
  <1> QED
    BY <1>1, NoneIsNothing DEF Users

\* Drop is the only step that takes one away.
LEMMA DropUsers ==
  ASSUME MutexesInv, NEW p \in Proc, Drop(p)
  PROVE  /\ key[p] \in Key
         /\ p \in Users(key[p])
         /\ \A j \in Key : Users(j)' = IF j = key[p] THEN Users(j) \ {p} ELSE Users(j)
  <1>1. key' = [key EXCEPT ![p] = None] /\ key \in [Proc -> Key \cup {None}] /\ key[p] # None
    BY DEF MutexesInv, LockTypeOK, TableInv, Drop
  <1> QED
    BY <1>1, NoneIsNothing DEF Users

-----------------------------------------------------------------------------
(* Every step preserves the invariant.                                      *)

\* The count a Drop lowers is the number of goroutines on the key, so it stays in Nat.
LEMMA LockTypeStep == ASSUME MutexesInv, [LockNext]_lockVars PROVE LockTypeOK'
  <1> USE DEF LockPCs, LockGoto
  <1>1. LockTypeOK
    BY DEF MutexesInv
  <1>2. ASSUME NEW p \in Proc, NEW k \in Key, NEW m \in {"read", "write"}, Retain(p, k, m)
        PROVE  LockTypeOK'
    BY <1>1, <1>2 DEF LockTypeOK, Retain, mutexVars
  <1>3. ASSUME NEW p \in Proc, Lock(p) \/ LockGranted(p) \/ RLock(p) \/ RLockQueues(p)
                                  \/ RLockGranted(p)
        PROVE  LockTypeOK'
    BY <1>1, <1>3 DEF LockTypeOK, Lock, LockGranted, RLock, RLockQueues, RLockGranted,
                      tableVars, argVars, mutexVars
  <1>4. ASSUME NEW p \in Proc, Unlock(p) \/ RUnlock(p)
        PROVE  LockTypeOK'
    <2>1. mine[p] \in Mutex
      BY <1>1, <1>4 DEF MutexesInv, LockTypeOK, TableInv, Unlock, RUnlock
    <2> QED
      BY <1>1, <1>4, <2>1 DEF LockTypeOK, Unlock, RUnlock, tableVars, argVars
  <1>5. ASSUME NEW p \in Proc, Drop(p)
        PROVE  LockTypeOK'
    <2>1. key[p] \in Key /\ p \in Users(key[p])
      BY <1>5, DropUsers
    <2>2. maintRefs[key[p]] - 1 \in Nat
      <3>1. /\ maintRefs[key[p]] = Cardinality(Users(key[p]))
            /\ Cardinality(Users(key[p]) \ {p}) = Cardinality(Users(key[p])) - 1
            /\ IsFiniteSet(Users(key[p]) \ {p})
        BY <1>1, <2>1, UsersCount, FS_RemoveElement DEF MutexesInv, RefsInv
      <3> QED
        BY <3>1, FS_CardinalityType
    <2> QED
      BY <1>1, <1>5, <2>1, <2>2 DEF LockTypeOK, Drop, mutexVars
  <1>6. CASE UNCHANGED lockVars
    BY <1>1, <1>6 DEF LockTypeOK, lockVars
  <1> QED
    BY <1>2, <1>3, <1>4, <1>5, <1>6 DEF LockNext, LockStep

\* A goroutine finds the mutex of its key where the others on the key found it: a new
\* mutex is nobody's, and a key is pruned by the last goroutine on it.
LEMMA TableStep == ASSUME MutexesInv, [LockNext]_lockVars PROVE TableInv'
  <1> USE DEF LockGoto
  <1>1. LockTypeOK /\ TableInv /\ RefsInv
    BY DEF MutexesInv
  <1>2. ASSUME NEW p \in Proc, NEW k \in Key, NEW m \in {"read", "write"}, Retain(p, k, m)
        PROVE  TableInv'
    <2>1. PICK l \in Mutex : /\ IF maint[k] = None THEN Fresh(l) ELSE l = maint[k]
                             /\ maint' = [maint EXCEPT ![k] = l]
                             /\ mine' = [mine EXCEPT ![p] = l]
      BY <1>2 DEF Retain
    <2>2. l # None /\ k # None
      BY NoneIsNothing
    <2>3. /\ lockPc[p] = "idle" /\ lockPc' = [lockPc EXCEPT ![p] = "retained"]
          /\ key' = [key EXCEPT ![p] = k]
      BY <1>2 DEF Retain
    <2>4. \A q \in Proc : key[q] = k => maint[k] # None
      BY <1>1, <2>2 DEF TableInv
    <2>5. \A q \in Proc : (lockPc[q] = "idle" <=> key[q] = None)'
      BY <1>1, <2>2, <2>3 DEF LockTypeOK, TableInv
    <2>6. \A q \in Proc : (key[q] = None => mine[q] = None)'
      BY <1>1, <2>1, <2>2, <2>3 DEF LockTypeOK, TableInv
    <2>7. \A q \in Proc : (key[q] # None => mine[q] # None /\ mine[q] = maint[key[q]])'
      BY <1>1, <2>1, <2>2, <2>3, <2>4 DEF LockTypeOK, TableInv
    <2>8. \A i, j \in Key : (maint[i] = maint[j] /\ maint[i] # None => i = j)'
      BY <1>1, <2>1, <2>2 DEF LockTypeOK, TableInv, Fresh
    <2> QED
      BY <2>5, <2>6, <2>7, <2>8 DEF TableInv
  <1>3. ASSUME NEW p \in Proc, Lock(p) \/ LockGranted(p) \/ RLock(p) \/ RLockQueues(p)
                                  \/ RLockGranted(p) \/ Unlock(p) \/ RUnlock(p)
        PROVE  TableInv'
    BY <1>1, <1>3 DEF LockTypeOK, TableInv, Lock, LockGranted, RLock, RLockQueues, RLockGranted,
                      Unlock, RUnlock, tableVars, argVars, mutexVars
  <1>4. ASSUME NEW p \in Proc, Drop(p)
        PROVE  TableInv'
    <2> DEFINE k == key[p]
    <2>1. k \in Key /\ p \in Users(k)
      BY <1>4, DropUsers
    <2>2. /\ lockPc' = [lockPc EXCEPT ![p] = "idle"]
          /\ key' = [key EXCEPT ![p] = None]
          /\ mine' = [mine EXCEPT ![p] = None]
      BY <1>4 DEF Drop
    <2>3. \/ maintRefs[k] = 1 /\ maint' = [maint EXCEPT ![k] = None]
          \/ maint' = maint
      BY <1>4 DEF Drop
    <2>4. maintRefs[k] = 1 => \A q \in Proc : key[q] = k => q = p
      <3>1. maintRefs[k] = 1 => Cardinality(Users(k) \ {p}) = 0 /\ IsFiniteSet(Users(k) \ {p})
        BY <1>1, <2>1, UsersCount, FS_RemoveElement DEF RefsInv
      <3>2. maintRefs[k] = 1 => Users(k) \ {p} = {}
        BY <3>1, FS_EmptySet
      <3> QED
        BY <3>2 DEF Users
    <2>5. \A q \in Proc : (lockPc[q] = "idle" <=> key[q] = None)'
      BY <1>1, <2>2 DEF LockTypeOK, TableInv
    <2>6. \A q \in Proc : (key[q] = None => mine[q] = None)'
      BY <1>1, <2>2 DEF LockTypeOK, TableInv
    <2>7. \A q \in Proc : (key[q] # None => mine[q] # None /\ mine[q] = maint[key[q]])'
      BY <1>1, <2>1, <2>2, <2>3, <2>4 DEF LockTypeOK, TableInv
    <2>8. \A i, j \in Key : (maint[i] = maint[j] /\ maint[i] # None => i = j)'
      BY <1>1, <2>1, <2>3 DEF LockTypeOK, TableInv
    <2> QED
      BY <2>5, <2>6, <2>7, <2>8 DEF TableInv
  <1>5. CASE UNCHANGED lockVars
    BY <1>1, <1>5 DEF TableInv, lockVars
  <1> QED
    BY <1>2, <1>3, <1>4, <1>5 DEF LockNext, LockStep

\* Retain counts the goroutine it adds to the key and Drop the one it takes away, in the
\* section in which the mutex is made or pruned.
LEMMA RefsStep == ASSUME MutexesInv, [LockNext]_lockVars PROVE RefsInv'
  <1>1. LockTypeOK /\ TableInv /\ RefsInv
    BY DEF MutexesInv
  <1>2. ASSUME NEW p \in Proc, NEW k \in Key, NEW m \in {"read", "write"}, Retain(p, k, m)
        PROVE  RefsInv'
    <2>1. k # None /\ key[p] = None
      BY <1>1, <1>2, NoneIsNothing DEF TableInv, Retain
    <2>2. p \notin Users(k)
      BY <2>1 DEF Users
    <2>3. /\ maintRefs' = [maintRefs EXCEPT ![k] = @ + 1]
          /\ key' = [key EXCEPT ![p] = k]
          /\ \A j \in Key : j # k => maint'[j] = maint[j]
      BY <1>1, <1>2 DEF Retain, LockTypeOK
    <2>4. \A j \in Key : maintRefs'[j] = Cardinality(Users(j)')
      <3>1. /\ Users(k)' = Users(k) \cup {p}
            /\ \A j \in Key \ {k} : Users(j)' = Users(j)
        BY <1>2, RetainUsers
      <3>2. Cardinality(Users(k)') = Cardinality(Users(k)) + 1
        BY <1>1, <2>2, <3>1, UsersCount
      <3>3. maintRefs'[k] = maintRefs[k] + 1
        BY <1>1, <2>3 DEF LockTypeOK
      <3>4. ASSUME NEW j \in Key \ {k}
            PROVE  maintRefs'[j] = maintRefs[j]
        BY <1>1, <2>3 DEF LockTypeOK
      <3>5. \A j \in Key : maintRefs[j] = Cardinality(Users(j))
        BY <1>1 DEF RefsInv
      <3>6. maintRefs'[k] = Cardinality(Users(k)')
        BY <3>2, <3>3, <3>5
      <3>7. ASSUME NEW j \in Key \ {k}
            PROVE  maintRefs'[j] = Cardinality(Users(j)')
        BY <3>1, <3>4, <3>5
      <3> QED
        BY <3>6, <3>7
    <2>5. \A j \in Key : maint'[j] # None => \E q \in Proc : key'[q] = j
      <3> SUFFICES ASSUME NEW j \in Key, maint'[j] # None
                   PROVE  \E q \in Proc : key'[q] = j
        OBVIOUS
      <3>1. CASE j = k
        BY <1>1, <2>3, <3>1 DEF LockTypeOK
      <3>2. CASE j # k
        <4>1. PICK q \in Proc : key[q] = j
          BY <1>1, <2>3, <3>2 DEF RefsInv
        <4>2. q # p
          BY <2>1, <4>1, NoneIsNothing
        <4> QED
          BY <1>1, <2>3, <4>1, <4>2 DEF LockTypeOK
      <3> QED
        BY <3>1, <3>2
    <2> QED
      BY <2>4, <2>5 DEF RefsInv
  <1>3. ASSUME NEW p \in Proc, Lock(p) \/ LockGranted(p) \/ RLock(p) \/ RLockQueues(p)
                                  \/ RLockGranted(p) \/ Unlock(p) \/ RUnlock(p)
        PROVE  RefsInv'
    <2>1. UNCHANGED <<maint, maintRefs, key>>
      BY <1>3 DEF Lock, LockGranted, RLock, RLockQueues, RLockGranted, Unlock, RUnlock,
                  tableVars, argVars
    <2> QED
      BY <1>1, <2>1 DEF RefsInv, Users
  <1>4. ASSUME NEW p \in Proc, Drop(p)
        PROVE  RefsInv'
    <2>1. PICK k \in Key : k = key[p] /\ p \in Users(k)
      BY <1>4, DropUsers
    <2>2. k \in Key /\ p \in Users(k)
      BY <2>1
    <2>3. /\ maintRefs' = [maintRefs EXCEPT ![k] = @ - 1]
          /\ key' = [key EXCEPT ![p] = None]
          /\ maint' = IF maintRefs[k] = 1 /\ maint[k] = mine[p]
                      THEN [maint EXCEPT ![k] = None] ELSE maint
      BY <1>4, <2>1 DEF Drop
    <2>4. \A j \in Key : maintRefs'[j] = Cardinality(Users(j)')
      <3>1. /\ Users(k)' = Users(k) \ {p}
            /\ \A j \in Key \ {k} : Users(j)' = Users(j)
        BY <1>4, <2>1, DropUsers
      <3>2. Cardinality(Users(k)') = Cardinality(Users(k)) - 1
        BY <1>1, <2>2, <3>1, UsersCount
      <3> QED
        BY <1>1, <2>2, <2>3, <3>1, <3>2 DEF LockTypeOK, RefsInv
    <2>5. maint[k] = mine[p]
      BY <1>1, <2>2, NoneIsNothing DEF TableInv, Users
    <2>6. \A j \in Key : maint'[j] # None => \E q \in Proc : key'[q] = j
      <3> SUFFICES ASSUME NEW j \in Key, maint'[j] # None
                   PROVE  \E q \in Proc : key'[q] = j
        OBVIOUS
      <3>1. CASE j = k
        <4>1. maintRefs[k] # 1
          BY <1>1, <2>2, <2>3, <2>5, <3>1 DEF LockTypeOK
        <4>2. IsFiniteSet(Users(k) \ {p}) /\ Cardinality(Users(k) \ {p}) # 0
          <5>1. /\ maintRefs[k] = Cardinality(Users(k)) /\ Cardinality(Users(k)) \in Nat
                /\ Cardinality(Users(k) \ {p}) = Cardinality(Users(k)) - 1
                /\ IsFiniteSet(Users(k))
            BY <1>1, <2>2, UsersCount DEF RefsInv
          <5> QED
            BY <4>1, <5>1, FS_RemoveElement
        <4>3. Users(k) \ {p} # {}
          BY <4>2, FS_EmptySet
        <4> QED
          BY <1>1, <2>3, <3>1, <4>3 DEF LockTypeOK, Users
      <3>2. CASE j # k
        <4>1. PICK q \in Proc : key[q] = j
          BY <1>1, <2>2, <2>3, <3>2 DEF RefsInv, LockTypeOK
        <4> QED
          BY <1>1, <2>1, <2>3, <3>2, <4>1 DEF LockTypeOK
      <3> QED
        BY <3>1, <3>2
    <2> QED
      BY <2>4, <2>6 DEF RefsInv
  <1>5. CASE UNCHANGED lockVars
    BY <1>1, <1>5 DEF RefsInv, Users, lockVars
  <1> QED
    BY <1>2, <1>3, <1>4, <1>5 DEF LockNext, LockStep

\* A step touches one mutex, the one its goroutine refers to, and gives it to a writer
\* only when no other has the turn and to a reader only while no writer holds it.
LEMMA MutexStep == ASSUME MutexesInv, [LockNext]_lockVars PROVE MutexInv'
  <1> USE DEF LockGoto
  <1>1. LockTypeOK /\ TableInv /\ MutexInv
    BY DEF MutexesInv
  <1>2. None \notin Proc /\ None \notin Mutex
    BY NoneIsNothing
  <1>3. \A q \in Proc : lockPc[q] # "idle" => mine[q] \in Mutex
    BY <1>1 DEF LockTypeOK, TableInv
  <1>4. ASSUME NEW p \in Proc, NEW k \in Key, NEW m \in {"read", "write"}, Retain(p, k, m)
        PROVE  MutexInv'
    <2>1. /\ lockPc[p] = "idle" /\ mine[p] = None
          /\ lockPc' = [lockPc EXCEPT ![p] = "retained"]
          /\ mode' = [mode EXCEPT ![p] = m]
          /\ \E l \in Mutex : mine' = [mine EXCEPT ![p] = l]
          /\ UNCHANGED <<turn, readers, queued>>
      BY <1>1, <1>4 DEF LockTypeOK, TableInv, Retain, mutexVars
    <2> QED
      BY <1>1, <1>2, <2>1 DEF LockTypeOK, MutexInv
  <1>5. ASSUME NEW p \in Proc, Lock(p) PROVE MutexInv'
    BY <1>1, <1>2, <1>3, <1>5 DEF LockTypeOK, MutexInv, Lock, tableVars, argVars
  <1>6. ASSUME NEW p \in Proc, LockGranted(p) PROVE MutexInv'
    BY <1>1, <1>2, <1>3, <1>6 DEF LockTypeOK, MutexInv, LockGranted, argVars, mutexVars
  <1>7. ASSUME NEW p \in Proc, RLock(p) PROVE MutexInv'
    BY <1>1, <1>2, <1>3, <1>7 DEF LockTypeOK, MutexInv, RLock, argVars
  <1>8. ASSUME NEW p \in Proc, RLockQueues(p) PROVE MutexInv'
    BY <1>1, <1>2, <1>3, <1>8 DEF LockTypeOK, MutexInv, RLockQueues, argVars
  <1>9. ASSUME NEW p \in Proc, RLockGranted(p) PROVE MutexInv'
    <2>1. /\ lockPc[p] = "queued" /\ p \in readers[mine[p]] /\ mode[p] = "read"
          /\ mine[p] \in Mutex /\ p \notin queued[mine[p]]
          /\ lockPc' = [lockPc EXCEPT ![p] = "held"]
          /\ UNCHANGED <<mine, mode, turn, readers, queued>>
      BY <1>1, <1>3, <1>9 DEF LockTypeOK, MutexInv, RLockGranted, argVars, mutexVars
    <2> QED
      BY <1>1, <1>2, <2>1 DEF LockTypeOK, MutexInv
  <1>10. ASSUME NEW p \in Proc, Unlock(p) PROVE MutexInv'
    BY <1>1, <1>2, <1>3, <1>10 DEF LockTypeOK, MutexInv, Unlock, argVars
  <1>11. ASSUME NEW p \in Proc, RUnlock(p) PROVE MutexInv'
    BY <1>1, <1>2, <1>3, <1>11 DEF LockTypeOK, MutexInv, RUnlock, argVars
  <1>12. ASSUME NEW p \in Proc, Drop(p) PROVE MutexInv'
    BY <1>1, <1>2, <1>3, <1>12 DEF LockTypeOK, MutexInv, Drop, mutexVars
  <1>13. CASE UNCHANGED lockVars
    BY <1>1, <1>13 DEF MutexInv, lockVars
  <1> QED
    BY <1>4, <1>5, <1>6, <1>7, <1>8, <1>9, <1>10, <1>11, <1>12, <1>13 DEF LockNext, LockStep

-----------------------------------------------------------------------------
(* The theorems.                                                            *)

\* The invariant is inductive, whatever the goroutines, keys and mutexes.
THEOREM LockInvariance == LockSpec => []MutexesInv
  <1>1. MutexesInv /\ [LockNext]_lockVars => MutexesInv'
    BY LockTypeStep, TableStep, RefsStep, MutexStep DEF MutexesInv
  <1> QED
    BY InitMutexes, <1>1, PTL DEF LockSpec

\* The counts and tables of acquireMaintenanceLock keep their types: in particular no
\* release takes a count below zero.
THEOREM LockTypeCorrect == LockSpec => []LockTypeOK
  <1>1. MutexesInv => LockTypeOK
    BY DEF MutexesInv
  <1> QED
    BY LockInvariance, <1>1, PTL

\* A key that no goroutine holds or waits for is pruned: the table of mutexes is no
\* larger than the set of goroutines inside acquireMaintenanceLock.
THEOREM Pruning == LockSpec => []PrunesUnused
  <1>1. MutexesInv => PrunesUnused
    <2> SUFFICES ASSUME MutexesInv, NEW k \in Key, \A p \in Proc : key[p] # k
                 PROVE  maint[k] = None /\ maintRefs[k] = 0
      BY DEF PrunesUnused
    <2>1. Users(k) = {} /\ Cardinality({}) = 0
      BY FS_EmptySet DEF Users
    <2> QED
      BY <2>1 DEF MutexesInv, RefsInv
  <1> QED
    BY LockInvariance, <1>1, PTL

\* A reader that waits is with the admitted or with the queued, and a queue has a writer
\* before it, whose unlock lets it in.
QueueInv ==
    /\ \A p \in Proc : lockPc[p] = "queued" => p \in readers[mine[p]] \cup queued[mine[p]]
    /\ \A l \in Mutex : queued[l] # {} => turn[l] # None

\* Whoever waits for a mutex waits for goroutines on the same key that have it, or that have
\* been let in: none is left in a queue that nobody empties, nor behind a mutex that was
\* pruned from the table.
NobodyIsForgotten ==
    \A p \in Proc :
        /\ lockPc[p] = "queued" /\ p \notin readers[mine[p]] =>
              /\ p \in queued[mine[p]]
              /\ \E w \in Proc : turn[mine[p]] = w /\ key[w] = key[p] /\ lockPc[w] \in {"turn", "held"}
        /\ lockPc[p] = "turn" =>
              \A r \in readers[mine[p]] : key[r] = key[p] /\ lockPc[r] \in {"queued", "held"}

\* The queues stay in order.
LEMMA QueueStep == ASSUME MutexesInv, QueueInv, [LockNext]_lockVars PROVE QueueInv'
  <1>1. LockTypeOK /\ TableInv /\ MutexInv
    BY DEF MutexesInv
  <1>2. CASE UNCHANGED lockVars
    BY <1>2 DEF lockVars, QueueInv, mutexVars, argVars
  <1>3. ASSUME NEW p \in Proc, NEW k \in Key, NEW m \in {"read", "write"}, Retain(p, k, m)
        PROVE  QueueInv'
    BY <1>1, <1>3 DEF LockTypeOK, QueueInv, Retain, LockGoto, mutexVars
  <1>4. ASSUME NEW p \in Proc, LockStep(p) PROVE QueueInv'
    <2>1. lockPc[p] # "idle" => mine[p] \in Mutex
      BY <1>1 DEF LockTypeOK, TableInv
    <2>2. CASE Lock(p)
      <3>1. /\ p # None /\ mine[p] \in Mutex /\ turn' = [turn EXCEPT ![mine[p]] = p]
            /\ lockPc' = [lockPc EXCEPT ![p] = "turn"] /\ UNCHANGED <<mine, readers, queued>>
        BY <1>1, <2>1, <2>2, NoneIsNothing DEF Lock, LockGoto, argVars
      <3>2. \A q \in Proc : lockPc'[q] = "queued" => lockPc[q] = "queued"
        BY <1>1, <3>1 DEF LockTypeOK
      <3>3. \A l \in Mutex : turn[l] # None => turn'[l] # None
        BY <1>1, <3>1 DEF LockTypeOK
      <3> QED
        BY <3>1, <3>2, <3>3 DEF QueueInv
    <2>3. CASE LockGranted(p)
      BY <1>1, <2>1, <2>3 DEF LockTypeOK, QueueInv, LockGranted, LockGoto, argVars, mutexVars
    <2>4. CASE RLock(p)
      BY <1>1, <2>1, <2>4 DEF LockTypeOK, QueueInv, RLock, LockGoto, argVars
    <2>5. CASE RLockQueues(p)
      BY <1>1, <2>1, <2>5 DEF LockTypeOK, QueueInv, RLockQueues, LockGoto, argVars
    <2>6. CASE RLockGranted(p)
      BY <1>1, <2>1, <2>6 DEF LockTypeOK, QueueInv, RLockGranted, LockGoto, argVars, mutexVars
    <2>7. CASE Unlock(p)
      BY <1>1, <2>1, <2>7 DEF LockTypeOK, MutexInv, QueueInv, Unlock, LockGoto, argVars
    <2>8. CASE RUnlock(p)
      BY <1>1, <2>1, <2>8 DEF LockTypeOK, MutexInv, QueueInv, RUnlock, LockGoto, argVars
    <2>9. CASE Drop(p)
      BY <1>1, <2>1, <2>9 DEF LockTypeOK, QueueInv, Drop, LockGoto, mutexVars
    <2> QED
      BY <1>4, <2>2, <2>3, <2>4, <2>5, <2>6, <2>7, <2>8, <2>9 DEF LockStep
  <1> QED
    BY <1>2, <1>3, <1>4 DEF LockNext

\* Nobody is forgotten in the queue of a mutex, or behind one that left the table.
THEOREM QueuesEmpty == LockSpec => []NobodyIsForgotten
  <1>1. LockInit => QueueInv
    BY DEF LockInit, QueueInv
  <1>2. MutexesInv /\ QueueInv /\ [LockNext]_lockVars => QueueInv'
    BY QueueStep
  <1>3. MutexesInv /\ QueueInv => NobodyIsForgotten
    <2> SUFFICES ASSUME MutexesInv, QueueInv PROVE NobodyIsForgotten
      OBVIOUS
    <2>1. LockTypeOK /\ TableInv /\ MutexInv
      BY DEF MutexesInv
    <2>2. ASSUME NEW p \in Proc, lockPc[p] \in {"queued", "turn"} PROVE mine[p] \in Mutex /\ key[p] \in Key
      BY <2>1, <2>2 DEF LockTypeOK, TableInv
    <2>3. ASSUME NEW p \in Proc, NEW q \in Proc, mine[p] \in Mutex, mine[q] = mine[p] PROVE key[q] = key[p]
      BY <2>1, <2>3, NoneIsNothing DEF LockTypeOK, TableInv
    <2>4. ASSUME NEW p \in Proc, lockPc[p] = "queued", p \notin readers[mine[p]]
          PROVE  /\ p \in queued[mine[p]]
                 /\ \E w \in Proc : turn[mine[p]] = w /\ key[w] = key[p] /\ lockPc[w] \in {"turn", "held"}
      <3>1. p \in queued[mine[p]] /\ turn[mine[p]] # None /\ mine[p] \in Mutex
        BY <2>2, <2>4 DEF QueueInv
      <3>2. PICK w \in Proc : turn[mine[p]] = w
        BY <2>1, <3>1 DEF LockTypeOK
      <3>3. mine[w] = mine[p] /\ lockPc[w] \in {"turn", "held"}
        BY <2>1, <3>1, <3>2 DEF MutexInv
      <3> QED
        BY <2>3, <3>1, <3>2, <3>3
    <2>5. ASSUME NEW p \in Proc, lockPc[p] = "turn", NEW r \in readers[mine[p]]
          PROVE  key[r] = key[p] /\ lockPc[r] \in {"queued", "held"}
      <3>1. mine[p] \in Mutex /\ r \in Proc
        BY <2>1, <2>2, <2>5 DEF LockTypeOK
      <3>2. mine[r] = mine[p] /\ lockPc[r] \in {"queued", "held"}
        BY <2>1, <2>5, <3>1 DEF MutexInv
      <3> QED
        BY <2>3, <3>1, <3>2
    <2> QED
      BY <2>4, <2>5 DEF NobodyIsForgotten
  <1> QED
    BY <1>1, <1>2, <1>3, LockInvariance, PTL DEF LockSpec

\* Two goroutines that hold the lock of one key hold the same mutex.
LEMMA SameMutex ==
  ASSUME MutexesInv, NEW p \in Proc, NEW q \in Proc, lockPc[p] # "idle", lockPc[q] # "idle", key[p] = key[q]
  PROVE  mine[p] = mine[q] /\ mine[p] \in Mutex /\ key[p] \in Key
  BY DEF MutexesInv, LockTypeOK, TableInv

\* A grant of the mutex is a grant of the abstract lock of the key: whoever holds the key
\* already holds the same mutex, and holds it for reading with p.
LEMMA GrantIsAcquire ==
  ASSUME MutexesInv, NEW p \in Proc, lockPc' = [lockPc EXCEPT ![p] = "held"], UNCHANGED <<key, mode>>,
         \/ LockGranted(p)
         \/ RLock(p)
         \/ RLockGranted(p)
  PROVE  KL!Acquire(p)
  <1>1. LockTypeOK /\ TableInv /\ MutexInv
    BY DEF MutexesInv
  <1>2. lockPc[p] \in {"turn", "retained", "queued"}
    BY DEF LockGranted, RLock, RLockGranted
  <1>3. key[p] # None
    BY <1>1, <1>2 DEF TableInv
  <1>4. ASSUME NEW q \in Proc, lockPc[q] = "held", key[q] = key[p]
        PROVE  q # p /\ mode[p] = "read" /\ mode[q] = "read"
    <2>1. q # p /\ lockPc[q] # "idle" /\ lockPc[p] # "idle"
      BY <1>2, <1>4
    <2>2. mine[q] = mine[p] /\ mine[p] \in Mutex
      BY <1>4, <2>1, SameMutex
    <2>3. CASE LockGranted(p)
      BY <1>1, <1>4, <2>1, <2>2, <2>3, NoneIsNothing DEF LockTypeOK, MutexInv, LockGranted
    <2>4. CASE RLock(p)
      BY <1>1, <1>4, <2>1, <2>2, <2>4, NoneIsNothing DEF LockTypeOK, MutexInv, RLock
    <2>5. CASE RLockGranted(p)
      BY <1>1, <1>4, <2>1, <2>2, <2>5, NoneIsNothing DEF LockTypeOK, MutexInv, RLockGranted
    <2> QED
      BY <2>3, <2>4, <2>5
  <1>5. AbstractLock[p].key = key[p] /\ AbstractLock[p].held = FALSE
    BY <1>2 DEF AbstractLock
  <1>6. \A q \in Proc : KL!Holds(q, AbstractLock[p].key) => ~KL!Conflict(p, q)
    <2> SUFFICES ASSUME NEW q \in Proc, KL!Holds(q, key[p]) PROVE ~KL!Conflict(p, q)
      BY <1>5
    <2>1. lockPc[q] = "held" /\ key[q] = key[p]
      BY DEF KL!Holds, AbstractLock
    <2> QED
      BY <1>2, <1>4, <2>1 DEF KL!Conflict, AbstractLock
  <1>7. AbstractLock' = [AbstractLock EXCEPT ![p].held = TRUE]
    BY <1>1, <1>2 DEF AbstractLock, LockTypeOK
  <1> QED
    BY <1>3, <1>5, <1>6, <1>7 DEF KL!Acquire

\* Every step of the table and its mutexes is a step of the keyed lock or leaves it alone.
LEMMA StepRefines == MutexesInv /\ [LockNext]_lockVars => [KL!LockNext]_AbstractLock
  <1> SUFFICES ASSUME MutexesInv, [LockNext]_lockVars PROVE KL!LockNext \/ AbstractLock' = AbstractLock
    OBVIOUS
  <1> USE DEF LockGoto
  <1>1. LockTypeOK
    BY DEF MutexesInv
  <1>2. ASSUME NEW p \in Proc, NEW k \in Key, NEW m \in {"read", "write"}, Retain(p, k, m)
        PROVE  KL!Request(p, k, m)
    <2>1. /\ lockPc[p] = "idle" /\ lockPc' = [lockPc EXCEPT ![p] = "retained"]
          /\ key' = [key EXCEPT ![p] = k] /\ mode' = [mode EXCEPT ![p] = m]
      BY <1>2 DEF Retain
    <2>2. AbstractLock[p] = KL!NoLock
      BY <2>1 DEF AbstractLock, KL!NoLock
    <2>3. AbstractLock' = [AbstractLock EXCEPT ![p] = [key |-> k, mode |-> m, held |-> FALSE]]
      BY <1>1, <2>1 DEF AbstractLock, LockTypeOK
    <2> QED
      BY <2>2, <2>3 DEF KL!Request
  <1>3. ASSUME NEW p \in Proc, LockGranted(p) \/ RLock(p) \/ RLockGranted(p)
        PROVE  KL!Acquire(p)
    <2>1. lockPc' = [lockPc EXCEPT ![p] = "held"] /\ UNCHANGED <<key, mode>>
      BY <1>3 DEF LockGranted, RLock, RLockGranted, argVars
    <2> QED
      BY <1>3, <2>1, GrantIsAcquire
  <1>4. ASSUME NEW p \in Proc, Unlock(p) \/ RUnlock(p)
        PROVE  KL!Release(p)
    <2>1. lockPc[p] = "held" /\ lockPc' = [lockPc EXCEPT ![p] = "drop"] /\ UNCHANGED <<key, mode>>
      BY <1>4 DEF Unlock, RUnlock, argVars
    <2>2. AbstractLock[p].held
      BY <2>1 DEF AbstractLock
    <2>3. AbstractLock' = [AbstractLock EXCEPT ![p] = KL!NoLock]
      BY <1>1, <2>1 DEF AbstractLock, KL!NoLock, LockTypeOK
    <2> QED
      BY <2>2, <2>3 DEF KL!Release
  <1>5. ASSUME NEW p \in Proc, Lock(p) \/ RLockQueues(p)
        PROVE  AbstractLock' = AbstractLock
    <2>1. /\ lockPc[p] = "retained" /\ UNCHANGED <<key, mode>>
          /\ lockPc' = [lockPc EXCEPT ![p] = "turn"] \/ lockPc' = [lockPc EXCEPT ![p] = "queued"]
      BY <1>5 DEF Lock, RLockQueues, argVars
    <2> QED
      BY <1>1, <2>1 DEF AbstractLock, LockTypeOK
  <1>6. ASSUME NEW p \in Proc, Drop(p)
        PROVE  AbstractLock' = AbstractLock
    <2>1. /\ lockPc[p] = "drop" /\ lockPc' = [lockPc EXCEPT ![p] = "idle"]
          /\ key' = [key EXCEPT ![p] = None] /\ mode' = mode
      BY <1>6 DEF Drop
    <2> QED
      BY <1>1, <2>1 DEF AbstractLock, LockTypeOK
  <1>7. CASE UNCHANGED lockVars
    BY <1>7 DEF AbstractLock, lockVars
  <1> QED
    BY <1>2, <1>3, <1>4, <1>5, <1>6, <1>7 DEF LockNext, LockStep, KL!LockNext, KL!Mode

\* What the callers of acquireMaintenanceLock see is a keyed reader/writer lock: making,
\* counting and pruning the mutexes never splits a key between two of them.
THEOREM Refinement == LockSpec => ImplementsKeyedLock
  <1>1. LockInit => KL!LockInit
    BY DEF LockInit, KL!LockInit, KL!NoLock, AbstractLock
  <1> QED
    BY <1>1, StepRefines, LockInvariance, PTL DEF LockSpec, ImplementsKeyedLock, KL!LockSpec

\* Two goroutines inside the lock of one file or connection are both readers.
THEOREM Exclusion == LockSpec => []KL!Exclusion
  <1>1. MutexesInv => KL!Exclusion
    <2> SUFFICES ASSUME MutexesInv, NEW p \in Proc, NEW q \in Proc,
                        AbstractLock[p].held, KL!Holds(q, AbstractLock[p].key)
                 PROVE  ~KL!Conflict(p, q)
      BY DEF KL!Exclusion
    <2>1. lockPc[p] = "held" /\ lockPc[q] = "held" /\ key[q] = key[p]
      BY DEF AbstractLock, KL!Holds
    <2>2. mine[q] = mine[p] /\ mine[p] \in Mutex
      BY <2>1, SameMutex
    <2>3. p # q => mode[p] = "read" /\ mode[q] = "read"
      BY <2>1, <2>2 DEF MutexesInv, LockTypeOK, MutexInv
    <2> QED
      BY <2>1, <2>3 DEF KL!Conflict, AbstractLock
  <1> QED
    BY LockInvariance, <1>1, PTL

-----------------------------------------------------------------------------
(* Lookups and maintenance.                                                 *)

ReadLock(k, got) == [key |-> k, mode |-> "read", held |-> got]
WriteLock(k, got) == [key |-> k, mode |-> "write", held |-> got]

\* A lookup before its guard, or on its way to another try.
Retrying(c) ==
    \/ pc[c] \in {"start", "awaitConfig"}
    \/ pc[c] = "leave" /\ call[c].next = "retire"
    \/ pc[c] = "retire" /\ call[c].res # "buildErr"
    \/ pc[c] \in {"cancel", "dispatch", "await"} /\ call[c].next # "done"

\* A lookup has nothing of a lock before its guard, and starts its entry's construction
\* under the read side of the entry's file.
LookupOK(c) ==
    /\ Retrying(c) => lock[c] = L!NoLock
    /\ pc[c] = "guard" => lock[c] \in {L!NoLock, ReadLock(EntryFile(at[c]), FALSE)}
    /\ pc[c] = "begin" => lock[c] = ReadLock(EntryFile(at[c]), TRUE)

\* If the entry is on the file of p, its construction has not begun or its close is over.
Quiet(p, e) == Matches(p, e) /\ Started(e) => ent[e].life = "finished"

\* A maintainer sweeps and works under the write side of its file; what its sweep has not
\* seen is quiet, and after the sweep everything is.
MaintainerOK(p) ==
    /\ call[p].kind = "where" /\ call[p].file \in Files
    /\ stage[p] \in {"resolve", "queue", "acquire"} => pc[p] = "start"
    /\ stage[p] \in {"fn", "release", "returned"} => pc[p] = "done"
    /\ stage[p] = "acquire" => lock[p] = WriteLock(call[p].file, FALSE)
    /\ stage[p] \in {"before", "fn", "again", "release"} => lock[p] = WriteLock(call[p].file, TRUE)
    /\ stage[p] = "fn" => call[p].errs = {}
    /\ stage[p] = "before" /\ pc[p] # "start" => \A e \in Entry \ call[p].seen : Quiet(p, e)
    /\ stage[p] \in {"fn", "again", "release"} => \A e \in Entry : Quiet(p, e)

Stages == {"resolve", "queue", "acquire", "before", "fn", "again", "release", "returned"}

ProbeStates == {"idle", "wait", "open", "unlock", "using", "closed"}
ProbeRecord == [file: Files, state: ProbeStates, prov: BOOLEAN]

\* A loaded entry has a version of its profile.
Configured == \A e \in Entry : ent[e].load = "loaded" => ent[e].cfg \in Version

LockTypes ==
    /\ lock \in [Locker -> L!LockRecord]
    /\ stage \in [Maintainer -> Stages]
    /\ probe \in [Prober -> ProbeRecord]
    /\ L!Exclusion

Manager == IInv /\ Promises

FileInv ==
    /\ Manager
    /\ Configured
    /\ LockTypes
    /\ \A c \in Caller : LookupOK(c)
    /\ \A p \in Maintainer : MaintainerOK(p)

USE DEF Goto, ToStage

-----------------------------------------------------------------------------
(* The manager under the facade.                                            *)

\* A maintainer is an administrator, and both are lockers.
LEMMA Roles ==
  /\ Maintainer \subseteq Admin /\ Admin \subseteq Process /\ Caller \subseteq Process
  /\ Caller \cap Admin = {} /\ Process \subseteq Locker /\ Prober \subseteq Locker
  /\ Prober \cap Process = {}
  BY RoleAssumption, ProcessAssumption DEF Process, Locker

\* What the facade does is a step of the manager, or prepares a maintainer's next sweep.
LEMMA ManagerSteps ==
  ASSUME [MNext]_allVars
  PROVE  [Next]_vars \/ \E p \in Maintainer : Resolve(p) \/ FnReturns(p)
  <1>1. ASSUME NEW c \in Caller, GetSteps(c) PROVE [Next]_vars
    BY <1>1, Roles DEF GetSteps, GuardAsks, GuardReturns, GetReleases, Get, Next, vars
  <1>2. ASSUME NEW p \in Maintainer, WithMaintenance(p)
        PROVE  [Next]_vars \/ Resolve(p) \/ FnReturns(p)
    BY <1>2, Roles DEF WithMaintenance, Queue, AcquireWrite, RetireFile, RetiredBefore,
          RetiredAgain, MaintenanceReturns, Next
  <1>3. ASSUME NEW x \in Prober, Probe(x) PROVE vars' = vars
    BY <1>3 DEF Probe, OpenAsks, OpenAcquires, OpenReturns, Probing, OpenFactory, ProbeCloses
  <1> QED
    BY <1>1, <1>2, <1>3, Roles DEF MNext, Next, Returned, allVars

\* The profile is read into the call before the sweep starts, and the call is started again
\* after the file operation: neither disturbs what the manager relies on.
LEMMA Preparing ==
  ASSUME FileInv, NEW p \in Maintainer, Resolve(p) \/ FnReturns(p)
  PROVE  Manager'
  <1>1. /\ IInv /\ Promises /\ TypeOK /\ p \in Process /\ p \in Admin /\ p \notin Caller
        /\ call[p].kind = "where" /\ pc[p] \in {"start", "done"} /\ call[p].errs = {}
    BY Roles DEF FileInv, Manager, IInv, MaintainerOK, Resolve, FnReturns, Promises, Reported
  <1>2. call[p] \in Call /\ call[p].conn \in Conn /\ profile[call[p].conn] \in Version
    BY <1>1, CallType DEF TypeOK
  <1> DEFINE f == FileOf[call[p].conn][profile[call[p].conn]]
  <1>3. f \in Files
    BY <1>2, DataAssumption
  <1>4. UNCHANGED <<ent, entries, pending, retireErrs, closing, closeErr, profile, at>>
    BY DEF Resolve, FnReturns, managerVars
  <1>5. /\ \A q \in Process \ {p} : Same(q)
        /\ pc'[p] = "start"
        /\ \E g \in Files \cup {None} : call'[p] = [call[p] EXCEPT !.file = g]
        /\ pc' \in [Process -> PCs] /\ call' \in [Process -> Call]
    <2>1. CASE Resolve(p)
      BY <1>1, <1>2, <1>3, <2>1 DEF Resolve, TypeOK, Same, FileInv, MaintainerOK, Call
    <2>2. CASE FnReturns(p)
      <3>1. call[p] = [call[p] EXCEPT !.file = call[p].file] /\ call[p].file \in Files \cup {None}
        BY <1>2 DEF Call
      <3> QED
        BY <1>1, <2>2, <3>1 DEF FnReturns, TypeOK, Same, PCs
    <2> QED
      BY <2>1, <2>2
  <1>6. /\ call'[p].kind = "where" /\ call'[p].errs = {} /\ call'[p].next = call[p].next
        /\ call'[p].todo = call[p].todo /\ call'[p].seen = call[p].seen
    BY <1>1, <1>2, <1>5 DEF Call
  <1>7. (\A q \in Process : q # p => Same(q)) /\ pc'[p] = "start" /\ (\A q \in Admin : q # p => Same(q))
    BY <1>5, Roles
  <1>8. TypeOK'
    BY <1>1, <1>4, <1>5 DEF TypeOK
  <1>9. EntryInv' /\ MapHoldsLiveEntries' /\ PendingTracksCloses'
    BY <1>1, <1>4 DEF IInv, EntryInv, EntryFits, MapHoldsLiveEntries, PendingTracksCloses, Free,
          Started, Retired, Built
  <1>10. ControlInv'
    <2>1. ASSUME NEW q \in Process, q # p PROVE ControlOK(q)'
      BY <1>1, <1>4, <1>7, <2>1 DEF IInv, ControlInv, ControlOK, Same, Free, Started
    <2>2. ControlOK(p)'
      BY <1>1, <1>4, <1>6, <1>7 DEF IInv, ControlInv, ControlOK, Working, Inside, Free
    <2> QED
      BY <1>1, <1>4, <1>7, <2>1, <2>2 DEF IInv, ControlInv, Retiring, Same
  <1>11. \A e \in Entry : Waiting(e)' = Waiting(e)
    BY <1>1, <1>7, Roles DEF Waiting, Same
  <1>12. WaitersInv'
    BY <1>1, <1>4, <1>11 DEF IInv, WaitersInv
  <1>13. NoAbandonedWork'
    BY <1>1, <1>4, <1>7, Roles DEF IInv, NoAbandonedWork, Same, Free, Started, Retired, Done, Built
  <1>14. CloserInv'
    <2>1. AllClosed' <=> AllClosed
      BY <1>4 DEF AllClosed, Closed, Free, Retired, Started
    <2>2. MapEntries' = MapEntries
      BY <1>4 DEF MapEntries
    <2>3. ASSUME NEW q \in Admin, q # p PROVE CloserOK(q)'
      BY <1>1, <1>4, <1>7, <2>1, <2>2, <2>3, Roles DEF IInv, CloserInv, CloserOK, Same
    <2>4. CloserOK(p)'
      BY <1>5, <1>6 DEF CloserOK
    <2> QED
      BY <1>1, <1>4, <2>1, <2>3, <2>4 DEF IInv, CloserInv
  <1>15. Loads'
    <2>1. \A c \in Caller : Same(c)
      BY <1>1, <1>7, Roles
    <2> QED
      BY <1>1, <1>4, <1>6, <1>7, <2>1 DEF Promises, Loads, Same, Started, AdminKind
  <1>16. Supplied'
    BY <1>1, <1>4, <1>7, Roles DEF Promises, Supplied, Served, Same
  <1>17. Sweeps'
    <2>1. ASSUME NEW q \in Admin, q # p, call'[q].kind = "where" PROVE SweepOK(q)'
      <3>1. Same(q) /\ SweepOK(q)
        BY <1>1, <1>7, <2>1, Roles DEF Promises, Sweeps, Same
      <3>2. \A e \in Entry : /\ Free(e)' = Free(e) /\ Retired(e)' = Retired(e)
                             /\ Started(e)' = Started(e) /\ Closed(e)' = Closed(e)
                             /\ Elsewhere(q, e)' = Elsewhere(q, e)
        BY <1>4, <3>1 DEF Same, Free, Retired, Started, Closed, Elsewhere, Loaded, Matches
      <3> QED
        BY <3>1, <3>2 DEF SweepOK, Same
    <2>2. SweepOK(p)'
      BY <1>1, <1>4, <1>5, <1>6 DEF Promises, Sweeps, SweepOK, Free
    <2> QED
      BY <2>1, <2>2 DEF Sweeps
  <1>18. Reported'
    <2>1. Reported
      BY <1>1 DEF Promises
    <2>2. \A q \in Admin : q # p => Same(q)
      BY <1>7
    <2>3. \A q \in Admin : pc'[q] \in {"start", "joinClose"} => call'[q].errs = {}
      BY <1>6, <2>1, <2>2 DEF Reported, Same
    <2>4. \A e \in Entry : Awaited(e) => Awaited(e)'
      BY <1>1, <2>2 DEF Awaited, Same, Waits
    <2>5. ASSUME NEW e \in Entry, Failing(e)', ent'[e].life = "finished"
          PROVE  \/ e \in retireErrs'
                 \/ \E q \in Admin :
                       e \in call'[q].errs \/ (pc'[q] = "await" /\ at'[q] = e /\ Waits(q)')
      <3>1. \/ e \in retireErrs
            \/ \E q \in Admin \ {p} : e \in call[q].errs \/ (pc[q] = "await" /\ at[q] = e /\ Waits(q))
        <4>1. Failing(e) /\ ent[e].life = "finished" /\ pc[p] # "await"
          BY <1>1, <1>4, <2>5 DEF Failing
        <4>2. \/ e \in retireErrs
              \/ \E q \in Admin : e \in call[q].errs \/ (pc[q] = "await" /\ at[q] = e /\ Waits(q))
          <5>1. CloseFailuresSurface
            BY <2>1 DEF Reported
          <5> QED
            BY <2>5, <4>1, <5>1 DEF CloseFailuresSurface
        <4>3. \A q \in Admin : q = p => ~(e \in call[q].errs \/ pc[q] = "await")
          BY <1>1, <4>1
        <4> QED
          BY <4>2, <4>3
      <3>2. CASE e \in retireErrs
        BY <1>4, <3>2
      <3>3. ASSUME NEW q \in Admin \ {p},
                   e \in call[q].errs \/ (pc[q] = "await" /\ at[q] = e /\ Waits(q))
            PROVE  e \in call'[q].errs \/ (pc'[q] = "await" /\ at'[q] = e /\ Waits(q)')
        BY <2>2, <3>3 DEF Same, Waits
      <3> QED
        BY <3>1, <3>2, <3>3
    <2> QED
      BY <1>4, <2>1, <2>3, <2>4, <2>5 DEF Reported, CloseFailuresSurface, Retired, Started
  <1> QED
    BY <1>8, <1>9, <1>10, <1>12, <1>13, <1>14, <1>15, <1>16, <1>17, <1>18
       DEF Manager, IInv, Promises

\* The manager's invariants hold under the facade.
LEMMA ManagerStep == ASSUME FileInv, [MNext]_allVars PROVE Manager'
  <1>1. IInv /\ Loads /\ Supplied /\ Sweeps /\ Reported
    BY DEF FileInv, Manager, Promises
  <1>2. CASE [Next]_vars
    BY <1>1, <1>2, TypeStep, EntryStep, ControlStep, MapStep, PendingStep, WaitersStep, AbandonStep,
       CloserStep, LoadsStep, SuppliedStep, SweepsStep, ReportedStep DEF IInv, Manager, Promises
  <1> QED
    BY <1>2, ManagerSteps, Preparing

\* What is loaded keeps its file, and what has come of an entry is not undone.
LEMMA SteadyFiles ==
  ASSUME FileInv, [MNext]_allVars, NEW e \in Entry
  PROVE  /\ ent[e].load = "loaded" => /\ ent'[e].load = "loaded" /\ EntryFile(e)' = EntryFile(e)
                                     /\ ent'[e].conn = ent[e].conn /\ ent'[e].cfg = ent[e].cfg
         /\ Started(e) => Started(e)'
         /\ ent[e].life = "finished" => ent'[e].life = "finished"
  <1>1. IInv /\ Loads
    BY DEF FileInv, Manager, Promises
  <1>2. CASE [Next]_vars
    BY <1>1, <1>2, Steadiness, EntryStep DEF Steady, Advances, Loaded, EntryFile, Free
  <1>3. CASE ent' = ent
    BY <1>3 DEF EntryFile, Started
  <1> QED
    BY <1>2, <1>3, ManagerSteps DEF Resolve, FnReturns

\* A loaded entry has a version of its profile, and so a file.
LEMMA ConfiguredStep ==
  ASSUME FileInv, [MNext]_allVars
  PROVE  Configured'
  <1>1. IInv /\ Loads /\ TypeOK /\ Configured
    BY DEF FileInv, Manager, Promises, IInv
  <1>2. CASE ent' = ent
    BY <1>1, <1>2 DEF Configured
  <1>3. ASSUME [Next]_vars, NEW e \in Entry, ent'[e].load = "loaded" PROVE ent'[e].cfg \in Version
    <2>1. Steady(e) /\ Caused(e)
      BY <1>1, <1>3, Steadiness
    <2>2. CASE Loaded(e)
      BY <1>1, <1>3, <2>1, <2>2 DEF Steady, Configured
    <2>3. CASE ent[e].load = "loading"
      <3>1. ent[e].conn \in Conn
        BY <1>1, <2>3 DEF IInv, EntryInv, EntryFits, Free
      <3> QED
        BY <1>1, <1>3, <2>1, <2>3, <3>1 DEF Caused, TypeOK
    <2>4. CASE Free(e)
      <3>1. ent[e] = Unused
        BY <1>1, <2>4 DEF IInv, EntryInv, EntryFits
      <3>2. PICK c \in Caller : GetCreate(c)
        BY <1>1, <1>3, <2>4, Shapes DEF Keeps, KeepsEntry, Marks, Finishes, SameButLife, Free
      <3>3. call[c].want \in Version \cup {None}
        BY <1>1, CallType DEF Process
      <3>4. PICK f \in Entry : 
              ent' = [ent EXCEPT ![f] =
                [Unused EXCEPT !.conn = call[c].conn, !.cfg = call[c].want,
                               !.load = IF call[c].want = None THEN "loading" ELSE "loaded",
                               !.waiters = 1]]
        BY <3>2 DEF GetCreate
      <3>5. e = f
        BY <1>1, <1>3, <3>1, <3>4 DEF TypeOK, Unused
      <3> QED
        BY <1>1, <1>3, <3>3, <3>4, <3>5 DEF TypeOK, Unused
    <2> QED
      BY <1>1, <2>2, <2>3, <2>4, EntryType DEF LoadState, Loaded, Free
  <1> QED
    BY <1>2, <1>3, ManagerSteps DEF Configured, Resolve, FnReturns

-----------------------------------------------------------------------------
(* The locks.                                                               *)

\* A step on the lock of one locker.
LockMoves(x) ==
    \/ \E k \in Files, m \in L!Mode : L!Request(x, k, m)
    \/ L!Acquire(x)
    \/ L!Release(x)

\* A locker's step leaves the others' locks alone.
LEMMA LockApart ==
  ASSUME LockTypes, NEW x \in Locker, LockMoves(x), NEW y \in Locker, y # x
  PROVE  lock'[y] = lock[y]
  BY DEF LockMoves, LockTypes, L!Request, L!Acquire, L!Release

\* A keyed lock stays a keyed lock: whoever gets it conflicts with nobody who has it.
LEMMA LockSteps ==
  ASSUME LockTypes, NEW x \in Locker, LockMoves(x)
  PROVE  lock' \in [Locker -> L!LockRecord] /\ L!Exclusion'
  <1>1. lock \in [Locker -> L!LockRecord] /\ L!Exclusion
    BY DEF LockTypes
  <1>2. CASE \E k \in Files, m \in L!Mode : L!Request(x, k, m)
    <2>1. PICK k \in Files, m \in L!Mode :
             lock' = [lock EXCEPT ![x] = [key |-> k, mode |-> m, held |-> FALSE]]
      BY <1>2 DEF L!Request
    <2>2. lock' \in [Locker -> L!LockRecord] /\ lock'[x].held = FALSE
      BY <1>1, <2>1 DEF L!LockRecord
    <2>3. \A y \in Locker : y # x => lock'[y] = lock[y]
      BY <1>1, <2>1
    <2> QED
      BY <1>1, <2>2, <2>3 DEF L!Exclusion, L!Holds, L!Conflict
  <1>3. CASE L!Acquire(x)
    <2>1. lock' = [lock EXCEPT ![x].held = TRUE]
      BY <1>3 DEF L!Acquire
    <2>2. /\ lock' \in [Locker -> L!LockRecord]
          /\ lock'[x].key = lock[x].key /\ lock'[x].mode = lock[x].mode
      BY <1>1, <2>1 DEF L!LockRecord
    <2>3. \A y \in Locker : y # x => lock'[y] = lock[y]
      BY <1>1, <2>1
    <2>4. \A y \in Locker : L!Holds(y, lock[x].key) => ~L!Conflict(x, y)
      BY <1>3 DEF L!Acquire
    <2>5. ASSUME NEW p \in Locker, NEW q \in Locker, lock'[p].held, lock'[q].held,
                 lock'[q].key = lock'[p].key, p # q
          PROVE  lock'[p].mode # "write" /\ lock'[q].mode # "write"
      <3>1. CASE p = x
        BY <2>2, <2>3, <2>4, <2>5, <3>1 DEF L!Holds, L!Conflict
      <3>2. CASE q = x
        BY <2>2, <2>3, <2>4, <2>5, <3>2 DEF L!Holds, L!Conflict
      <3>3. CASE p # x /\ q # x
        BY <1>1, <2>3, <2>5, <3>3 DEF L!Exclusion, L!Holds, L!Conflict
      <3> QED
        BY <3>1, <3>2, <3>3
    <2> QED
      BY <2>2, <2>5 DEF L!Exclusion, L!Holds, L!Conflict
  <1>4. CASE L!Release(x)
    <2>1. lock' = [lock EXCEPT ![x] = L!NoLock]
      BY <1>4 DEF L!Release
    <2>2. lock' \in [Locker -> L!LockRecord] /\ lock'[x].held = FALSE
      BY <1>1, <2>1 DEF L!LockRecord, L!NoLock, L!Mode
    <2>3. \A y \in Locker : y # x => lock'[y] = lock[y]
      BY <1>1, <2>1
    <2> QED
      BY <1>1, <2>2, <2>3 DEF L!Exclusion, L!Holds, L!Conflict
  <1> QED
    BY <1>2, <1>3, <1>4 DEF LockMoves

\* A loaded entry is on a file.
LEMMA LoadedFile ==
  ASSUME FileInv, NEW e \in Entry, ent[e].load = "loaded"
  PROVE  EntryFile(e) \in Files
  <1>1. ent[e].conn \in Conn /\ ent[e].cfg \in Version
    BY DEF FileInv, Manager, IInv, EntryInv, EntryFits, Free, Configured
  <1> QED
    BY <1>1, DataAssumption DEF EntryFile

\* Each step asks for, gets or gives back one locker's lock, or leaves the locks alone.
LEMMA WhoLocks ==
  ASSUME FileInv, [MNext]_allVars
  PROVE  \/ lock' = lock
         \/ \E c \in Caller : LockMoves(c) /\ (GuardAsks(c) \/ GuardReturns(c) \/ GetReleases(c))
         \/ \E p \in Maintainer : LockMoves(p) /\ (Queue(p) \/ AcquireWrite(p) \/ MaintenanceReturns(p))
         \/ \E x \in Prober : LockMoves(x)
  <1> USE DEF maintVars
  <1>1. ASSUME NEW c \in Caller, GetSteps(c)
        PROVE  lock' = lock \/ (LockMoves(c) /\ (GuardAsks(c) \/ GuardReturns(c) \/ GetReleases(c)))
    <2>1. CASE GuardAsks(c)
      <3>1. at[c] \in Entry /\ ent[at[c]].load = "loaded"
        BY <2>1, Roles DEF FileInv, Manager, Promises, Loads, IInv, ControlInv, ControlOK, GuardAsks,
              Working, Inside
      <3> QED
        BY <2>1, <3>1, LoadedFile DEF GuardAsks, LockMoves, L!Mode
    <2> QED
      BY <1>1, <2>1 DEF GetSteps, GuardReturns, GetReleases, LockMoves
  <1>2. ASSUME NEW p \in Maintainer, WithMaintenance(p)
        PROVE  lock' = lock \/ (LockMoves(p) /\ (Queue(p) \/ AcquireWrite(p) \/ MaintenanceReturns(p)))
    <2>1. CASE Queue(p)
      <3>1. call[p].file \in Files
        BY <2>1 DEF FileInv, MaintainerOK, Queue
      <3> QED
        BY <2>1, <3>1 DEF Queue, LockMoves, L!Mode
    <2> QED
      BY <1>2, <2>1 DEF WithMaintenance, Resolve, AcquireWrite, RetireFile, RetiredBefore, FnReturns,
            RetiredAgain, MaintenanceReturns, LockMoves
  <1>3. ASSUME NEW x \in Prober, Probe(x) PROVE lock' = lock \/ LockMoves(x)
    <2>1. CASE OpenAsks(x)
      <3>1. probe[x].file \in Files
        BY DEF FileInv, LockTypes, ProbeRecord
      <3> QED
        BY <2>1, <3>1 DEF OpenAsks, LockMoves, L!Mode
    <2> QED
      BY <1>3, <2>1 DEF Probe, OpenAcquires, OpenFactory, OpenReturns, ProbeCloses, LockMoves
  <1> QED
    BY <1>1, <1>2, <1>3 DEF MNext, Returned, allVars

\* Locks, stages and probes keep their types, and no file has a writer beside another holder.
LEMMA LockTypesStep == ASSUME FileInv, [MNext]_allVars PROVE LockTypes'
  <1> USE DEF maintVars, Stages, ProbeStates
  <1>1. LockTypes
    BY DEF FileInv
  <1>2. lock' \in [Locker -> L!LockRecord] /\ L!Exclusion'
    <2>1. CASE lock' = lock
      BY <1>1, <2>1 DEF LockTypes, L!Exclusion, L!Holds, L!Conflict
    <2> QED
      BY <1>1, <2>1, WhoLocks, LockSteps, Roles
  <1>3. stage' \in [Maintainer -> Stages]
    <2>1. ASSUME NEW c \in Caller, GetSteps(c) PROVE stage' = stage
      BY <2>1 DEF GetSteps, GuardAsks, GuardReturns, GetReleases
    <2>2. ASSUME NEW p \in Maintainer, WithMaintenance(p) PROVE stage' \in [Maintainer -> Stages]
      BY <1>1, <2>2 DEF LockTypes, WithMaintenance, Resolve, Queue, AcquireWrite, RetireFile,
            RetiredBefore, FnReturns, RetiredAgain, MaintenanceReturns
    <2>3. ASSUME NEW x \in Prober, Probe(x) PROVE stage' = stage
      BY <2>3 DEF Probe, OpenAsks, OpenAcquires, OpenReturns, Probing, OpenFactory, ProbeCloses
    <2> QED
      BY <1>1, <2>1, <2>2, <2>3 DEF LockTypes, MNext, Returned, allVars
  <1>4. probe' \in [Prober -> ProbeRecord]
    <2>1. ASSUME NEW c \in Caller, GetSteps(c) PROVE probe' = probe
      BY <2>1 DEF GetSteps, GuardAsks, GuardReturns, GetReleases
    <2>2. ASSUME NEW p \in Maintainer, WithMaintenance(p) PROVE probe' = probe
      BY <2>2 DEF WithMaintenance, Resolve, Queue, AcquireWrite, RetireFile,
            RetiredBefore, FnReturns, RetiredAgain, MaintenanceReturns
    <2>3. ASSUME NEW x \in Prober, Probe(x) PROVE probe' \in [Prober -> ProbeRecord]
      <3>1. probe \in [Prober -> ProbeRecord]
        BY <1>1 DEF LockTypes
      <3>2. ASSUME NEW from, NEW to \in ProbeStates, Probing(x, from, to)
            PROVE  probe' \in [Prober -> ProbeRecord]
        BY <3>1, <3>2 DEF Probing, ProbeRecord
      <3>3. CASE OpenFactory(x)
        BY <3>1, <3>3, ZenonT(60) DEF OpenFactory, ProbeRecord
      <3>4. CASE ProbeCloses(x)
        BY <3>1, <3>4, ZenonT(60) DEF ProbeCloses, ProbeRecord
      <3> QED
        BY <2>3, <3>2, <3>3, <3>4 DEF Probe, OpenAsks, OpenAcquires, OpenReturns
    <2> QED
      BY <1>1, <2>1, <2>2, <2>3 DEF LockTypes, MNext, Returned, allVars
  <1> QED
    BY <1>2, <1>3, <1>4 DEF LockTypes

-----------------------------------------------------------------------------
(* Lookups.                                                                 *)

\* A locker's lock changes by its own steps only.
LEMMA LockOf ==
  ASSUME FileInv, [MNext]_allVars, NEW y \in Locker
  PROVE  \/ lock'[y] = lock[y]
         \/ y \in Caller /\ (GuardAsks(y) \/ GuardReturns(y) \/ GetReleases(y))
         \/ y \in Maintainer /\ (Queue(y) \/ AcquireWrite(y) \/ MaintenanceReturns(y))
         \/ y \in Prober
  <1>1. LockTypes
    BY DEF FileInv
  <1> QED
    BY <1>1, WhoLocks, LockApart, Roles

\* A step of the manager under the facade is a step of the manager, whoever takes it.
LEMMA Underneath ==
  /\ \A c \in Caller : GetSteps(c) => Get(c) \/ Retirement(c) \/ vars' = vars
  /\ \A p \in Maintainer : WithMaintenance(p) =>
        Resolve(p) \/ FnReturns(p) \/ Administer(p) \/ Retirement(p) \/ vars' = vars
  /\ \A x \in Prober : Probe(x) => vars' = vars
  <1>1. ASSUME NEW c \in Caller, GetSteps(c) PROVE Get(c) \/ Retirement(c) \/ vars' = vars
    BY <1>1 DEF GetSteps, GuardAsks, GuardReturns, GetReleases, Get
  <1>2. ASSUME NEW p \in Maintainer, WithMaintenance(p)
        PROVE  Resolve(p) \/ FnReturns(p) \/ Administer(p) \/ Retirement(p) \/ vars' = vars
    BY <1>2 DEF WithMaintenance, Queue, AcquireWrite, RetireFile, RetiredBefore, RetiredAgain,
          MaintenanceReturns
  <1>3. ASSUME NEW x \in Prober, Probe(x) PROVE vars' = vars
    BY <1>3 DEF Probe, OpenAsks, OpenAcquires, OpenReturns, Probing, OpenFactory, ProbeCloses
  <1> QED
    BY <1>1, <1>2, <1>3

\* A maintainer that prepares its next sweep leaves the other goroutines alone.
LEMMA PreparingApart ==
  ASSUME TypeOK, NEW p \in Maintainer, Resolve(p) \/ FnReturns(p), NEW q \in Process, q # p
  PROVE  Same(q)
  BY Roles DEF TypeOK, Resolve, FnReturns, Same

\* What the others do leaves a lookup's place, entry, call and lock alone.
LEMMA LookupApart ==
  ASSUME FileInv, [MNext]_allVars, NEW c \in Caller
  PROVE  \/ GetSteps(c) \/ (ContextDone(c) /\ UNCHANGED maintVars)
         \/ Same(c) /\ lock'[c] = lock[c]
  <1>1. IInv /\ TypeOK /\ c \in Locker /\ c \in Process /\ c \notin Admin /\ c \notin Prober
        /\ c \notin Maintainer
    BY Roles DEF FileInv, Manager, IInv
  <1>2. GetSteps(c) \/ lock'[c] = lock[c]
    BY <1>1, LockOf DEF GetSteps
  <1>3. CASE vars' = vars
    BY <1>2, <1>3 DEF vars, Same
  <1>4. ASSUME NEW d \in Caller, d # c, GetSteps(d) \/ ContextDone(d) PROVE Same(c) \/ vars' = vars
    BY <1>1, <1>4, Underneath, CallerApart, Roles
  <1>5. ASSUME NEW p \in Maintainer, WithMaintenance(p) PROVE Same(c) \/ vars' = vars
    <2>1. p \in Admin /\ p \in Process /\ c # p
      BY <1>1, Roles
    <2> QED
      BY <1>1, <1>5, <2>1, Underneath, CallerApart, PreparingApart
  <1>6. ASSUME NEW p \in Admin \ Maintainer, Administer(p) \/ Retirement(p) PROVE Same(c)
    BY <1>1, <1>6, CallerApart, Roles
  <1>7. ASSUME NEW e \in Entry, Background(e) PROVE Same(c)
    BY <1>1, <1>7, CallerApart
  <1>8. CASE UNCHANGED allVars
    BY <1>8 DEF allVars, maintVars, vars, Same
  <1> QED
    BY <1>2, <1>3, <1>4, <1>5, <1>6, <1>7, <1>8, Underneath DEF MNext, Returned

\* A lookup asks for the read side at its guard, has it when it starts a construction, and
\* has given it back, or never had it, when it tries again.
LEMMA LookupStep ==
  ASSUME FileInv, [MNext]_allVars, NEW c \in Caller
  PROVE  LookupOK(c)'
  <1>1. /\ IInv /\ TypeOK /\ Loads /\ LookupOK(c) /\ ControlOK(c)
        /\ c \in Process /\ c \in Locker
    BY Roles DEF FileInv, Manager, IInv, Promises, ControlInv
  <1>2. pc[c] \in {"guard", "begin"} => at[c] \in Entry /\ ent[at[c]].load = "loaded"
    BY <1>1 DEF ControlOK, Working, Inside, Loads
  <1>3. /\ call[c].kind \in {"get", "getFor"} /\ call \in [Process -> Call]
        /\ lock \in [Locker -> L!LockRecord]
    BY <1>1 DEF Loads, FileInv, LockTypes, TypeOK
  <1>4. pc \in [Process -> PCs]
    BY <1>1 DEF TypeOK
  <1>5. CASE Same(c) /\ lock'[c] = lock[c]
    <2>1. CASE pc[c] \in {"guard", "begin"}
      <3>1. PICK e \in Entry : e = at[c] /\ ent[e].load = "loaded"
        BY <1>2, <2>1
      <3>2. EntryFile(at[c])' = EntryFile(at[c])
        BY <1>5, <3>1, SteadyFiles DEF Same, EntryFile
      <3>3. (pc[c] = "guard" => lock'[c] \in {L!NoLock, ReadLock(EntryFile(at[c])', FALSE)})
            /\ (pc[c] = "begin" => lock'[c] = ReadLock(EntryFile(at[c])', TRUE))
        BY <1>1, <1>5, <3>2 DEF LookupOK
      <3> QED
        BY <1>5, <2>1, <3>3 DEF LookupOK, Retrying, Same
    <2>2. CASE pc[c] \notin {"guard", "begin"}
      BY <1>1, <1>5, <2>2 DEF LookupOK, Retrying, Same
    <2> QED
      BY <2>1, <2>2
  <1>6. CASE ContextDone(c) /\ UNCHANGED maintVars
    BY <1>1, <1>3, <1>4, <1>6 DEF ContextDone, Fail, maintVars, LookupOK, Retrying, Call
  <1>7. CASE GuardAsks(c)
    BY <1>1, <1>3, <1>7 DEF GuardAsks, vars, LookupOK, Retrying, L!Request, ReadLock, EntryFile
  <1>8. CASE GuardReturns(c)
    <2>1. /\ pc[c] = "guard" /\ pc'[c] = "begin" /\ lock[c].key # None
          /\ lock' = [lock EXCEPT ![c].held = TRUE] /\ UNCHANGED <<at, ent>>
      BY <1>8 DEF GuardReturns, Guard, L!Acquire
    <2>2. lock[c] = ReadLock(EntryFile(at[c]), FALSE)
      <3>1. lock[c] # L!NoLock
        BY <2>1 DEF L!NoLock
      <3> QED
        BY <1>1, <2>1, <3>1 DEF LookupOK
    <2>3. lock'[c] = ReadLock(EntryFile(at[c]), TRUE)
      <3>1. lock'[c] = [lock[c] EXCEPT !.held = TRUE]
        BY <1>1, <1>3, <2>1
      <3>2. lock'[c] = [ReadLock(EntryFile(at[c]), FALSE) EXCEPT !.held = TRUE]
        BY <2>2, <3>1
      <3> QED
        BY <3>2 DEF ReadLock
    <2> QED
      BY <2>1, <2>3 DEF LookupOK, Retrying, EntryFile
  <1>9. CASE GetReleases(c)
    BY <1>9 DEF GetReleases, vars, LookupOK, Retrying
  <1>10. CASE (GetClosed(c) \/ GetJoin(c) \/ GetCreate(c)) /\ UNCHANGED maintVars
    BY <1>1, <1>4, <1>10 DEF GetClosed, GetJoin, GetCreate, CanEnter, maintVars, LookupOK, Retrying
  <1>11. CASE CheckEntry(c) /\ UNCHANGED maintVars
    BY <1>1, <1>3, <1>4, <1>11 DEF CheckEntry, Fail, maintVars, LookupOK, Retrying, Call
  <1>12. CASE (StartOrJoin(c) \/ AwaitDone(c)) /\ UNCHANGED maintVars
    BY <1>1, <1>3, <1>4, <1>12, ZenonT(60) DEF StartOrJoin, AwaitDone, Fail, maintVars, LookupOK, Retrying, Call
  <1>13. CASE Leave(c) /\ UNCHANGED maintVars
    BY <1>1, <1>4, <1>13 DEF Leave, maintVars, LookupOK, Retrying, ControlOK
  <1>14. CASE ReadResult(c) /\ UNCHANGED maintVars
    BY <1>1, <1>3, <1>4, <1>14, ZenonT(60) DEF ReadResult, maintVars, LookupOK, Retrying, Call
  <1>15. CASE Retire(c) /\ UNCHANGED maintVars
    <2>1. ~Waits(c) /\ AfterRetire(c) = IF call[c].res = "buildErr" THEN "done" ELSE "start"
      BY <1>3 DEF Waits, AfterRetire
    <2>2. /\ pc[c] = "retire" /\ pc'[c] \in {"cancel", "start", "done"} /\ lock'[c] = lock[c]
          /\ pc'[c] # "cancel" => pc'[c] = AfterRetire(c)
          /\ call'[c].next = AfterRetire(c)
      BY <1>3, <1>4, <1>1, <1>15, <2>1 DEF Retire, maintVars, Call
    <2> QED
      BY <1>1, <2>1, <2>2 DEF LookupOK, Retrying
  <1>16. CASE (Cancel(c) \/ Dispatch(c)) /\ UNCHANGED maintVars
    BY <1>1, <1>4, <1>16 DEF Cancel, Dispatch, maintVars, LookupOK, Retrying, ControlOK
  <1>17. CASE Await(c) /\ UNCHANGED maintVars
    BY <1>1, <1>3, <1>4, <1>17 DEF Await, maintVars, LookupOK, Retrying, ControlOK, Waits, Call
  <1> QED
    BY <1>5, <1>6, <1>7, <1>8, <1>9, <1>10, <1>11, <1>12, <1>13, <1>14, <1>15, <1>16, <1>17, LookupApart
       DEF GetSteps, Retirement

-----------------------------------------------------------------------------
(* Maintainers.                                                             *)

\* Only a lookup past its guard starts a construction, and it is on a loaded entry.
LEMMA Starts ==
  ASSUME FileInv, [MNext]_allVars, NEW e \in Entry, ~Started(e), Started(e)'
  PROVE  /\ ent[e].load = "loaded"
         /\ \E c \in Caller : at[c] = e /\ lock[c] = ReadLock(EntryFile(e), TRUE)
  <1> USE DEF Started
  <1>1. /\ IInv /\ TypeOK /\ Loads /\ EntryInv
        /\ \A p \in Process : pc[p] \in Working => at[p] \in Entry /\ ~Free(at[p])
    BY DEF FileInv, Manager, Promises, IInv, ControlInv, ControlOK
  <1>2. ent' # ent
    OBVIOUS
  <1>3. ASSUME NEW c \in Caller, Get(c) PROVE StartOrJoin(c) /\ at[c] = e
    <2>1. c \in Process
      BY DEF Process
    <2>2. CASE GetJoin(c)
      <3>1. entries[call[c].conn] \in Entry
        BY <1>1, <2>1, <2>2, CallType DEF TypeOK, GetJoin
      <3> QED
        BY <1>1, <2>2, <3>1, EntryType DEF TypeOK, GetJoin, EntryState
    <2>3. CASE GetCreate(c)
      BY <1>1, <2>3 DEF GetCreate, TypeOK, Unused
    <2>4. CASE StartOrJoin(c)
      BY <1>1, <2>1, <2>4, EntryType DEF TypeOK, StartOrJoin, EntryState, Working, Inside
    <2>5. CASE AwaitDone(c)
      BY <1>1, <2>1, <2>5, EntryType DEF TypeOK, AwaitDone, EntryState, Working, Inside
    <2>6. CASE Leave(c)
      <3>1. at[c] \in Entry /\ ent[at[c]].waiters - 1 \in Nat
        BY <1>1, <2>6, CountedCaller DEF Leave, Inside
      <3>2. CASE MarkRetired(at[c], [ent[at[c]] EXCEPT !.waiters = @ - 1], FALSE)
        BY <1>1, <3>1, <3>2, MarkKeeps
      <3>3. CASE ent' = [ent EXCEPT ![at[c]] = [ent[at[c]] EXCEPT !.waiters = @ - 1]]
        BY <1>1, <3>1, <3>3, EntryType DEF TypeOK, EntryState
      <3> QED
        BY <2>6, <3>2, <3>3 DEF Leave
    <2> QED
      BY <1>2, <1>3, <2>2, <2>3, <2>4, <2>5, <2>6, QuietSteps DEF Get, QuietGet
  <1>4. ASSUME NEW p \in Process, Retirement(p) PROVE FALSE
    <2>1. CASE Retire(p)
      <3>1. at[p] \in Entry /\ ent[at[p]].waiters \in Nat /\ Waits(p) \in BOOLEAN
        BY <1>1, <2>1, EntryType DEF Retire, Working, Waits
      <3>2. ent[at[p]] = [ent[at[p]] EXCEPT !.waiters = ent[at[p]].waiters]
        BY <1>1, <3>1, EntryType DEF EntryState
      <3> QED
        BY <1>1, <1>2, <2>1, <3>1, <3>2, MarkKeeps DEF Retire
    <2>2. CASE Cancel(p) \/ Dispatch(p)
      BY <1>1, <2>2, EntryType DEF TypeOK, Cancel, Dispatch, EntryState, Working
    <2> QED
      BY <1>2, <1>4, <2>1, <2>2, QuietSteps DEF Retirement
  <1>5. ASSUME NEW f \in Entry, Background(f) PROVE FALSE
    BY <1>1, <1>5, EntryType DEF TypeOK, Background, Load, Construct, FactoryReturns, CloseProvider,
          FinishClose, EntryState
  <1>6. PICK c \in Caller : StartOrJoin(c) /\ at[c] = e
    BY <1>2, <1>3, <1>4, <1>5, ManagerSteps, QuietSteps
       DEF Next, vars, Resolve, FnReturns, QuietGet
  <1>7. pc[c] = "begin" /\ LookupOK(c)
    BY <1>6 DEF StartOrJoin, FileInv
  <1> QED
    BY <1>1, <1>6, <1>7 DEF Loads, LookupOK

\* While a maintainer holds its file's write side, what is quiet on the file stays quiet:
\* nobody starts a construction there.
LEMMA QuietStep ==
  ASSUME FileInv, [MNext]_allVars, NEW p \in Maintainer, NEW e \in Entry, Quiet(p, e),
         lock[p] = WriteLock(call[p].file, TRUE), call[p].kind = "where",
         call'[p].kind = "where", call'[p].file = call[p].file
  PROVE  Quiet(p, e)'
  <1> SUFFICES ASSUME Matches(p, e)', Started(e)' PROVE ent'[e].life = "finished"
    BY DEF Quiet
  <1>1. ent'[e].load = "loaded" /\ EntryFile(e)' = call[p].file
    BY DEF Matches, EntryFile
  <1>2. CASE Started(e)
    <2>1. ent[e].load = "loaded"
      BY <1>2 DEF FileInv, Manager, Promises, Loads
    <2>2. Matches(p, e)
      BY <1>1, <2>1, SteadyFiles DEF Matches, EntryFile
    <2> QED
      BY <1>2, <2>2, SteadyFiles DEF Quiet
  <1>3. CASE ~Started(e)
    <2>1. PICK c \in Caller : ent[e].load = "loaded" /\ lock[c] = ReadLock(EntryFile(e), TRUE)
      BY <1>3, Starts
    <2>2. EntryFile(e) = call[p].file
      BY <1>1, <2>1, SteadyFiles
    <2>3. lock[c].held /\ lock[p].held /\ lock[c].key = lock[p].key /\ lock[p].mode = "write"
      BY <2>1, <2>2 DEF ReadLock, WriteLock
    <2>4. c \in Locker /\ p \in Locker /\ c # p
      BY Roles
    <2>5. FALSE
      BY <2>3, <2>4 DEF FileInv, LockTypes, L!Exclusion, L!Holds, L!Conflict
    <2> QED
      BY <2>5
  <1> QED
    BY <1>2, <1>3

\* What the others do leaves a maintainer's place, call, lock and stage alone.
LEMMA MaintainerApart ==
  ASSUME FileInv, [MNext]_allVars, NEW p \in Maintainer
  PROVE  WithMaintenance(p) \/ (Same(p) /\ lock'[p] = lock[p] /\ stage'[p] = stage[p])
  <1>1. IInv /\ TypeOK /\ p \in Locker /\ p \in Process /\ p \in Admin /\ p \notin Caller
        /\ p \notin Prober /\ LockTypes
    BY Roles DEF FileInv, Manager, IInv
  <1>2. WithMaintenance(p) \/ lock'[p] = lock[p]
    BY <1>1, LockOf DEF WithMaintenance
  <1>3. vars' = vars => Same(p)
    BY DEF vars, Same
  <1>4. ASSUME NEW c \in Caller, GetSteps(c) \/ (ContextDone(c) /\ UNCHANGED maintVars)
        PROVE  Same(p) /\ stage'[p] = stage[p]
    <2>1. Same(p)
      <3>1. c \in Process /\ c # p
        BY <1>1, Roles
      <3> QED
        BY <1>1, <1>3, <1>4, <3>1, Underneath, OthersSteps DEF Same
    <2>2. stage' = stage
      BY <1>4 DEF GetSteps, GuardAsks, GuardReturns, GetReleases, maintVars
    <2> QED
      BY <2>1, <2>2
  <1>5. ASSUME NEW q \in Maintainer, q # p, WithMaintenance(q) PROVE Same(p) /\ stage'[p] = stage[p]
    <2>1. q \in Admin /\ q \in Process
      BY Roles
    <2>2. Same(p)
      BY <1>1, <1>3, <1>5, <2>1, Underneath, OthersSteps, PreparingApart DEF Same
    <2>3. stage'[p] = stage[p]
      BY <1>1, <1>5 DEF LockTypes, WithMaintenance, Resolve, Queue, AcquireWrite, RetireFile,
            RetiredBefore, FnReturns, RetiredAgain, MaintenanceReturns, maintVars
    <2> QED
      BY <2>2, <2>3
  <1>6. ASSUME NEW q \in Admin \ Maintainer, Administer(q) \/ Retirement(q), UNCHANGED maintVars
        PROVE  Same(p) /\ stage'[p] = stage[p]
    <2>1. q \in Admin /\ q \in Process /\ q # p
      BY <1>6, Roles
    <2> QED
      BY <1>1, <1>6, <2>1, OthersSteps DEF Same, maintVars
  <1>7. ASSUME NEW e \in Entry, Background(e), UNCHANGED maintVars PROVE Same(p) /\ stage'[p] = stage[p]
    BY <1>1, <1>7, OthersSteps DEF Same, maintVars
  <1>8. ASSUME NEW x \in Prober, Probe(x) PROVE Same(p) /\ stage'[p] = stage[p]
    <2>1. stage' = stage
      BY <1>8 DEF Probe, OpenAsks, OpenAcquires, OpenReturns, Probing, OpenFactory, ProbeCloses
    <2> QED
      BY <1>3, <1>8, <2>1, Underneath
  <1>9. CASE UNCHANGED allVars
    BY <1>3, <1>9 DEF allVars, maintVars
  <1> QED
    BY <1>2, <1>4, <1>5, <1>6, <1>7, <1>8, <1>9 DEF MNext, Returned

\* A sweep keeps its file, and once begun the entries it looks for.
LEMMA SweepKeeps ==
  ASSUME FileInv, NEW p \in Maintainer, RetireFile(p)
  PROVE  /\ call'[p].kind = "where" /\ call'[p].file = call[p].file
         /\ pc[p] = "start" => InvalidateAndWaitWhere(p)
         /\ pc[p] # "start" => call'[p].seen = call[p].seen
  <1>1. /\ TypeOK /\ p \in Process /\ call[p].kind = "where" /\ CloserOK(p)
        /\ call \in [Process -> Call] /\ call[p] \in Call
    BY Roles DEF FileInv, Manager, IInv, MaintainerOK, CloserInv, TypeOK
  <1>2. CASE Retirement(p)
    BY <1>1, <1>2 DEF Retirement, Retire, Cancel, Dispatch, Await, Call
  <1>3. CASE InvalidateAndWaitWhere(p)
    BY <1>1, <1>3 DEF InvalidateAndWaitWhere, Call
  <1>4. CASE SweepEntry(p) \/ SweepPending(p)
    BY <1>1, <1>4 DEF SweepEntry, SweepPending, Call
  <1>5. CASE AwaitPending(p)
    <2>1. \E t, u : call' = [call EXCEPT ![p].todo = t, ![p].errs = u] /\ pc[p] = "pendingSweep"
      BY <1>5 DEF AwaitPending
    <2> QED
      BY <1>1, <2>1 DEF Call
  <1>6. CASE Drain(p)
    <2>1. \E u : call' = [call EXCEPT ![p].errs = u] /\ pc[p] = "drain"
      BY <1>6 DEF Drain
    <2> QED
      BY <1>1, <2>1 DEF Call
  <1>7. CASE JoinClose(p)
    <2>1. \E u : call' = [call EXCEPT ![p].errs = u] /\ pc[p] = "joinClose"
      BY <1>7 DEF JoinClose
    <2> QED
      BY <1>1, <2>1 DEF Call
  <1>8. ~(UpdateProfile(p) \/ Invalidate(p) \/ InvalidateAndWait(p) \/ Close(p) \/ FinishManagerClose(p))
    BY <1>1 DEF UpdateProfile, Invalidate, InvalidateAndWait, Close, FinishManagerClose, CloserOK
  <1> QED
    BY <1>2, <1>3, <1>4, <1>5, <1>6, <1>7, <1>8 DEF RetireFile, Administer

\* A maintainer sweeps, works and sweeps again under the write side, on a quiet file.
LEMMA MaintainerStep ==
  ASSUME FileInv, [MNext]_allVars, NEW p \in Maintainer
  PROVE  MaintainerOK(p)'
  <1>1. /\ IInv /\ TypeOK /\ EntryInv /\ MaintainerOK(p) /\ SweepOK(p)
        /\ p \in Process /\ p \in Locker /\ p \in Admin
    BY Roles DEF FileInv, Manager, IInv, Promises, Sweeps, MaintainerOK
  <1>2. /\ lock \in [Locker -> L!LockRecord] /\ stage \in [Maintainer -> Stages]
        /\ call \in [Process -> Call] /\ pc \in [Process -> PCs]
        /\ profile \in [Conn -> Version]
    BY <1>1 DEF FileInv, LockTypes, TypeOK
  <1>3. call[p].kind = "where" /\ call[p].file \in Files
    BY <1>1 DEF MaintainerOK
  <1>4. \A e \in Entry : vars' = vars => Quiet(p, e)' = Quiet(p, e)
    BY DEF vars, Quiet, Matches, Started
  <1>5. CASE Same(p) /\ lock'[p] = lock[p] /\ stage'[p] = stage[p]
    <2>1. ASSUME lock[p] = WriteLock(call[p].file, TRUE), NEW e \in Entry, Quiet(p, e) PROVE Quiet(p, e)'
      BY <1>3, <1>5, <2>1, QuietStep DEF Same
    <2> QED
      BY <1>1, <1>5, <2>1 DEF MaintainerOK, Same
  <1>6. CASE Resolve(p)
    <2>1. call[p].conn \in Conn
      BY <1>1, CallType
    <2>2. FileOf[call[p].conn][profile[call[p].conn]] \in Files
      BY <1>2, <2>1, DataAssumption
    <2> QED
      BY <1>1, <1>2, <1>6, <2>2 DEF Resolve, MaintainerOK, Call
  <1>7. CASE Queue(p)
    <2>1. lock'[p] = WriteLock(call[p].file, FALSE)
      BY <1>1, <1>2, <1>7 DEF Queue, L!Request, WriteLock
    <2> QED
      BY <1>1, <1>2, <1>7, <2>1 DEF Queue, vars, MaintainerOK
  <1>8. CASE AcquireWrite(p)
    <2>1. lock[p] = WriteLock(call[p].file, FALSE) /\ lock'[p] = [lock[p] EXCEPT !.held = TRUE]
      BY <1>1, <1>2, <1>8 DEF AcquireWrite, L!Acquire, MaintainerOK
    <2>2. lock'[p] = [WriteLock(call[p].file, FALSE) EXCEPT !.held = TRUE]
      BY <2>1
    <2>3. lock'[p] = WriteLock(call[p].file, TRUE)
      BY <2>2 DEF WriteLock
    <2> QED
      BY <1>1, <1>2, <1>8, <2>3 DEF AcquireWrite, vars, MaintainerOK
  <1>9. CASE RetireFile(p)
    <2>1. /\ stage[p] \in {"before", "again"} /\ stage'[p] = stage[p] /\ lock'[p] = lock[p]
          /\ lock[p] = WriteLock(call[p].file, TRUE)
      BY <1>1, <1>9 DEF RetireFile, maintVars, MaintainerOK
    <2>2. /\ call'[p].kind = "where" /\ call'[p].file = call[p].file
          /\ pc[p] = "start" => InvalidateAndWaitWhere(p)
          /\ pc[p] # "start" => call'[p].seen = call[p].seen
      BY <1>9, SweepKeeps
    <2>3. ASSUME NEW e \in Entry, Quiet(p, e) PROVE Quiet(p, e)'
      BY <1>3, <2>1, <2>2, <2>3, QuietStep
    <2>4. ASSUME stage[p] = "before", NEW e \in Entry, e \notin call'[p].seen PROVE Quiet(p, e)'
      <3>1. CASE pc[p] = "start"
        <4>1. call'[p].seen = Unclosed
          BY <1>1, <1>2, <2>2, <3>1 DEF InvalidateAndWaitWhere, Call
        <4>2. Free(e) \/ ent[e].life = "finished"
          BY <2>4, <4>1 DEF Unclosed
        <4>3. Quiet(p, e)
          BY <1>1, <4>2 DEF EntryInv, EntryFits, Unused, Quiet, Started
        <4> QED
          BY <2>3, <4>3
      <3>2. CASE pc[p] # "start"
        BY <1>1, <2>2, <2>3, <2>4, <3>2 DEF MaintainerOK
      <3> QED
        BY <3>1, <3>2
    <2>5. ASSUME stage[p] = "again", NEW e \in Entry PROVE Quiet(p, e)'
      BY <1>1, <2>3, <2>5 DEF MaintainerOK
    <2> QED
      BY <1>3, <2>1, <2>2, <2>4, <2>5 DEF MaintainerOK
  <1>10. CASE RetiredBefore(p)
    <2>1. stage[p] = "before" /\ pc[p] = "done" /\ vars' = vars /\ lock' = lock
      BY <1>10 DEF RetiredBefore
    <2>2. stage'[p] = IF call[p].errs # {} THEN "release" ELSE "fn"
      BY <1>2, <1>10 DEF RetiredBefore
    <2>3. ASSUME NEW e \in Entry PROVE Quiet(p, e)'
      <3>1. CASE e \in call[p].seen
        BY <1>1, <1>4, <2>1, <3>1 DEF SweepOK, Elsewhere, Closed, Quiet
      <3>2. CASE e \notin call[p].seen
        BY <1>1, <1>4, <2>1, <3>2 DEF MaintainerOK
      <3> QED
        BY <3>1, <3>2
    <2> QED
      BY <1>1, <1>3, <2>1, <2>2, <2>3 DEF MaintainerOK, vars
  <1>11. CASE FnReturns(p)
    <2>1. /\ stage[p] = "fn" /\ stage'[p] = "again" /\ call' = call /\ ent' = ent /\ lock' = lock
      BY <1>2, <1>11 DEF FnReturns
    <2>2. \A e \in Entry : Quiet(p, e)' = Quiet(p, e)
      BY <2>1 DEF Quiet, Matches, Started
    <2> QED
      BY <1>1, <2>1, <2>2 DEF MaintainerOK
  <1>12. CASE RetiredAgain(p)
    <2>1. /\ stage[p] = "again" /\ stage'[p] = "release" /\ vars' = vars /\ lock' = lock /\ pc[p] = "done"
      BY <1>2, <1>12 DEF RetiredAgain
    <2> QED
      BY <1>1, <1>4, <2>1 DEF MaintainerOK, vars
  <1>13. CASE MaintenanceReturns(p)
    <2>1. /\ stage[p] = "release" /\ stage'[p] = "returned" /\ vars' = vars
      BY <1>2, <1>13 DEF MaintenanceReturns
    <2> QED
      BY <1>1, <2>1 DEF MaintainerOK, vars
  <1> QED
    BY <1>5, <1>6, <1>7, <1>8, <1>9, <1>10, <1>11, <1>12, <1>13, MaintainerApart DEF WithMaintenance

-----------------------------------------------------------------------------
(* Failures.                                                                *)

\* Beside the maintainers, only updates of profiles retire providers.
UpdatesBeside == \A p \in Admin \ Maintainer : AdminKinds[p] \subseteq {"update"}

\* An administrator of that kind waits for nothing and drains nothing.
UpdateOnly(p) ==
    /\ call[p].kind = "update"
    /\ pc[p] \in {"start", "lookup", "retire", "cancel", "dispatch", "await", "done"}
    /\ pc[p] \in {"cancel", "dispatch", "await"} => call[p].next = "done"

\* Until the sweep is over, a failure of an entry it looks for is in the call, recorded, or
\* about to be received.
FailureOK(p) ==
    /\ pc[p] \in {"retire", "cancel", "dispatch", "await"} => Matches(p, at[p])
    /\ stage[p] = "before" /\ pc[p] # "start" =>
          \A e \in call[p].seen : Matches(p, e) /\ Failing(e) /\ ent[e].life = "finished" =>
              \/ e \in call[p].errs
              \/ e \in retireErrs /\ pc[p] # "done"
              \/ pc[p] = "await" /\ at[p] = e
    /\ stage[p] = "fn" => \A e \in call[p].seen : Matches(p, e) => ~Failing(e)

FailInv ==
    /\ \A e \in Entry : Failing(e) => ent[e].life \in {"closing", "finished"}
    /\ \A p \in Admin \ Maintainer : UpdateOnly(p)
    /\ \A p \in Maintainer : FailureOK(p)

\* A close fails when it runs, and what is closing finishes.
LEMMA Closes ==
  ASSUME FileInv, [MNext]_allVars, NEW e \in Entry
  PROVE  /\ Failing(e)' => Failing(e) \/ ent'[e].life = "closing"
         /\ ent[e].life = "closing" => ent'[e].life \in {"closing", "finished"}
  <1> DEFINE P == /\ Failing(e)' => Failing(e) \/ ent'[e].life = "closing"
                  /\ ent[e].life = "closing" => ent'[e].life \in {"closing", "finished"}
  <1> USE DEF Failing
  <1>1. /\ IInv /\ TypeOK /\ Loads /\ EntryInv
        /\ \A p \in Process : ControlOK(p) /\ (pc[p] \in Working => at[p] \in Entry)
    BY DEF FileInv, Manager, Promises, IInv, ControlInv, ControlOK
  <1>2. ent' = ent => P
    OBVIOUS
  <1>3. ASSUME NEW c \in Caller, Get(c) PROVE P
    <2>1. c \in Process
      BY DEF Process
    <2>2. CASE GetJoin(c)
      <3>1. entries[call[c].conn] \in Entry
        BY <1>1, <2>1, <2>2, CallType DEF TypeOK, GetJoin
      <3> QED
        BY <1>1, <2>2, <3>1, EntryType DEF TypeOK, GetJoin, EntryState
    <2>3. CASE GetCreate(c)
      <3>1. PICK f \in Entry : Free(f) /\ ent' = [ent EXCEPT ![f] =
                [Unused EXCEPT !.conn = call[c].conn, !.cfg = call[c].want,
                               !.load = IF call[c].want = None THEN "loading" ELSE "loaded",
                               !.waiters = 1]]
        BY <2>3 DEF GetCreate
      <3>2. ent[f] = Unused
        BY <1>1, <3>1 DEF EntryInv, EntryFits
      <3> QED
        BY <1>1, <3>1, <3>2 DEF TypeOK, Unused
    <2>4. CASE StartOrJoin(c)
      BY <1>1, <2>1, <2>4, EntryType DEF TypeOK, StartOrJoin, EntryState, Working, Inside
    <2>5. CASE AwaitDone(c)
      BY <1>1, <2>1, <2>5, EntryType DEF TypeOK, AwaitDone, EntryState, Working, Inside
    <2>6. CASE Leave(c)
      <3>1. at[c] \in Entry /\ ent[at[c]].waiters - 1 \in Nat
        BY <1>1, <2>6, CountedCaller DEF Leave, Inside
      <3>2. CASE MarkRetired(at[c], [ent[at[c]] EXCEPT !.waiters = @ - 1], FALSE) /\ ~Retired(at[c])
        BY <1>1, <3>1, <3>2, MarkKeeps DEF Retired
      <3>3. CASE ent' = [ent EXCEPT ![at[c]] = [ent[at[c]] EXCEPT !.waiters = @ - 1]]
        BY <1>1, <3>1, <3>3, EntryType DEF TypeOK, EntryState
      <3> QED
        BY <2>6, <3>2, <3>3 DEF Leave
    <2> QED
      BY <1>2, <1>3, <2>2, <2>3, <2>4, <2>5, <2>6, QuietSteps DEF Get, QuietGet
  <1>4. ASSUME NEW p \in Process, Retirement(p) PROVE P
    <2>1. CASE Retire(p)
      <3>1. at[p] \in Entry /\ ent[at[p]].waiters \in Nat /\ Waits(p) \in BOOLEAN
        BY <1>1, <2>1, EntryType DEF Retire, Working, Waits
      <3>2. ent[at[p]] = [ent[at[p]] EXCEPT !.waiters = ent[at[p]].waiters]
        BY <1>1, <3>1, EntryType DEF EntryState
      <3> QED
        BY <1>1, <1>2, <2>1, <3>1, <3>2, MarkKeeps DEF Retire, Retired
    <2>2. CASE Cancel(p) \/ Dispatch(p)
      BY <1>1, <2>2, EntryType DEF TypeOK, Cancel, Dispatch, EntryState, Working, ControlOK
    <2> QED
      BY <1>2, <1>4, <2>1, <2>2, QuietSteps DEF Retirement
  <1>5. ASSUME NEW f \in Entry, Background(f) PROVE P
    <2>1. CASE Load(f) \/ Construct(f) \/ FactoryReturns(f)
      BY <1>1, <2>1, EntryType DEF TypeOK, Load, Construct, FactoryReturns, EntryState
    <2>2. CASE CloseProvider(f) \/ FinishClose(f)
      BY <1>1, <2>2, EntryType DEF TypeOK, CloseProvider, FinishClose, EntryState
    <2> QED
      BY <1>5, <2>1, <2>2 DEF Background
  <1> QED
    BY <1>2, <1>3, <1>4, <1>5, ManagerSteps, QuietSteps
       DEF Next, vars, Resolve, FnReturns, QuietGet

\* Two maintainers that sweep or work on one file are one.
LEMMA OneMaintainer ==
  ASSUME FileInv, NEW p \in Maintainer, NEW q \in Maintainer,
         stage[p] \in {"before", "fn", "again", "release"},
         stage[q] \in {"before", "fn", "again", "release"}, call[p].file = call[q].file
  PROVE  p = q
  <1>1. p \in Locker /\ q \in Locker
    BY Roles
  <1>2. /\ lock[p] = WriteLock(call[p].file, TRUE) /\ lock[q] = WriteLock(call[p].file, TRUE)
    BY DEF FileInv, MaintainerOK
  <1>3. lock[p].held /\ lock[q].held /\ lock[p].key = lock[q].key /\ lock[p].mode = "write"
    BY <1>2 DEF WriteLock
  <1> QED
    BY <1>1, <1>3 DEF FileInv, LockTypes, L!Exclusion, L!Holds, L!Conflict

\* An update's administrator goes on as one.
LEMMA UpdateStep ==
  ASSUME FileInv, [MNext]_allVars, NEW p \in Admin \ Maintainer, UpdateOnly(p)
  PROVE  UpdateOnly(p)'
  <1>1. /\ IInv /\ TypeOK /\ p \in Process /\ p \notin Caller /\ call \in [Process -> Call]
        /\ pc \in [Process -> PCs]
    BY Roles DEF FileInv, Manager, IInv, TypeOK
  <1>2. Retirement(p) \/ Administer(p) \/ Same(p)
    <2>1. CASE [Next]_vars
      BY <1>1, <2>1, Movers
    <2> QED
      BY <1>1, <2>1, ManagerSteps, PreparingApart
  <1>3. CASE Same(p)
    BY <1>3 DEF UpdateOnly, Same
  <1>4. CASE Retire(p)
    <2>1. AfterRetire(p) = "done" /\ ~Waits(p)
      BY <1>1 DEF UpdateOnly, AfterRetire, Waits
    <2> QED
      BY <1>1, <1>4, <2>1 DEF UpdateOnly, Retire, Call
  <1>5. CASE Cancel(p) \/ Dispatch(p)
    BY <1>1, <1>5 DEF UpdateOnly, Cancel, Dispatch
  <1>6. CASE Await(p)
    BY <1>1, <1>6 DEF UpdateOnly, Await, Call
  <1>7. CASE UpdateProfile(p) \/ Invalidate(p)
    BY <1>1, <1>7 DEF UpdateOnly, UpdateProfile, Invalidate, Call
  <1> QED
    BY <1>2, <1>3, <1>4, <1>5, <1>6, <1>7 DEF UpdateOnly, Retirement, Administer, InvalidateAndWait,
       InvalidateAndWaitWhere, Close, JoinClose, SweepEntry, SweepPending, AwaitPending, Drain,
       FinishManagerClose

\* What matches a maintainer's file matches it still, and a construction that does, did.
LEMMA SameMatch ==
  ASSUME FileInv, [MNext]_allVars, NEW p \in Maintainer, NEW e \in Entry,
         call'[p].kind = "where", call'[p].file = call[p].file
  PROVE  /\ Matches(p, e) => Matches(p, e)'
         /\ Started(e) /\ Matches(p, e)' => Matches(p, e)
  <1>1. call[p].kind = "where"
    BY DEF FileInv, MaintainerOK
  <1>2. Started(e) => ent[e].load = "loaded"
    BY DEF FileInv, Manager, Promises, Loads
  <1> QED
    BY <1>1, <1>2, SteadyFiles DEF Matches, EntryFile

\* A maintainer retires and awaits entries on its file only.
LEMMA AtStep ==
  ASSUME FileInv, FailInv, [MNext]_allVars, NEW p \in Maintainer,
         pc'[p] \in {"retire", "cancel", "dispatch", "await"}
  PROVE  Matches(p, at[p])'
  <1>1. /\ TypeOK /\ p \in Process /\ call[p].kind = "where" /\ FailureOK(p) /\ SweepOK(p)
        /\ pc \in [Process -> PCs] /\ at \in [Process -> Entry \cup {None}] /\ call[p] \in Call
        /\ pc[p] \in Working => at[p] \in Entry
    BY Roles DEF FileInv, Manager, IInv, Promises, Sweeps, MaintainerOK, ControlInv, ControlOK,
          TypeOK, FailInv
  <1>2. ASSUME call'[p].kind = "where", call'[p].file = call[p].file, NEW e \in Entry,
               at'[p] = e, Matches(p, e)
        PROVE  Matches(p, at[p])'
    <2>1. Matches(p, e)'
      BY <1>2, SameMatch
    <2> QED
      BY <1>2, <2>1 DEF Matches
  <1>3. ASSUME call'[p].kind = "where", call'[p].file = call[p].file, at'[p] = at[p],
               pc[p] \in {"retire", "cancel", "dispatch", "await"}
        PROVE  Matches(p, at[p])'
    BY <1>1, <1>2, <1>3 DEF FailureOK, Working
  <1>4. CASE Same(p)
    BY <1>1, <1>3, <1>4 DEF Same
  <1>5. CASE RetireFile(p)
    <2>1. call'[p].kind = "where" /\ call'[p].file = call[p].file
      BY <1>5, SweepKeeps
    <2>2. CASE Retirement(p)
      BY <1>3, <2>1, <2>2 DEF Retirement, Retire, Cancel, Dispatch, Await
    <2>3. CASE SweepEntry(p)
      <3>1. PICK e \in call[p].todo : Matches(p, e) /\ at' = [at EXCEPT ![p] = e]
        BY <1>1, <2>3 DEF SweepEntry
      <3>2. e \in Entry
        BY <1>1 DEF Call
      <3> QED
        BY <1>1, <1>2, <2>1, <3>1, <3>2
    <2>4. pc[p] # "joinClose"
      BY <1>1 DEF SweepOK
    <2> QED
      BY <1>1, <1>5, <2>2, <2>3, <2>4 DEF RetireFile, Administer, UpdateProfile, Invalidate,
            InvalidateAndWait, InvalidateAndWaitWhere, Close, JoinClose, SweepPending, AwaitPending,
            Drain, FinishManagerClose, SweepOK
  <1>6. CASE Resolve(p) \/ FnReturns(p)
    BY <1>1, <1>6 DEF Resolve, FnReturns, FileInv, MaintainerOK
  <1>7. CASE vars' = vars
    BY <1>1, <1>4, <1>7 DEF vars, Same
  <1> QED
    BY <1>4, <1>5, <1>6, <1>7, MaintainerApart, Underneath DEF WithMaintenance, Queue, AcquireWrite,
       RetiredBefore, RetiredAgain, MaintenanceReturns

\* A record on a maintainer's file is drained by that maintainer.
LEMMA OwnRecords ==
  ASSUME FileInv, FailInv, [MNext]_allVars, NEW p \in Maintainer, stage[p] = "before",
         NEW e \in Entry, Matches(p, e), e \in retireErrs, e \notin retireErrs'
  PROVE  Drain(p)
  <1>1. IInv /\ TypeOK /\ p \in Process
    BY Roles DEF FileInv, Manager, IInv
  <1>2. PICK q \in Admin : Drain(q) /\ Matches(q, e) /\ (q \in Maintainer => RetireFile(q))
    <2>1. ASSUME NEW c \in Caller, GetSteps(c) \/ ContextDone(c) PROVE retireErrs' = retireErrs
      BY <2>1 DEF GetSteps, GuardAsks, GuardReturns, GetReleases, Guard, GetClosed, GetJoin, GetCreate,
            CheckEntry, StartOrJoin, AwaitDone, Leave, ReadResult, Retirement, Retire, Cancel, Dispatch,
            Await, ContextDone, vars, managerVars
    <2>2. ASSUME NEW q \in Process, Retirement(q) PROVE retireErrs' = retireErrs
      BY <2>2 DEF Retirement, Retire, Cancel, Dispatch, Await, managerVars
    <2>3. ASSUME NEW q \in Admin, Administer(q) PROVE Drain(q) /\ Matches(q, e)
      <3>1. Drain(q)
        BY <2>3 DEF Administer, UpdateProfile, Invalidate, InvalidateAndWait, InvalidateAndWaitWhere,
              Close, JoinClose, SweepEntry, SweepPending, AwaitPending, FinishManagerClose, managerVars
      <3> QED
        BY <3>1 DEF Drain
    <2>4. ASSUME NEW f \in Entry, Background(f) PROVE retireErrs \subseteq retireErrs'
      BY <2>4 DEF Background, Load, Construct, FactoryReturns, CloseProvider, FinishClose, managerVars
    <2>5. ASSUME NEW q \in Maintainer, WithMaintenance(q)
          PROVE  retireErrs' = retireErrs \/ (RetireFile(q) /\ Administer(q))
      <3>1. q \in Process
        BY Roles
      <3> QED
        BY <2>2, <2>5, <3>1 DEF WithMaintenance, Resolve, Queue, AcquireWrite, RetireFile, RetiredBefore,
              FnReturns, RetiredAgain, MaintenanceReturns, vars, managerVars
    <2>6. CASE vars' = vars
      BY <2>6 DEF vars
    <2> QED
      BY <2>1, <2>2, <2>3, <2>4, <2>5, <2>6, Underneath, Roles, SMTT(30)
         DEF MNext, Returned, allVars
  <1>3. q \in Maintainer
    BY <1>2 DEF FailInv, UpdateOnly, Drain
  <1>4. stage[q] \in {"before", "again"} /\ call[q].file = EntryFile(e) /\ call[p].file = EntryFile(e)
    BY <1>2, <1>3 DEF RetireFile, Matches, EntryFile, FileInv, MaintainerOK
  <1> QED
    BY <1>2, <1>3, <1>4, OneMaintainer

\* A sweep that is not over has its entries from before the step, and each failure on its
\* file stays in the call, recorded, or about to be received.
LEMMA FailureKept ==
  ASSUME FileInv, FailInv, [MNext]_allVars, NEW p \in Maintainer,
         stage[p] = "before", stage'[p] = "before", pc[p] # "start", Same(p) \/ RetireFile(p),
         NEW e \in call[p].seen, Matches(p, e)', Failing(e)', ent'[e].life = "finished"
  PROVE  \/ e \in call'[p].errs
         \/ e \in retireErrs' /\ pc'[p] # "done"
         \/ pc'[p] = "await" /\ at'[p] = e
  <1>1. /\ IInv /\ Loads /\ Reported /\ TypeOK /\ EntryInv /\ FailureOK(p) /\ SweepOK(p) /\ ControlOK(p)
        /\ p \in Process /\ p \in Admin /\ call[p].kind = "where" /\ e \in Entry
    BY Roles DEF FileInv, Manager, IInv, Promises, FailInv, Sweeps, MaintainerOK, ControlInv, SweepOK
  <1>2. call \in [Process -> Call] /\ pc \in [Process -> PCs] /\ call'[p].kind = "where" 
        /\ call'[p].file = call[p].file
    BY <1>1, SweepKeeps DEF TypeOK, Same, FileInv, MaintainerOK
  <1>3. [Next]_vars \/ (ent' = ent /\ retireErrs' = retireErrs /\ Same(p))
    <2>1. ASSUME NEW q \in Maintainer, Resolve(q) \/ FnReturns(q)
          PROVE  ent' = ent /\ retireErrs' = retireErrs /\ Same(p)
      <3>1. p # q
        BY <2>1 DEF Resolve, FnReturns
      <3> QED
        BY <1>1, <2>1, <3>1, PreparingApart DEF Resolve, FnReturns, managerVars
    <2> QED
      BY <2>1, ManagerSteps
  <1>4. CASE ent' = ent /\ retireErrs' = retireErrs /\ Same(p)
    <2>1. Matches(p, e) /\ Failing(e) /\ ent[e].life = "finished"
      BY <1>4 DEF Matches, Failing, Same
    <2> QED
      BY <1>1, <1>4, <2>1 DEF FailureOK, Same
  <1>5. SUFFICES ASSUME [Next]_vars
                 PROVE  \/ e \in call'[p].errs
                        \/ e \in retireErrs' /\ pc'[p] # "done"
                        \/ pc'[p] = "await" /\ at'[p] = e
    BY <1>3, <1>4
  <1>6. Steady(e) /\ Caused(e) /\ Advances(e)
    BY <1>1, <1>5, Steadiness, EntryStep
  <1>7. CASE ent[e].life = "finished"
    <2>1. Failing(e) /\ Started(e)
      BY <1>1, <1>6, <1>7 DEF Steady, Failing, EntryInv, EntryFits, Built, Started
    <2>2. Matches(p, e)
      BY <1>2, <2>1, <1>1, SameMatch
    <2>3. \/ e \in call[p].errs
          \/ e \in retireErrs /\ pc[p] # "done"
          \/ pc[p] = "await" /\ at[p] = e
      BY <1>1, <1>7, <2>1, <2>2 DEF FailureOK
    <2>4. CASE e \in call[p].errs
      BY <1>1, <1>5, <2>4, ErrorsKept
    <2>5. CASE e \in retireErrs /\ pc[p] # "done"
      <3>1. CASE Drain(p)
        <4>1. call' = [call EXCEPT ![p].errs = @ \cup {f \in retireErrs : Matches(p, f)}]
          BY <3>1 DEF Drain
        <4>2. call'[p].errs = call[p].errs \cup {f \in retireErrs : Matches(p, f)}
          BY <1>1, <1>2, <4>1 DEF Call
        <4> QED
          BY <2>2, <2>5, <4>2
      <3>2. CASE ~Drain(p)
        <4>1. e \in retireErrs'
          BY <1>1, <2>2, <2>5, <3>2, OwnRecords
        <4>2. pc'[p] # "done"
          <5>1. CASE Same(p)
            BY <2>5, <5>1 DEF Same
          <5>2. CASE Retirement(p)
            <6>1. AfterRetire(p) = "sweep"
              BY <1>1, Roles DEF AfterRetire
            <6> QED
              BY <1>1, <1>2, <5>2, <6>1 DEF Retirement, Retire, Cancel, Dispatch, Await, SweepOK
          <5>3. CASE Administer(p) /\ ~Drain(p)
            <6>1. pc[p] # "lookup" /\ pc[p] # "joinClose"
              BY <1>1 DEF SweepOK
            <6> QED
              BY <1>1, <1>2, <2>5, <5>3, <6>1 DEF Administer, UpdateProfile, Invalidate,
                 InvalidateAndWait, InvalidateAndWaitWhere, Close, JoinClose, SweepEntry, SweepPending,
                 AwaitPending, FinishManagerClose
          <5> QED
            BY <3>2, <5>1, <5>2, <5>3 DEF RetireFile
        <4> QED
          BY <4>1, <4>2
      <3> QED
        BY <3>1, <3>2
    <2>6. CASE pc[p] = "await" /\ at[p] = e
      <3>1. CASE Same(p)
        BY <2>6, <3>1 DEF Same
      <3>2. CASE Await(p)
        BY <1>1, <1>2, <2>1, <2>6, <3>2 DEF Await, Waits, Call
      <3> QED
        BY <2>6, <3>1, <3>2 DEF RetireFile, Retirement, Retire, Cancel, Dispatch, Administer,
           UpdateProfile, Invalidate, InvalidateAndWait, InvalidateAndWaitWhere, Close, JoinClose,
           SweepEntry, SweepPending, AwaitPending, Drain, FinishManagerClose
    <2> QED
      BY <2>3, <2>4, <2>5, <2>6
  <1>8. CASE ent[e].life # "finished"
    <2>1. FinishClose(e)
      BY <1>6, <1>8 DEF Caused
    <2>2. ent[e].life = "closing" /\ UNCHANGED <<pc, at, call>>
      BY <2>1 DEF FinishClose
    <2>3. Built(e) /\ Started(e) /\ Retired(e) /\ Failing(e)
      BY <1>1, <1>6, <2>2 DEF EntryInv, EntryFits, Built, Started, Retired, Steady, Failing
    <2>4. Matches(p, e)
      BY <1>2, <2>3, <1>1, SameMatch
    <2>5. CASE ~ent[e].waited
      <3>1. e \in retireErrs'
        BY <2>1, <2>3, <2>5 DEF FinishClose
      <3>2. pc[p] # "done"
        <4>1. CASE pc[p] = "done"
          BY <1>1, <1>8, <2>3, <2>4, <4>1 DEF SweepOK, Elsewhere, Closed
        <4> QED
          BY <4>1
      <3> QED
        BY <2>2, <3>1, <3>2
    <2>6. CASE ent[e].waited
      <3>1. PICK q \in Admin : Waits(q) /\ at[q] = e /\ pc[q] \in {"cancel", "dispatch", "await"}
        BY <1>1, <1>8, <2>3, <2>6 DEF Reported, Awaited
      <3>2. q \in Maintainer
        BY <3>1 DEF FailInv, UpdateOnly, Waits
      <3>3. Matches(q, e)
        BY <3>1, <3>2 DEF FailInv, FailureOK
      <3>4. stage[q] \in {"before", "again"} /\ call[q].kind = "where"
        BY <3>1, <3>2 DEF FileInv, LockTypes, Stages, MaintainerOK
      <3>5. call[q].file = call[p].file
        BY <1>1, <2>4, <3>3, <3>4 DEF Matches
      <3>6. q = p
        BY <3>2, <3>4, <3>5, OneMaintainer
      <3>7. pc[p] = "await"
        BY <1>1, <2>2, <3>1, <3>6 DEF ControlOK
      <3> QED
        BY <2>2, <3>1, <3>6, <3>7
    <2> QED
      BY <2>5, <2>6
  <1> QED
    BY <1>7, <1>8

\* The sweep's failures, and the file operation that they stop.
LEMMA FailureStep ==
  ASSUME FileInv, FailInv, FileInv', [MNext]_allVars, NEW p \in Maintainer,
         \A e \in Entry : Failing(e)' => ent'[e].life \in {"closing", "finished"}
  PROVE  FailureOK(p)'
  <1>1. /\ IInv /\ TypeOK /\ EntryInv /\ Loads /\ FailureOK(p) /\ SweepOK(p)
        /\ p \in Process /\ call[p].kind = "where"
        /\ call \in [Process -> Call] /\ pc \in [Process -> PCs] /\ stage \in [Maintainer -> Stages]
        /\ call[p].seen \subseteq Entry
    BY Roles DEF FileInv, Manager, IInv, Promises, FailInv, Sweeps, MaintainerOK, SweepOK, TypeOK,
          LockTypes
  <1>2. WithMaintenance(p) \/ (Same(p) /\ stage'[p] = stage[p])
    BY MaintainerApart
  <1>3. pc'[p] \in {"retire", "cancel", "dispatch", "await"} => Matches(p, at[p])'
    BY AtStep
  <1>4. ASSUME stage'[p] = "before", pc'[p] # "start", NEW e \in call'[p].seen,
               Matches(p, e)', Failing(e)', ent'[e].life = "finished"
        PROVE  \/ e \in call'[p].errs
               \/ e \in retireErrs' /\ pc'[p] # "done"
               \/ pc'[p] = "await" /\ at'[p] = e
    <2>1. stage[p] = "before" /\ (Same(p) \/ RetireFile(p))
      <3>1. CASE AcquireWrite(p)
        BY <1>4, <3>1 DEF AcquireWrite, vars, FileInv, MaintainerOK
      <3> QED
        BY <1>1, <1>2, <1>4, <3>1 DEF WithMaintenance, Resolve, Queue, RetireFile, RetiredBefore,
           FnReturns, RetiredAgain, MaintenanceReturns, maintVars
    <2>2. CASE pc[p] = "start"
      <3>1. InvalidateAndWaitWhere(p)
        BY <1>4, <2>1, <2>2, SweepKeeps DEF Same
      <3>2. call'[p].seen = Unclosed /\ ent' = ent
        BY <1>1, <3>1 DEF InvalidateAndWaitWhere, Call
      <3> QED
        BY <1>4, <3>2 DEF Unclosed
    <2>3. CASE pc[p] # "start"
      <3>1. call'[p].seen = call[p].seen
        BY <2>1, <2>3, SweepKeeps DEF Same
      <3> QED
        BY <1>4, <2>1, <2>3, <3>1, FailureKept
    <2> QED
      BY <2>2, <2>3
  <1>5. ASSUME stage'[p] = "fn", NEW e \in call'[p].seen, Matches(p, e)', Failing(e)' PROVE FALSE
    <2>1. (stage[p] = "fn" /\ Same(p)) \/ RetiredBefore(p)
      BY <1>1, <1>2, <1>5 DEF WithMaintenance, Resolve, Queue, AcquireWrite, RetireFile, RetiredBefore,
         FnReturns, RetiredAgain, MaintenanceReturns, maintVars
    <2>2. Same(p) /\ e \in Entry /\ call'[p].kind = "where" /\ call'[p].file = call[p].file
      BY <1>1, <1>5, <2>1 DEF RetiredBefore, vars, Same
    <2>3. Started(e)' /\ Quiet(p, e)'
      <3>1. Quiet(p, e)'
        BY <1>5, <2>2 DEF FileInv, MaintainerOK
      <3>2. ent'[e].life \in {"closing", "finished"}
        BY <1>5, <2>2
      <3> QED
        BY <2>2, <3>1, <3>2 DEF FileInv, Manager, IInv, EntryInv, EntryFits, Built, Started
    <2>4. ent'[e].life = "finished"
      BY <1>5, <2>3 DEF Quiet
    <2>5. CASE RetiredBefore(p)
      <3>1. /\ stage[p] = "before" /\ pc[p] = "done" /\ call[p].errs = {}
            /\ UNCHANGED <<ent, call, pc, at, retireErrs>>
        BY <1>1, <1>5, <2>5 DEF RetiredBefore, vars
      <3>2. Matches(p, e) /\ Failing(e) /\ ent[e].life = "finished" /\ e \in call[p].seen
        BY <1>5, <2>4, <3>1 DEF Matches, Failing
      <3> QED
        BY <1>1, <3>1, <3>2 DEF FailureOK
    <2>6. CASE stage[p] = "fn" /\ Same(p)
      <3>1. e \in call[p].seen
        BY <1>5, <2>6 DEF Same
      <3>2. [Next]_vars \/ ent' = ent
        BY ManagerSteps DEF Resolve, FnReturns
      <3>3. ent' = ent \/ (Steady(e) /\ Caused(e))
        BY <1>1, <2>2, <3>2, Steadiness
      <3>4. ent[e].life \in {"closing", "finished"}
        BY <2>4, <3>3 DEF Caused, FinishClose
      <3>5. Failing(e) /\ Started(e)
        BY <1>1, <1>5, <2>2, <3>3, <3>4 DEF Steady, Failing, EntryInv, EntryFits, Built, Started
      <3>6. Matches(p, e)
        BY <1>5, <2>2, <3>5, SameMatch
      <3> QED
        BY <1>1, <2>6, <3>1, <3>5, <3>6 DEF FailureOK
    <2> QED
      BY <2>1, <2>5, <2>6
  <1> QED
    BY <1>3, <1>4, <1>5 DEF FailureOK

-----------------------------------------------------------------------------
(* The theorems.                                                            *)

\* The invariant holds before anything has run.
LEMMA InitFileInv == MInit => FileInv
  <1> SUFFICES ASSUME MInit PROVE FileInv
    OBVIOUS
  <1>1. Init /\ \A p \in Process : pc[p] = "start"
    BY DEF MInit, Init
  <1>2. Manager
    BY <1>1, InitIInv, InitPromises DEF Manager
  <1>3. Configured
    BY <1>1 DEF Configured, Init, Unused
  <1>4. LockTypes
    <2>1. lock \in [Locker -> L!LockRecord] /\ L!Exclusion
      BY DEF MInit, L!LockInit, L!NoLock, L!LockRecord, L!Mode, L!Exclusion
    <2>2. probe \in [Prober -> ProbeRecord]
      BY DEF MInit, ProbeRecord, ProbeStates
    <2> QED
      BY <2>1, <2>2 DEF MInit, LockTypes, Stages
  <1>5. \A c \in Caller : LookupOK(c)
    BY <1>1, Roles DEF MInit, LookupOK, L!LockInit
  <1>6. ASSUME NEW p \in Maintainer PROVE MaintainerOK(p)
    <2>1. call[p].conn \in Conn
      BY <1>2, CallType, Roles DEF Manager, IInv
    <2>2. FileOf[call[p].conn][0] \in Files
      BY <2>1, DataAssumption DEF Version
    <2> QED
      BY <1>1, <2>2, Roles DEF MInit, MaintainerOK
  <1> QED
    BY <1>2, <1>3, <1>4, <1>5, <1>6 DEF FileInv

\* The invariant is inductive, whatever the goroutines, profiles, files and entries.
THEOREM FileInvariance == MSpec => []FileInv
  <1>1. FileInv /\ [MNext]_allVars => FileInv'
    BY ManagerStep, ConfiguredStep, LockTypesStep, LookupStep, MaintainerStep DEF FileInv
  <1> QED
    BY InitFileInv, <1>1, PTL DEF MSpec

\* While a file operation runs no managed provider is open on its file, being built or
\* being closed, whichever profile it belongs to (WithMaintenance).
THEOREM FileIsTheMaintainers == MSpec => []NoManagedProviderDuringFn
  <1>1. FileInv => NoManagedProviderDuringFn
    <2> SUFFICES ASSUME FileInv, NEW p \in Maintainer, NEW e \in Entry, Maintaining(p),
                        ent[e].load = "loaded", EntryFile(e) = call[p].file
                 PROVE  ent[e].prov # "open" /\ ent[e].build \notin {"started", "calling"}
      BY DEF NoManagedProviderDuringFn
    <2>1. Matches(p, e) /\ Quiet(p, e)
      BY DEF FileInv, MaintainerOK, Matches, EntryFile, Maintaining
    <2>2. EntryFits(e)
      BY DEF FileInv, Manager, IInv, EntryInv
    <2> QED
      BY <2>1, <2>2 DEF Quiet, EntryFits, Built, Started
  <1> QED
    BY <1>1, FileInvariance, PTL

\* Beside maintainers, an administrator of an initial state updates a profile.
LEMMA InitFailInv == UpdatesBeside /\ MInit => FailInv
  <1> SUFFICES ASSUME UpdatesBeside, MInit PROVE FailInv
    OBVIOUS
  <1>1. Init /\ \A p \in Process : pc[p] = "start"
    BY DEF MInit, Init
  <1>2. \A e \in Entry : ~Failing(e)
    BY <1>1 DEF Init, Unused, Failing
  <1>3. ASSUME NEW p \in Admin \ Maintainer PROVE UpdateOnly(p)
    <2>1. call[p] \in AdminRequests(AdminKinds[p]) /\ AdminKinds[p] \subseteq {"update"}
      BY <1>1 DEF Init, UpdatesBeside
    <2>2. call[p].kind = "update"
      BY <2>1 DEF AdminRequests, NewCall
    <2> QED
      BY <1>1, <2>2, Roles DEF UpdateOnly
  <1>4. ASSUME NEW p \in Maintainer PROVE FailureOK(p)
    BY <1>1, <1>2, Roles DEF FailureOK, MInit
  <1> QED
    BY <1>2, <1>3, <1>4 DEF FailInv

\* If a close that was due when the maintainer came has failed, the file operation does not
\* run: no failure on the file is reported to somebody else, as long as nobody deletes a
\* connection or closes the manager meanwhile (WithMaintenance).
THEOREM FailureStopsFn == UpdatesBeside => (MSpec => []FailedCloseStopsFn)
  <1> SUFFICES ASSUME UpdatesBeside PROVE MSpec => []FailedCloseStopsFn
    OBVIOUS
  <1>1. MInit => FailInv
    BY InitFailInv
  <1>2. FileInv /\ FileInv' /\ FailInv /\ [MNext]_allVars => FailInv'
    <2> SUFFICES ASSUME FileInv, FileInv', FailInv, [MNext]_allVars PROVE FailInv'
      OBVIOUS
    <2>1. \A e \in Entry : Failing(e)' => ent'[e].life \in {"closing", "finished"}
      <3> SUFFICES ASSUME NEW e \in Entry, Failing(e)' PROVE ent'[e].life \in {"closing", "finished"}
        OBVIOUS
      <3> QED
        BY Closes, SteadyFiles DEF FailInv
    <2>2. \A p \in Admin \ Maintainer : UpdateOnly(p)'
      BY UpdateStep DEF FailInv
    <2>3. \A p \in Maintainer : FailureOK(p)'
      BY <2>1, FailureStep
    <2> QED
      BY <2>1, <2>2, <2>3 DEF FailInv
  <1>3. FailInv => FailedCloseStopsFn
    BY DEF FailInv, FailureOK, FailedCloseStopsFn
  <1> QED
    BY <1>1, <1>2, <1>3, FileInvariance, PTL DEF MSpec

-----------------------------------------------------------------------------
(* The manager's word under the facade.                                     *)

\* Who waits for the lock of a file.
Asking(x) == lock[x].key # None /\ ~lock[x].held

\* A lookup waits for a file in its guard, a maintainer before its first sweep, and the
\* other administrators never.
AskersInv ==
    /\ \A c \in Caller : Asking(c) => pc[c] = "guard"
    /\ \A p \in Maintainer :
          /\ stage[p] \in {"resolve", "queue", "returned"} => lock[p] = L!NoLock
          /\ pc[p] # "joinClose"
    /\ \A p \in Admin \ Maintainer : lock[p] = L!NoLock

\* An owed close is in nobody's hands who waits for a file.
Unhindered(e) ==
    /\ Owed(e)
    /\ ent[e].life \in {"marked", "cancelled"} =>
          \E q \in Process : at[q] = e /\ pc[q] \in Retiring /\ ~Asking(q)

\* Whoever has the lock of a file waits in the manager, if at all, for a construction that
\* has begun and for closes that do not wait for a file.
HoldersGoOn ==
    \A x \in Process : lock[x].held =>
        /\ x \in Caller => pc[x] \notin {"awaitConfig", "guard"}
        /\ x \in Maintainer => pc[x] # "joinClose"
        /\ pc[x] = "awaitDone" => Started(at[x])
        /\ pc[x] = "await" => Unhindered(at[x])
        /\ x \in Maintainer /\ pc[x] = "pendingSweep" => \A e \in call[x].todo : Unhindered(e)

FacadeInv == FileInv /\ Serving /\ Wakers /\ AskersInv

\* What prepares a maintainer's next sweep changes nothing for the others.
LEMMA PreparingLeaves ==
  ASSUME FileInv, NEW p \in Maintainer, Resolve(p) \/ FnReturns(p)
  PROVE  /\ UNCHANGED <<ent, pending, closing, at>>
         /\ \A q \in Process : q # p => Same(q)
         /\ pc[p] \in {"start", "done"} /\ pc'[p] = "start"
         /\ call[p].kind = "where" /\ p \in Process /\ p \notin Caller
  <1>1. TypeOK /\ p \in Process /\ p \notin Caller /\ call[p].kind = "where"
    BY Roles DEF FileInv, Manager, IInv, MaintainerOK
  <1>2. pc[p] \in {"start", "done"} /\ pc'[p] = "start"
    BY <1>1 DEF FileInv, MaintainerOK, Resolve, FnReturns, TypeOK
  <1> QED
    BY <1>1, <1>2, PreparingApart DEF Resolve, FnReturns, managerVars

\* So it is a stutter for the pool, and the wakers stay at work.
LEMMA PreparingKeeps ==
  ASSUME FileInv, Serving, Wakers, NEW p \in Maintainer, Resolve(p) \/ FnReturns(p)
  PROVE  Serving' /\ Wakers' /\ UNCHANGED PP!poolVars
  <1>1. /\ UNCHANGED <<ent, pending, closing, at>>
        /\ \A q \in Process : q # p => Same(q)
        /\ pc[p] \in {"start", "done"} /\ pc'[p] = "start"
        /\ call[p].kind = "where" /\ p \in Process /\ p \notin Caller
    BY PreparingLeaves
  <1>2. \A c \in Caller : c \in Process /\ Same(c)
    BY <1>1, Roles
  <1>3. Serving'
    BY <1>1, <1>2 DEF Serving, ProvFits, OnTarget, Holds, Same
  <1>4. \A e \in Entry : (Owed(e) <=> Owed(e)') /\ (Started(e) <=> Started(e)')
    BY <1>1 DEF Owed, Retired, Started
  <1>5. \A e \in Entry : Owed(e)' /\ ent'[e].life \in {"marked", "cancelled"} =>
          \E q \in Process : at'[q] = e /\ pc'[q] \in Retiring
    BY <1>1, <1>4 DEF Wakers, Same, Retiring
  <1>6. \A q \in Process :
          /\ pc'[q] = "awaitDone" => Started(at[q])'
          /\ pc'[q] = "await" => Owed(at[q])'
    BY <1>1 DEF Wakers, Same, Owed, Started, Retired
  <1>7. \A q \in Admin :
          /\ pc'[q] = "pendingSweep" => \A e \in call'[q].todo : Owed(e)'
          /\ pc'[q] = "joinClose" => closing' # "no"
    BY <1>1, Roles DEF Wakers, Same, Owed, Started, Retired
  <1>8. closing' = "begun" => \E q \in Admin : Closing(q)'
    BY <1>1, Roles DEF Wakers, Same, Closing
  <1>9. Wakers'
    BY <1>5, <1>6, <1>7, <1>8 DEF Wakers
  <1>10. UNCHANGED PP!poolVars
    BY <1>1, <1>2 DEF PP!poolVars, Pool, Wants, Given, Stage, Provision, Free, Retired, Closed,
          Started, Same
  <1> QED
    BY <1>3, <1>9, <1>10

\* Under the facade each step is one of the pool or a stutter, and the invariants that
\* show it are kept.
LEMMA FacadeStep ==
  ASSUME FileInv, Serving, Wakers, [MNext]_allVars
  PROVE  Serving' /\ Wakers' /\ [PP!PoolNext]_(PP!poolVars)
  <1>1. IInv /\ Promises /\ Loads
    BY DEF FileInv, Manager, Promises
  <1>2. CASE [Next]_vars
    BY <1>1, <1>2, ServingStep, WakersStep, PoolStep
  <1> QED
    BY <1>2, ManagerSteps, PreparingKeeps

\* Who asks for a lock asks in the place for it, and leaves the place with the lock.
LEMMA AskersStep ==
  ASSUME FileInv, AskersInv, [MNext]_allVars
  PROVE  AskersInv'
  <1>1. TypeOK /\ lock \in [Locker -> L!LockRecord] /\ stage \in [Maintainer -> Stages]
    BY DEF FileInv, Manager, IInv, LockTypes
  <1>2. ASSUME NEW c \in Caller, Asking(c)' PROVE pc'[c] = "guard"
    <2>1. /\ c \in Process /\ c \in Locker /\ c \notin Admin /\ c \notin Maintainer /\ c \notin Prober
          /\ Asking(c) => pc[c] = "guard"
      BY Roles DEF AskersInv
    <2>2. CASE GuardAsks(c)
      BY <1>1, <2>1, <2>2 DEF GuardAsks, vars
    <2>3. ~GuardReturns(c) /\ ~GetReleases(c)
      BY <1>1, <1>2, <2>1 DEF GuardReturns, GetReleases, L!Acquire, L!Release, L!NoLock, Asking, L!LockRecord
    <2>4. CASE ~GuardAsks(c)
      <3>1. lock'[c] = lock[c] /\ pc[c] = "guard"
        BY <1>2, <2>1, <2>3, <2>4, LockOf DEF Asking
      <3>2. CASE GetSteps(c) \/ ContextDone(c)
        BY <2>3, <2>4, <3>1, <3>2 DEF GetSteps, ContextDone, GetClosed, GetJoin, GetCreate, CanEnter,
              CheckEntry, StartOrJoin, AwaitDone, Leave, ReadResult, Retirement, Retire, Cancel,
              Dispatch, Await
      <3> QED
        BY <3>1, <3>2, LookupApart DEF Same
    <2> QED
      BY <2>2, <2>4
  <1>3. ASSUME NEW p \in Maintainer, stage'[p] \in {"resolve", "queue", "returned"}
        PROVE  lock'[p] = L!NoLock
    <2>1. p \in Locker /\ p \notin Caller /\ p \notin Prober
      BY Roles
    <2>2. CASE Queue(p)
      BY <1>1, <1>3, <2>2 DEF Queue
    <2>3. CASE AcquireWrite(p)
      BY <1>1, <1>3, <2>3 DEF AcquireWrite
    <2>4. CASE MaintenanceReturns(p)
      BY <1>1, <2>1, <2>4 DEF MaintenanceReturns, L!Release
    <2>5. CASE ~Queue(p) /\ ~AcquireWrite(p) /\ ~MaintenanceReturns(p)
      <3>1. lock'[p] = lock[p]
        BY <2>1, <2>5, LockOf
      <3>2. stage[p] \in {"resolve", "queue", "returned"}
        BY <1>1, <1>3, <2>5, MaintainerApart DEF WithMaintenance, Resolve, RetireFile, RetiredBefore,
              FnReturns, RetiredAgain, maintVars
      <3> QED
        BY <3>1, <3>2 DEF AskersInv
    <2> QED
      BY <2>2, <2>3, <2>4, <2>5
  <1>4. ASSUME NEW p \in Admin \ Maintainer PROVE lock'[p] = L!NoLock
    BY <1>4, LockOf, Roles DEF AskersInv
  <1>5. ASSUME NEW p \in Maintainer PROVE pc'[p] # "joinClose"
    <2>1. /\ TypeOK /\ p \in Process /\ pc[p] # "joinClose" /\ call[p].kind = "where"
          /\ ControlOK(p) /\ p \notin Caller
      BY <1>1, Roles DEF AskersInv, FileInv, Manager, IInv, ControlInv, MaintainerOK
    <2>2. CASE Retirement(p)
      BY <2>1, <2>2 DEF TypeOK, Retirement, Retire, AfterRetire, Cancel, Dispatch, Await, ControlOK
    <2>3. CASE Administer(p)
      BY <2>1, <2>3 DEF TypeOK, Administer, UpdateProfile, Invalidate, InvalidateAndWait,
            InvalidateAndWaitWhere, Close, JoinClose, SweepEntry, SweepPending, AwaitPending, Drain,
            FinishManagerClose
    <2>4. CASE Resolve(p) \/ FnReturns(p)
      BY <2>1, <2>4, PreparingLeaves
    <2>5. CASE vars' = vars
      BY <2>1, <2>5 DEF vars
    <2> QED
      BY <2>1, <2>2, <2>3, <2>4, <2>5, MaintainerApart, Underneath DEF Same
  <1> QED
    BY <1>2, <1>3, <1>4, <1>5 DEF AskersInv

\* A holder goes on.
LEMMA HoldersAtWork ==
  ASSUME FacadeInv
  PROVE  HoldersGoOn
  <1>1. /\ TypeOK /\ Wakers /\ AskersInv /\ FileInv
        /\ \A p \in Process : pc[p] \in Working => at[p] \in Entry
        /\ \A p \in Process : call[p].todo \subseteq Entry
    BY CallType DEF FacadeInv, FileInv, Manager, IInv, ControlInv, ControlOK
  <1>2. ASSUME NEW q \in Process, pc[q] \in Retiring PROVE ~Asking(q)
    <2>1. CASE q \in Caller
      BY <1>1, <1>2, <2>1 DEF AskersInv, Retiring
    <2>2. CASE q \in Maintainer
      <3>1. stage[q] \in Stages
        BY <2>2 DEF FacadeInv, FileInv, LockTypes
      <3>2. MaintainerOK(q)
        BY <1>1, <2>2 DEF FileInv
      <3>3. stage[q] \in {"before", "again"} /\ lock[q] = WriteLock(call[q].file, TRUE)
        BY <1>2, <3>1, <3>2 DEF MaintainerOK, Stages, Retiring
      <3> QED
        BY <3>3 DEF WriteLock, Asking
    <2>3. CASE q \in Admin \ Maintainer
      BY <1>1, <2>3 DEF AskersInv, Asking, L!NoLock
    <2> QED
      BY <2>1, <2>2, <2>3 DEF Process
  <1>3. \A e \in Entry : Owed(e) => Unhindered(e)
    BY <1>1, <1>2 DEF Wakers, Unhindered
  <1>4. ASSUME NEW c \in Caller, lock[c].held PROVE pc[c] \notin {"awaitConfig", "guard"}
    <2>1. LookupOK(c)
      BY <1>1 DEF FileInv
    <2>2. pc[c] = "awaitConfig" => ~lock[c].held
      BY <2>1 DEF LookupOK, Retrying, L!NoLock
    <2>3. pc[c] = "guard" => ~lock[c].held
      BY <2>1 DEF LookupOK, ReadLock, L!NoLock
    <2> QED
      BY <1>4, <2>2, <2>3
  <1>5. ASSUME NEW x \in Process, lock[x].held
        PROVE  /\ pc[x] = "awaitDone" => Started(at[x])
               /\ pc[x] = "await" => Unhindered(at[x])
    <2>1. (pc[x] = "awaitDone" => Started(at[x])) /\ (pc[x] = "await" => Owed(at[x]) /\ at[x] \in Entry)
      BY <1>1 DEF Wakers, Working
    <2> QED
      BY <1>3, <2>1
  <1>6. ASSUME NEW p \in Maintainer
        PROVE  /\ pc[p] = "pendingSweep" => \A e \in call[p].todo : Unhindered(e)
               /\ pc[p] # "joinClose"
    BY <1>1, <1>3, Roles DEF Wakers, AskersInv
  <1> QED
    BY <1>4, <1>5, <1>6, Roles DEF HoldersGoOn

\* The invariant of the facade holds in every behaviour.
THEOREM FacadeInvariance == MSpec => []FacadeInv
  <1>1. MInit => FacadeInv
    <2> SUFFICES ASSUME MInit PROVE FacadeInv
      OBVIOUS
    <2>1. Init /\ FileInv
      BY InitFileInv DEF MInit
    <2>2. Serving /\ Wakers
      BY <2>1, InitServing, InitWakers
    <2>3. AskersInv
      BY <2>1, Roles DEF MInit, Init, L!LockInit, AskersInv, Asking, L!NoLock
    <2> QED
      BY <2>1, <2>2, <2>3 DEF FacadeInv
  <1>2. FacadeInv /\ FileInv' /\ [MNext]_allVars => FacadeInv'
    <2> SUFFICES ASSUME FacadeInv, FileInv', [MNext]_allVars PROVE FacadeInv'
      OBVIOUS
    <2>1. AskersInv'
      BY AskersStep DEF FacadeInv
    <2>2. Serving' /\ Wakers'
      BY FacadeStep DEF FacadeInv
    <2> QED
      BY <2>1, <2>2 DEF FacadeInv
  <1> QED
    BY <1>1, <1>2, FileInvariance, PTL DEF MSpec

\* Lookups under the read sides and maintenance under the write sides leave the manager
\* what it is for those who use its providers: a pool with one current generation per
\* connection (DB.get and DB.WithMaintenance on Manager).
THEOREM FacadeIsAPool == MSpec => ImplementsPool
  <1>1. MInit => PP!PoolInit
    BY InitPool DEF MInit
  <1>2. FacadeInv /\ [MNext]_allVars => [PP!PoolNext]_(PP!poolVars)
    BY FacadeStep DEF FacadeInv
  <1> QED
    BY <1>1, <1>2, FacadeInvariance, PTL DEF MSpec, ImplementsPool, PP!PoolSpec

\* With the file locks around it, too, nobody waits in the manager in vain; and whoever has
\* a file's lock waits, if at all, for what no wait for a file's lock holds up. So the order
\* of the two, file first, is kept by all (WithMaintenance, get, and the closes they await).
THEOREM LockOrderIsKept == MSpec => [](WorkAndWaitersMeet /\ HoldersGoOn)
  <1>1. FacadeInv => WorkAndWaitersMeet /\ HoldersGoOn
    BY HoldersAtWork, WakersSuffice DEF FacadeInv, FileInv, Manager
  <1> QED
    BY <1>1, FacadeInvariance, PTL

-----------------------------------------------------------------------------
(* The two halves.                                                          *)

\* Each half takes its own steps, and the other half stands still.
LEMMA HalvesRun == LocksInit /\ [][LocksNext]_locksVars => MSpec /\ LockSpec
<1>1. LocksInit => MInit /\ LockInit
  BY DEF LocksInit
<1>2. [LocksNext]_locksVars => [MNext]_allVars /\ [LockNext]_lockVars
  BY DEF LocksNext, OfFiles, OfMutexes, locksVars
<1>3. QED
  BY <1>1, <1>2, PTL DEF MSpec, LockSpec

\* Both halves keep their word side by side: the table is pruned, what it implements is a
\* keyed lock, and with such a lock around the manager no managed provider is open on a
\* file while a file operation runs on it, the manager is a pool to its callers, and the
\* order of the locks is kept.
THEOREM LocksKeepTheirWord ==
    FairLocksSpec =>
        /\ ImplementsKeyedLock /\ []PrunesUnused
        /\ []NoManagedProviderDuringFn /\ ImplementsPool /\ []HoldersGoOn
  BY HalvesRun, Refinement, Pruning, FileIsTheMaintainers, FacadeIsAPool, LockOrderIsKept, PTL
     DEF FairLocksSpec
=============================================================================
