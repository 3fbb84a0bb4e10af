------------------------------ MODULE KeyedLock ------------------------------
(***************************************************************************)
(* What DB.acquireMaintenanceLock promises its callers                     *)
(* (internal/database/database.go): for each key, a lock that any number   *)
(* of readers or one writer hold, and that everybody who asks for it gets. *)
(***************************************************************************)
EXTENDS Absent

CONSTANTS Proc, Key

VARIABLE lock   \* lock[p]: the key p asked for, for which side, and whether p has it

Mode == {"read", "write"}

LockRecord == [key: Key \cup {None}, mode: Mode, held: BOOLEAN]
NoLock == [key |-> None, mode |-> "read", held |-> FALSE]

Holds(p, k) == lock[p].held /\ lock[p].key = k
Conflict(p, q) == p # q /\ "write" \in {lock[p].mode, lock[q].mode}

LockInit == lock = [p \in Proc |-> NoLock]

\* Ask for side mode of the lock of k.
Request(p, k, mode) ==
    /\ lock[p] = NoLock
    /\ lock' = [lock EXCEPT ![p] = [key |-> k, mode |-> mode, held |-> FALSE]]

\* Get it: nobody holds a side that excludes this one.
Acquire(p) ==
    /\ lock[p].key # None /\ ~lock[p].held
    /\ \A q \in Proc : Holds(q, lock[p].key) => ~Conflict(p, q)
    /\ lock' = [lock EXCEPT ![p].held = TRUE]

Release(p) ==
    /\ lock[p].held
    /\ lock' = [lock EXCEPT ![p] = NoLock]

LockNext ==
    \E p \in Proc :
        \/ \E k \in Key, mode \in Mode : Request(p, k, mode)
        \/ Acquire(p)
        \/ Release(p)

LockSpec == LockInit /\ [][LockNext]_lock

\* Two holders of one key are both readers.
Exclusion == \A p, q \in Proc : lock[p].held /\ Holds(q, lock[p].key) => ~Conflict(p, q)

=============================================================================
