--------------------------- MODULE McpProfileProofs ---------------------------
(***************************************************************************)
(* Theorems about the two sides of an MCP profile.                         *)
(*                                                                         *)
(* McpAdapters, for any calls, updates, credentials and CloseAlls: no      *)
(* adapter is left open on an entry that nobody will close, and no entry   *)
(* ever has two open adapters.  The invariant says who answers for what.   *)
(* createMu of an entry is held exactly by the call that connects for it,  *)
(* and meanwhile nobody else's adapter is open there (Creating).  An open  *)
(* adapter is its creator's until it is stored, then the entry's, then the *)
(* administrator's that closed the entry (Owned).  An entry in use is      *)
(* mapped, or closed, or on its way to be closed (Entries), so that an     *)
(* adapter stored in it is found.  From it follows also that the slots of  *)
(* a profile are counted right and that createMu makes no circle.          *)
(*                                                                         *)
(* McpAccounts, for any revokers, switches and references: a principal     *)
(* that exists in the database is always recorded by a row from which      *)
(* revoke drops it, a prepared row has no principal, and principals change *)
(* only while no call can be served with them, through failures and        *)
(* restarts at any step.  Two hypotheses, OneSetup: the clean-up does not  *)
(* take a failed probe for the principal's absence (with the probe, a run  *)
(* finds PreparedIsUnused violated), and one set-up flow runs at a time    *)
(* (the interface disables its button; with two, one can clear the row of  *)
(* the other).  The invariant says what each operation knows at each of    *)
(* its steps of the row, the credential and the principals.  It rests on   *)
(* the claim: an operation that holds it is the only one that changes      *)
(* principals, and a set-up flow before its claim knows there are none.    *)
(***************************************************************************)
EXTENDS McpProfile, FiniteSetTheorems, TLAPS

-----------------------------------------------------------------------------
(* Adapters.                                                                *)

\* The part of the types that the ownership needs.
AdapterTypes ==
    /\ mapped \in Entry \cup {None}
    /\ inflight \in [Entry -> Int]
    /\ creating \in [Entry -> Caller \cup {None}]
    /\ adapter \in [Entry -> Caller \cup {None}]
    /\ closed \subseteq Entry /\ open \subseteq Caller
    /\ pc \in [AdapterProcess -> AdapterPCs]
    /\ at \in [AdapterProcess -> Entry \cup {None}]
    /\ held \in [AdapterProcess -> Caller \cup {None}]

CallPCs  == {"idle", "credential", "join", "create", "connect", "store", "discard",
             "serve", "leave", "done"}
AdminPCs == {"idle", "drop", "close", "closeAdapter", "done"}

\* A call has joined an entry, or has none; a closing administrator has one.
Places ==
    /\ \A c \in Caller : pc[c] \in CallPCs
    /\ \A c \in Caller : pc[c] \in {"idle", "credential", "join"} => at[c] = None
    /\ \A c \in Caller : pc[c] \in CallPCs \ {"idle", "credential", "join", "done"} => at[c] # None
    /\ \A a \in Admin : pc[a] \in AdminPCs
    /\ \A a \in Admin : pc[a] = "closeAdapter" => at[a] \in closed

\* The entries calls have joined: every one in use, and no more than there are calls.
Joined == {e \in Entry : \E c \in Caller : at[c] = e}

Entries ==
    /\ mapped # None => mapped \in Joined \ closed
    /\ closed \subseteq Joined
    /\ \A a \in Admin : at[a] # None => at[a] \in Joined /\ at[a] # mapped
    /\ \A e \in Joined : \/ e \in closed \/ e = mapped
                         \/ \E a \in Admin : pc[a] = "close" /\ at[a] = e
    /\ \A e \in Entry \ Joined : inflight[e] = 0

\* createMu.
Creating ==
    /\ \A c \in Caller : pc[c] \in {"connect", "store", "discard"} => creating[at[c]] = c
    /\ \A e \in Entry : creating[e] # None =>
          /\ pc[creating[e]] \in {"connect", "store", "discard"} /\ at[creating[e]] = e
          /\ adapter[e] = None
          /\ \A c \in open : at[c] = e => c = creating[e]

Owned ==
    /\ \A c \in open : \/ pc[c] \in {"store", "discard"}
                       \/ at[c] # None /\ adapter[at[c]] = c
                       \/ \E a \in Admin : pc[a] = "closeAdapter" /\ held[a] = c
    /\ \A c \in open : at[c] # None
    /\ \A e \in Entry : adapter[e] # None => at[adapter[e]] = e /\ e \notin closed
    /\ \A a \in Admin : pc[a] = "closeAdapter" /\ held[a] # None => at[held[a]] = at[a]
    /\ OneAdapterPerEntry

AdapterInv == AdapterTypes /\ Places /\ Entries /\ Creating /\ Owned

USE AdapterAssumption DEF AdapterProcess, Admin

-----------------------------------------------------------------------------
(* The entry a call joins.                                                  *)

\* There are entries enough for every call: one that has not joined finds an unused one.
LEMMA EntriesSuffice ==
    ASSUME AdapterTypes, Places, Entries, NEW c \in Caller, at[c] = None
    PROVE  \E e \in Entry : e \notin Joined
<1> DEFINE J == {d \in Caller : at[d] # None}
           f == [d \in J |-> at[d]]
<1>1. IsFiniteSet(Caller) /\ IsFiniteSet(Caller \ {c}) /\ IsFiniteSet(J)
  BY FS_Subset
<1>2. Cardinality(Caller \ {c}) = Cardinality(Caller) - 1
  BY <1>1, FS_RemoveElement
<1>3. Cardinality(J) <= Cardinality(Caller \ {c})
  BY <1>1, FS_Subset
<1>4. f \in Surjection(J, Joined)
  BY DEF AdapterTypes, Joined, Surjection
<1>5. IsFiniteSet(Joined) /\ Cardinality(Joined) <= Cardinality(J)
  BY <1>1, <1>4, FS_Surjection
<1>6. /\ Cardinality(Caller) \in Nat /\ Cardinality(J) \in Nat
      /\ Cardinality(Joined) \in Nat /\ Cardinality(Caller \ {c}) \in Nat
  BY <1>1, <1>5, FS_CardinalityType
<1>7. IsFiniteSet(Entry) /\ Cardinality(Entry) \in Nat
  BY FS_Subset, FS_CardinalityType
<1>8. Joined # Entry
  BY <1>2, <1>3, <1>5, <1>6, <1>7
<1>9. QED
  BY <1>8 DEF Joined

\* entryFor gives the mapped entry, or one that nobody has referred to.
LEMMA EntryForOK ==
    ASSUME AdapterTypes, Places, Entries, NEW c \in Caller, at[c] = None
    PROVE  /\ EntryFor \in Entry \ closed
           /\ mapped # None => EntryFor = mapped
           /\ mapped = None => /\ EntryFor \notin Joined /\ inflight[EntryFor] = 0
                               /\ \A p \in AdapterProcess : at[p] # EntryFor
<1>1. CASE mapped # None
  BY <1>1 DEF EntryFor, Entries, AdapterTypes
<1>2. CASE mapped = None
  <2>1. PICK e \in Entry : e \notin Joined
    BY EntriesSuffice
  <2>2. ~Used(e)
    BY <1>2, <2>1 DEF Used, Entries, Joined, AdapterTypes
  <2>3. EntryFor \in Entry /\ ~Used(EntryFor)
    BY <1>2, <2>2 DEF EntryFor
  <2>4. QED
    BY <1>2, <2>3 DEF Used, Entries, Joined, AdapterTypes
<1>3. QED
  BY <1>1, <1>2

-----------------------------------------------------------------------------
(* What each step keeps.                                                    *)

\* The invariant holds of the empty manager.
LEMMA InitAdapters == AdapterInit => AdapterInv
<1> SUFFICES ASSUME AdapterInit PROVE AdapterInv
  OBVIOUS
<1>1. AdapterTypes /\ Places
  BY DEF AdapterInit, AdapterTypes, Places, CallPCs, AdminPCs, AdapterPCs
<1>2. Entries /\ Creating /\ Owned
  BY DEF AdapterInit, Entries, Joined, Creating, Owned, OneAdapterPerEntry
<1>3. QED
  BY <1>1, <1>2 DEF AdapterInv

\* WithConnection up to its adapter: one call at a time connects for an entry.
LEMMA CallOK ==
    ASSUME AdapterInv, NEW c \in Caller, Call(c) \/ Connect(c)
    PROVE  AdapterInv'
<1> USE DEF AdapterInv, entryVars, Goto, AdapterPCs, CallPCs, AdminPCs
<1>1. CASE ReadProfile(c)
  <2>1. AdapterTypes'
    BY <1>1 DEF ReadProfile, AdapterTypes, Places
  <2>2. Places'
    BY <1>1, <2>1 DEF ReadProfile, AdapterTypes, Places, Creating
  <2>3. Entries'
    BY <1>1, <2>1 DEF ReadProfile, AdapterTypes, Places, Entries, Joined
  <2>4. Creating'
    BY <1>1, <2>1 DEF ReadProfile, AdapterTypes, Places, Creating, Owned
  <2>5. Owned'
    BY <1>1, <2>1 DEF ReadProfile, AdapterTypes, Places, Entries, Joined, Creating, Owned,
       OneAdapterPerEntry
  <2>6. QED
    BY <2>1, <2>2, <2>3, <2>4, <2>5 DEF AdapterInv
<1>2. CASE ReadCredential(c)
  <2>1. AdapterTypes'
    BY <1>2 DEF ReadCredential, AdapterTypes, Places
  <2>2. Places'
    BY <1>2, <2>1 DEF ReadCredential, AdapterTypes, Places, Creating
  <2>3. Entries'
    BY <1>2, <2>1 DEF ReadCredential, AdapterTypes, Places, Entries, Joined
  <2>4. Creating'
    BY <1>2, <2>1 DEF ReadCredential, AdapterTypes, Places, Creating, Owned
  <2>5. Owned'
    BY <1>2, <2>1 DEF ReadCredential, AdapterTypes, Places, Entries, Joined, Creating, Owned,
       OneAdapterPerEntry
  <2>6. QED
    BY <2>1, <2>2, <2>3, <2>4, <2>5 DEF AdapterInv
<1>3. CASE Join(c)
  <2>1. AdapterTypes'
    BY <1>3, EntryForOK DEF Join, AdapterTypes, Places
  <2>2. Places'
    BY <1>3, <2>1, EntryForOK DEF Join, AdapterTypes, Places, Creating
  <2>3. Entries'
    BY <1>3, <2>1, EntryForOK DEF Join, AdapterTypes, Places, Entries, Joined
  <2>4. Creating'
    BY <1>3, <2>1, EntryForOK DEF Join, AdapterTypes, Places, Creating, Owned
  <2>5. Owned'
    BY <1>3, <2>1, EntryForOK DEF Join, AdapterTypes, Places, Entries, Joined, Creating, Owned,
       OneAdapterPerEntry
  <2>6. QED
    BY <2>1, <2>2, <2>3, <2>4, <2>5 DEF AdapterInv
<1>4. CASE Enter(c)
  <2>1. AdapterTypes'
    BY <1>4 DEF Enter, AdapterTypes, Places
  <2>2. Places'
    BY <1>4, <2>1 DEF Enter, AdapterTypes, Places, Creating
  <2>3. Entries'
    BY <1>4, <2>1 DEF Enter, AdapterTypes, Places, Entries, Joined
  <2>4. Creating'
    BY <1>4, <2>1 DEF Enter, AdapterTypes, Places, Creating, Owned
  <2>5. Owned'
    BY <1>4, <2>1 DEF Enter, AdapterTypes, Places, Entries, Joined, Creating, Owned,
       OneAdapterPerEntry
  <2>6. QED
    BY <2>1, <2>2, <2>3, <2>4, <2>5 DEF AdapterInv
<1>5. CASE Connect(c)
  <2>1. AdapterTypes'
    BY <1>5 DEF Connect, AdapterTypes, Places
  <2>2. Places'
    BY <1>5, <2>1 DEF Connect, AdapterTypes, Places, Creating
  <2>3. Entries'
    BY <1>5, <2>1 DEF Connect, AdapterTypes, Places, Entries, Joined
  <2>4. Creating'
    BY <1>5, <2>1 DEF Connect, AdapterTypes, Places, Creating, Owned
  <2>5. Owned'
    BY <1>5, <2>1 DEF Connect, AdapterTypes, Places, Entries, Joined, Creating, Owned,
       OneAdapterPerEntry
  <2>6. QED
    BY <2>1, <2>2, <2>3, <2>4, <2>5 DEF AdapterInv
<1>6. CASE Store(c)
  <2>1. AdapterTypes'
    BY <1>6 DEF Store, AdapterTypes, Places
  <2>2. Places'
    BY <1>6, <2>1 DEF Store, AdapterTypes, Places, Creating
  <2>3. Entries'
    BY <1>6, <2>1 DEF Store, AdapterTypes, Places, Entries, Joined
  <2>4. Creating'
    BY <1>6, <2>1 DEF Store, AdapterTypes, Places, Creating, Owned
  <2>5. Owned'
    BY <1>6, <2>1 DEF Store, AdapterTypes, Places, Entries, Joined, Creating, Owned,
       OneAdapterPerEntry
  <2>6. QED
    BY <2>1, <2>2, <2>3, <2>4, <2>5 DEF AdapterInv
<1>7. CASE Discard(c)
  <2>1. AdapterTypes'
    BY <1>7 DEF Discard, AdapterTypes, Places
  <2>2. Places'
    BY <1>7, <2>1 DEF Discard, AdapterTypes, Places, Creating
  <2>3. Entries'
    BY <1>7, <2>1 DEF Discard, AdapterTypes, Places, Entries, Joined
  <2>4. Creating'
    BY <1>7, <2>1 DEF Discard, AdapterTypes, Places, Creating, Owned
  <2>5. Owned'
    BY <1>7, <2>1 DEF Discard, AdapterTypes, Places, Entries, Joined, Creating, Owned,
       OneAdapterPerEntry
  <2>6. QED
    BY <2>1, <2>2, <2>3, <2>4, <2>5 DEF AdapterInv
<1>8. CASE Serve(c)
  <2>1. AdapterTypes'
    BY <1>8 DEF Serve, AdapterTypes, Places
  <2>2. Places'
    BY <1>8, <2>1 DEF Serve, AdapterTypes, Places, Creating
  <2>3. Entries'
    BY <1>8, <2>1 DEF Serve, AdapterTypes, Places, Entries, Joined
  <2>4. Creating'
    BY <1>8, <2>1 DEF Serve, AdapterTypes, Places, Creating, Owned
  <2>5. Owned'
    BY <1>8, <2>1 DEF Serve, AdapterTypes, Places, Entries, Joined, Creating, Owned,
       OneAdapterPerEntry
  <2>6. QED
    BY <2>1, <2>2, <2>3, <2>4, <2>5 DEF AdapterInv
<1>9. CASE Leave(c)
  <2>1. AdapterTypes'
    BY <1>9 DEF Leave, AdapterTypes, Places
  <2>2. Places'
    BY <1>9, <2>1 DEF Leave, AdapterTypes, Places, Creating
  <2>3. Entries'
    BY <1>9, <2>1 DEF Leave, AdapterTypes, Places, Entries, Joined
  <2>4. Creating'
    BY <1>9, <2>1 DEF Leave, AdapterTypes, Places, Creating, Owned
  <2>5. Owned'
    BY <1>9, <2>1 DEF Leave, AdapterTypes, Places, Entries, Joined, Creating, Owned,
       OneAdapterPerEntry
  <2>6. QED
    BY <2>1, <2>2, <2>3, <2>4, <2>5 DEF AdapterInv
<1>10. QED
  BY <1>1, <1>2, <1>3, <1>4, <1>5, <1>6, <1>7, <1>8, <1>9 DEF Call

\* The administrators, before they retire the entry.
LEMMA AdminOK ==
    ASSUME AdapterInv, NEW a \in Admin, UpdateProfile(a) \/ SetCredential(a) \/ CloseAll(a)
    PROVE  AdapterInv'
<1> USE DEF AdapterInv, entryVars, Goto, AdapterPCs, CallPCs, AdminPCs
<1>1. CASE UpdateProfile(a)
  <2>1. AdapterTypes'
    BY <1>1 DEF UpdateProfile, AdapterTypes, Places
  <2>2. Places'
    BY <1>1, <2>1 DEF UpdateProfile, AdapterTypes, Places, Creating
  <2>3. Entries'
    BY <1>1, <2>1 DEF UpdateProfile, AdapterTypes, Places, Entries, Joined
  <2>4. Creating'
    BY <1>1, <2>1 DEF UpdateProfile, AdapterTypes, Places, Creating, Owned
  <2>5. Owned'
    BY <1>1, <2>1 DEF UpdateProfile, AdapterTypes, Places, Entries, Joined, Creating, Owned,
       OneAdapterPerEntry
  <2>6. QED
    BY <2>1, <2>2, <2>3, <2>4, <2>5 DEF AdapterInv
<1>2. CASE SetCredential(a)
  <2>1. AdapterTypes'
    BY <1>2 DEF SetCredential, AdapterTypes, Places
  <2>2. Places'
    BY <1>2, <2>1 DEF SetCredential, AdapterTypes, Places, Creating
  <2>3. Entries'
    BY <1>2, <2>1 DEF SetCredential, AdapterTypes, Places, Entries, Joined
  <2>4. Creating'
    BY <1>2, <2>1 DEF SetCredential, AdapterTypes, Places, Creating, Owned
  <2>5. Owned'
    BY <1>2, <2>1 DEF SetCredential, AdapterTypes, Places, Entries, Joined, Creating, Owned,
       OneAdapterPerEntry
  <2>6. QED
    BY <2>1, <2>2, <2>3, <2>4, <2>5 DEF AdapterInv
<1>3. CASE CloseAll(a)
  <2>1. AdapterTypes'
    BY <1>3 DEF CloseAll, AdapterTypes, Places
  <2>2. Places'
    BY <1>3, <2>1 DEF CloseAll, AdapterTypes, Places, Creating
  <2>3. Entries'
    BY <1>3, <2>1 DEF CloseAll, AdapterTypes, Places, Entries, Joined
  <2>4. Creating'
    BY <1>3, <2>1 DEF CloseAll, AdapterTypes, Places, Creating, Owned
  <2>5. Owned'
    BY <1>3, <2>1 DEF CloseAll, AdapterTypes, Places, Entries, Joined, Creating, Owned,
       OneAdapterPerEntry
  <2>6. QED
    BY <2>1, <2>2, <2>3, <2>4, <2>5 DEF AdapterInv
<1>4. QED
  BY <1>1, <1>2, <1>3

\* Retiring it: the adapter goes from the entry to the administrator that closed it.
LEMMA RetireOK ==
    ASSUME AdapterInv, NEW a \in Admin, Retire(a)
    PROVE  AdapterInv'
<1> USE DEF AdapterInv, entryVars, Goto, AdapterPCs, CallPCs, AdminPCs
<1>1. CASE Drop(a)
  <2>1. AdapterTypes'
    BY <1>1 DEF Drop, AdapterTypes, Places
  <2>2. Places'
    BY <1>1, <2>1 DEF Drop, AdapterTypes, Places, Creating
  <2>3. Entries'
    BY <1>1, <2>1 DEF Drop, AdapterTypes, Places, Entries, Joined
  <2>4. Creating'
    BY <1>1, <2>1 DEF Drop, AdapterTypes, Places, Creating, Owned
  <2>5. Owned'
    BY <1>1, <2>1 DEF Drop, AdapterTypes, Places, Entries, Joined, Creating, Owned,
       OneAdapterPerEntry
  <2>6. QED
    BY <2>1, <2>2, <2>3, <2>4, <2>5 DEF AdapterInv
<1>2. CASE CloseEntry(a)
  <2>1. AdapterTypes'
    BY <1>2 DEF CloseEntry, Settle, AdapterTypes, Places
  <2>2. Places'
    BY <1>2, <2>1 DEF CloseEntry, Settle, AdapterTypes, Places, Creating
  <2>3. Entries'
    BY <1>2, <2>1 DEF CloseEntry, Settle, AdapterTypes, Places, Entries, Joined
  <2>4. Creating'
    BY <1>2, <2>1 DEF CloseEntry, Settle, AdapterTypes, Places, Creating, Owned
  <2>5. Owned'
    BY <1>2, <2>1 DEF CloseEntry, Settle, AdapterTypes, Places, Entries, Joined, Creating, Owned,
       OneAdapterPerEntry
  <2>6. QED
    BY <2>1, <2>2, <2>3, <2>4, <2>5 DEF AdapterInv
<1>3. CASE CloseAdapter(a)
  <2>1. AdapterTypes'
    BY <1>3 DEF CloseAdapter, Settle, AdapterTypes, Places
  <2>2. Places'
    BY <1>3, <2>1 DEF CloseAdapter, Settle, AdapterTypes, Places, Creating
  <2>3. Entries'
    BY <1>3, <2>1 DEF CloseAdapter, Settle, AdapterTypes, Places, Entries, Joined
  <2>4. Creating'
    BY <1>3, <2>1 DEF CloseAdapter, Settle, AdapterTypes, Places, Creating, Owned
  <2>5. Owned'
    BY <1>3, <2>1 DEF CloseAdapter, Settle, AdapterTypes, Places, Entries, Joined, Creating, Owned,
       OneAdapterPerEntry
  <2>6. QED
    BY <2>1, <2>2, <2>3, <2>4, <2>5 DEF AdapterInv
<1>4. QED
  BY <1>1, <1>2, <1>3 DEF Retire

\* Every step of the calls and of the administrators keeps it.
LEMMA AdapterStep ==
    ASSUME AdapterInv, [AdapterNext]_adapterVars
    PROVE  AdapterInv'
<1>1. CASE UNCHANGED adapterVars
  BY <1>1
  DEF adapterVars, entryVars, AdapterInv, AdapterTypes, Places, Entries, Joined, Creating, Owned,
      OneAdapterPerEntry
<1>2. CASE AdapterNext
  BY <1>1, <1>2, CallOK, AdminOK, RetireOK DEF AdapterNext, AllReturned
<1>3. QED
  BY <1>1, <1>2

-----------------------------------------------------------------------------
(* Accounts.                                                                *)

OneSetup == ~ProbesFirst /\ \A c, d \in Creator : c = d

Droppable == States \ {"prepared", "keychain_cleanup_pending"}
OrNone(S) == S \cup {None}

AccountTypes ==
    /\ account \in [ref : used, state : States, saved : BOOLEAN] \cup {NoAccount}
    /\ enabled \in BOOLEAN
    /\ memory \in OrNone(used)
    /\ busy \in OrNone(AccountProcess)
    /\ principals \subseteq used /\ used \subseteq Ref
    /\ flow \in [AccountProcess -> FlowPCs]
    /\ my \in [AccountProcess -> [ref : OrNone(used), credential : OrNone(used), state : States]]

\* Only the operation that holds the claim works, and it holds the claim.
Claimed == \A p \in AccountProcess : busy = p <=> flow[p] \in Working

\* Before its claim, and until it writes, a set-up flow knows that there is no principal,
\* that the row is its own or gone, and that the credential is its own or cleared.
BeforeWrite(c) ==
    /\ flow[c] = "create" => my[c].ref # None
    /\ flow[c] \in {"create", "save", "load", "unprepare", "set", "provision", "read",
                    "connect", "write"} => principals = {}
    /\ flow[c] \in {"save", "load", "unprepare", "set", "provision", "read"} =>
          account = NoAccount \/ account.ref = my[c].ref
    /\ flow[c] \in {"provision", "read"} => memory \in {None, my[c].ref}

\* From its first write on, the row is in the database's state or ahead of it.
Writing(c) ==
    /\ flow[c] \in {"connect", "write", "cleanup", "ready", "forget", "mark"} =>
          account # NoAccount
    /\ flow[c] \in {"connect", "write", "cleanup", "ready"} => account.ref = my[c].credential
    /\ flow[c] \in {"write", "cleanup", "ready"} => account.state = "provisioning"
    /\ flow[c] \in {"cleanup", "ready", "forget", "mark"} => principals \subseteq {account.ref}
    /\ flow[c] \in {"forget", "mark"} =>
          /\ my[c].state \in {"prepared", "recovery_required"}
          /\ my[c].state = "prepared" => principals = {}

\* A revoke knows the one principal that there may be, clears the credential before it
\* drops it, and has dropped it before it touches the row.
Revoking(p) ==
    /\ flow[p] \in {"disable", "clear", "drop"} =>
          /\ principals \subseteq {my[p].ref}
          /\ my[p].state \notin Droppable => principals = {}
    /\ flow[p] = "drop" => memory = None \/ principals = {}
    /\ flow[p] \in {"pending", "delete"} => principals = {}

AccountInv ==
    /\ AccountTypes /\ Claimed
    /\ \A c \in Creator : BeforeWrite(c) /\ Writing(c)
    /\ \A p \in Creator \cup Revoker : Revoking(p)
    /\ \A w \in Switch : flow[w] \in {"idle", "enable"}
    /\ \A r \in Revoker : flow[r] \in {"idle", "revoke", "revokeRead", "disable", "clear",
                                       "drop", "pending", "delete"}
    /\ PrincipalIsRecorded

-----------------------------------------------------------------------------
(* Every step keeps the invariant.  The types and the claim come first,     *)
(* then what each operation knows.                                          *)

\* The invariant holds before any set-up: no row and no principal.
LEMMA InitAccount == AccountInit => AccountInv
<1> SUFFICES ASSUME AccountInit PROVE AccountInv
  OBVIOUS
<1> USE AccountAssumption DEF AccountInit
<1>1. my \in [AccountProcess -> [ref : OrNone(used), credential : OrNone(used), state : States]]
  BY DEF OrNone, States
<1>2. AccountTypes
  BY <1>1 DEF AccountTypes, OrNone, FlowPCs
<1>3. Claimed
  BY DEF Claimed, Working
<1>4. QED
  BY <1>2, <1>3
  DEF AccountInv, BeforeWrite, Writing, Revoking, PrincipalIsRecorded, AccountProcess

\* PrepareMCPAccount: there is no principal before it and none after it.
LEMMA PrepareOK ==
    ASSUME OneSetup, AccountInv, NEW c \in Creator, Prepare(c)
    PROVE  AccountInv'
<1> USE AccountAssumption
    DEF OneSetup, AccountInv, AccountTypes, OrNone, FlowTo, Claim, SetState, TrySetState, persistent,
        AccountProcess
<1>1. CASE PrepareCheck(c)
  <2>1. AccountTypes' /\ Claimed'
    BY <1>1 DEF PrepareCheck, NoAccount, FlowPCs, States, Claimed, Working
  <2>2. QED
    BY <1>1, <2>1
    DEF PrepareCheck, Claimed, Working, BeforeWrite, Writing, Revoking, PrincipalIsRecorded,
        Droppable, States, NoAccount
<1>2. CASE PrepareCreate(c)
  <2>1. AccountTypes'
    <3>1. flow[c] = "create" /\ c \in AccountProcess
      BY <1>2 DEF PrepareCreate
    <3>2. my[c].ref \in used
      BY <3>1 DEF BeforeWrite
    <3>3. account' \in [ref : used, state : States, saved : BOOLEAN] \cup {NoAccount}
      <4>1. [ref |-> my[c].ref, state |-> "prepared", saved |-> FALSE]
               \in [ref : used, state : States, saved : BOOLEAN]
        BY <3>2 DEF States
      <4>2. \/ account' = [ref |-> my[c].ref, state |-> "prepared", saved |-> FALSE]
            \/ account' = account
        BY <1>2 DEF PrepareCreate
      <4>3. QED
        BY <4>1, <4>2
    <3>4. QED
      BY <1>2, <3>3 DEF PrepareCreate, FlowPCs
  <2>2. Claimed'
    BY <1>2 DEF PrepareCreate, Claimed, Working
  <2>3. QED
    BY <1>2, <2>1, <2>2
    DEF PrepareCreate, Claimed, Working, BeforeWrite, Writing, Revoking, PrincipalIsRecorded,
        Droppable, States, NoAccount
<1>3. CASE PrepareSave(c)
  <2>1. AccountTypes'
    <3>1. account' \in [ref : used, state : States, saved : BOOLEAN] \cup {NoAccount}
      BY <1>3 DEF PrepareSave
    <3>2. flow' \in [AccountProcess -> FlowPCs]
      BY <1>3 DEF PrepareSave, FlowPCs
    <3>3. QED
      BY <1>3, <3>1, <3>2 DEF PrepareSave
  <2>2. Claimed'
    BY <1>3 DEF PrepareSave, Claimed, Working
  <2>3. QED
    BY <1>3, <2>1, <2>2
    DEF PrepareSave, Claimed, Working, BeforeWrite, Writing, Revoking, PrincipalIsRecorded,
        Droppable, States, NoAccount
<1>4. CASE PrepareLoad(c)
  <2>1. AccountTypes' /\ Claimed'
    BY <1>4 DEF PrepareLoad, NoAccount, FlowPCs, States, Claimed, Working
  <2>2. QED
    BY <1>4, <2>1
    DEF PrepareLoad, Claimed, Working, BeforeWrite, Writing, Revoking, PrincipalIsRecorded,
        Droppable, States, NoAccount
<1>5. CASE PrepareFails(c)
  <2>1. AccountTypes' /\ Claimed'
    BY <1>5 DEF PrepareFails, NoAccount, FlowPCs, States, Claimed, Working
  <2>2. QED
    BY <1>5, <2>1
    DEF PrepareFails, Claimed, Working, BeforeWrite, Writing, Revoking, PrincipalIsRecorded,
        Droppable, States, NoAccount
<1>6. CASE PrepareSet(c)
  <2>1. AccountTypes' /\ Claimed'
    BY <1>6 DEF PrepareSet, NoAccount, FlowPCs, States, Claimed, Working
  <2>2. QED
    BY <1>6, <2>1
    DEF PrepareSet, Claimed, Working, BeforeWrite, Writing, Revoking, PrincipalIsRecorded,
        Droppable, States, NoAccount
<1>7. QED
  BY <1>1, <1>2, <1>3, <1>4, <1>5, <1>6 DEF Prepare

\* ProvisionMCPAccount: the row is marked before the first write, and marked back only
\* when nothing was written or the clean-up dropped it.
LEMMA ProvisionOK ==
    ASSUME OneSetup, AccountInv, NEW c \in Creator, Provision(c)
    PROVE  AccountInv'
<1> USE AccountAssumption
    DEF OneSetup, AccountInv, AccountTypes, OrNone, FlowTo, Claim, SetState, TrySetState, persistent,
        AccountProcess
<1>1. CASE ProvisionBegin(c)
  <2>1. AccountTypes' /\ Claimed'
    BY <1>1 DEF ProvisionBegin, NoAccount, FlowPCs, States, Claimed, Working
  <2>2. QED
    BY <1>1, <2>1
    DEF ProvisionBegin, Claimed, Working, BeforeWrite, Writing, Revoking, PrincipalIsRecorded,
        Droppable, States, NoAccount
<1>2. CASE ProvisionRead(c)
  <2>1. AccountTypes' /\ Claimed'
    BY <1>2 DEF ProvisionRead, NoAccount, FlowPCs, States, Claimed, Working
  <2>2. QED
    BY <1>2, <2>1
    DEF ProvisionRead, Claimed, Working, BeforeWrite, Writing, Revoking, PrincipalIsRecorded,
        Droppable, States, NoAccount
<1>3. CASE ProvisionConnect(c)
  <2>1. AccountTypes' /\ Claimed'
    BY <1>3 DEF ProvisionConnect, NoAccount, FlowPCs, States, Claimed, Working
  <2>2. QED
    BY <1>3, <2>1
    DEF ProvisionConnect, Claimed, Working, BeforeWrite, Writing, Revoking, PrincipalIsRecorded,
        Droppable, States, NoAccount
<1>4. CASE ProvisionWrite(c)
  <2>1. AccountTypes' /\ Claimed'
    BY <1>4 DEF ProvisionWrite, NoAccount, FlowPCs, States, Claimed, Working, Writing
  <2>2. QED
    BY <1>4, <2>1
    DEF ProvisionWrite, Claimed, Working, BeforeWrite, Writing, Revoking, PrincipalIsRecorded,
        Droppable, States, NoAccount
<1>5. CASE CleanUp(c)
  <2>1. AccountTypes' /\ Claimed'
    BY <1>5 DEF CleanUp, NoAccount, FlowPCs, States, Claimed, Working
  <2>2. QED
    BY <1>5, <2>1
    DEF CleanUp, Claimed, Working, BeforeWrite, Writing, Revoking, PrincipalIsRecorded,
        Droppable, States, NoAccount
<1>6. CASE ProvisionForget(c)
  <2>1. AccountTypes' /\ Claimed'
    BY <1>6 DEF ProvisionForget, NoAccount, FlowPCs, States, Claimed, Working
  <2>2. QED
    BY <1>6, <2>1
    DEF ProvisionForget, Claimed, Working, BeforeWrite, Writing, Revoking, PrincipalIsRecorded,
        Droppable, States, NoAccount
<1>7. CASE ProvisionFailed(c)
  <2>1. AccountTypes' /\ Claimed'
    BY <1>7 DEF ProvisionFailed, NoAccount, FlowPCs, States, Claimed, Working
  <2>2. QED
    BY <1>7, <2>1
    DEF ProvisionFailed, Claimed, Working, BeforeWrite, Writing, Revoking, PrincipalIsRecorded,
        Droppable, States, NoAccount
<1>8. CASE ProvisionReady(c)
  <2>1. AccountTypes' /\ Claimed'
    BY <1>8 DEF ProvisionReady, NoAccount, FlowPCs, States, Claimed, Working
  <2>2. QED
    BY <1>8, <2>1
    DEF ProvisionReady, Claimed, Working, BeforeWrite, Writing, Revoking, PrincipalIsRecorded,
        Droppable, States, NoAccount
<1>9. CASE DiscardAccount(c)
  <2>1. AccountTypes' /\ Claimed'
    BY <1>9 DEF DiscardAccount, NoAccount, FlowPCs, States, Claimed, Working
  <2>2. QED
    BY <1>9, <2>1
    DEF DiscardAccount, Claimed, Working, BeforeWrite, Writing, Revoking, PrincipalIsRecorded,
        Droppable, States, NoAccount
<1>10. QED
  BY <1>1, <1>2, <1>3, <1>4, <1>5, <1>6, <1>7, <1>8, <1>9 DEF Provision

\* RevokeMCPAccount: the row goes when the principal is known to be gone.
LEMMA RevokeOK ==
    ASSUME OneSetup, AccountInv, NEW c \in Creator \cup Revoker, Revoke(c)
    PROVE  AccountInv'
<1> USE AccountAssumption
    DEF OneSetup, AccountInv, AccountTypes, OrNone, FlowTo, Claim, SetState, TrySetState, persistent,
        AccountProcess
<1>1. CASE RevokeBegin(c)
  <2>1. AccountTypes' /\ Claimed'
    BY <1>1 DEF RevokeBegin, NoAccount, FlowPCs, States, Claimed, Working
  <2>2. QED
    BY <1>1, <2>1
    DEF RevokeBegin, Claimed, Working, BeforeWrite, Writing, Revoking, PrincipalIsRecorded,
        Droppable, States, NoAccount
<1>2. CASE RevokeRead(c)
  <2>1. AccountTypes' /\ Claimed'
    BY <1>2 DEF RevokeRead, NoAccount, FlowPCs, States, Claimed, Working
  <2>2. QED
    BY <1>2, <2>1
    DEF RevokeRead, Claimed, Working, BeforeWrite, Writing, Revoking, PrincipalIsRecorded,
        Droppable, States, NoAccount
<1>3. CASE RevokeDisable(c)
  <2>1. AccountTypes'
    BY <1>3 DEF RevokeDisable, NoAccount, FlowPCs, States
  <2>2. Claimed'
    BY <1>3 DEF RevokeDisable, Claimed, Working
  <2>3. QED
    BY <1>3, <2>1, <2>2
    DEF RevokeDisable, Claimed, Working, BeforeWrite, Writing, Revoking, PrincipalIsRecorded,
        Droppable, States, NoAccount
<1>4. CASE RevokeClear(c)
  <2>1. AccountTypes' /\ Claimed'
    BY <1>4 DEF RevokeClear, NoAccount, FlowPCs, States, Claimed, Working
  <2>2. QED
    BY <1>4, <2>1
    DEF RevokeClear, Claimed, Working, BeforeWrite, Writing, Revoking, PrincipalIsRecorded,
        Droppable, States, NoAccount
<1>5. CASE RevokeDrop(c)
  <2>1. AccountTypes' /\ Claimed'
    BY <1>5 DEF RevokeDrop, NoAccount, FlowPCs, States, Claimed, Working
  <2>2. QED
    BY <1>5, <2>1
    DEF RevokeDrop, Claimed, Working, BeforeWrite, Writing, Revoking, PrincipalIsRecorded,
        Droppable, States, NoAccount
<1>6. CASE RevokePending(c)
  <2>1. AccountTypes' /\ Claimed'
    BY <1>6 DEF RevokePending, NoAccount, FlowPCs, States, Claimed, Working
  <2>2. QED
    BY <1>6, <2>1
    DEF RevokePending, Claimed, Working, BeforeWrite, Writing, Revoking, PrincipalIsRecorded,
        Droppable, States, NoAccount
<1>7. CASE RevokeDelete(c)
  <2>1. AccountTypes' /\ Claimed'
    BY <1>7 DEF RevokeDelete, NoAccount, FlowPCs, States, Claimed, Working
  <2>2. QED
    BY <1>7, <2>1
    DEF RevokeDelete, Claimed, Working, BeforeWrite, Writing, Revoking, PrincipalIsRecorded,
        Droppable, States, NoAccount
<1>8. QED
  BY <1>1, <1>2, <1>3, <1>4, <1>5, <1>6, <1>7 DEF Revoke

\* SetConnectionMCPEnabled stores the switch and nothing else.
LEMMA SwitchOK ==
    ASSUME AccountInv, NEW w \in Switch, EnableCheck(w) \/ EnableStore(w) \/ Disable(w)
    PROVE  AccountInv'
<1> USE AccountAssumption
<1>1. /\ \/ flow' = flow
         \/ flow' = [flow EXCEPT ![w] = "idle"] \/ flow' = [flow EXCEPT ![w] = "enable"]
      /\ UNCHANGED <<account, principals, used, memory, busy, my>> /\ enabled' \in BOOLEAN
  BY DEF EnableCheck, EnableStore, Disable, FlowTo, persistent, AccountInv, AccountTypes
<1>2. AccountTypes' /\ Claimed'
  BY <1>1 DEF AccountInv, AccountTypes, Claimed, Working, AccountProcess, FlowPCs
<1>3. QED
  BY <1>1, <1>2
  DEF AccountInv, AccountTypes, BeforeWrite, Writing, Revoking, PrincipalIsRecorded, AccountProcess

\* A call of RevokeMCPAccount that has only begun.
LEMMA RevokeCallOK ==
    ASSUME AccountInv, NEW p \in Revoker, RevokeCall(p)
    PROVE  AccountInv'
<1> USE AccountAssumption DEF RevokeCall, FlowTo, persistent
<1>1. AccountTypes' /\ Claimed'
  BY DEF AccountInv, AccountTypes, Claimed, Working, AccountProcess, FlowPCs
<1>2. QED
  BY <1>1
  DEF AccountInv, AccountTypes, BeforeWrite, Writing, Revoking, PrincipalIsRecorded, AccountProcess

\* The application dies and starts again: no operation knows anything any more, and an
\* interrupted provision is left in a state from which revoke drops the principal.
LEMMA RestartOK ==
    ASSUME AccountInv, Restart
    PROVE  AccountInv'
<1> USE AccountAssumption DEF Restart, Recovered
<1>1. account' \in [ref : used, state : States, saved : BOOLEAN] \cup {NoAccount}
  <2>1. CASE account = NoAccount
    BY <2>1 DEF NoAccount
  <2>2. CASE account \in [ref : used, state : States, saved : BOOLEAN]
    BY <2>2 DEF States
  <2>3. QED
    BY <2>1, <2>2 DEF AccountInv, AccountTypes
<1>2. memory' \in OrNone(used)
  BY DEF AccountInv, AccountTypes, OrNone, NoAccount
<1>3. flow' \in [AccountProcess -> FlowPCs] /\ \A p \in AccountProcess : flow'[p] \notin Working
  BY DEF FlowPCs, Working
<1>4. AccountTypes' /\ Claimed'
  BY <1>1, <1>2, <1>3 DEF AccountInv, AccountTypes, OrNone, Claimed, AccountProcess
<1>5. PrincipalIsRecorded'
  BY DEF AccountInv, AccountTypes, PrincipalIsRecorded, NoAccount, States
<1>6. QED
  BY <1>4, <1>5 DEF AccountInv, BeforeWrite, Writing, Revoking, AccountProcess

\* Every step of the account operations, and a restart of the program, keeps it.
LEMMA AccountStep ==
    ASSUME OneSetup, AccountInv, [AccountNext]_accountVars
    PROVE  AccountInv'
<1>1. CASE UNCHANGED accountVars
  BY <1>1
  DEF accountVars, persistent, AccountInv, AccountTypes, Claimed, BeforeWrite, Writing, Revoking,
      PrincipalIsRecorded
<1>2. QED
  BY <1>1, PrepareOK, ProvisionOK, RevokeOK, RevokeCallOK, SwitchOK, RestartOK
  DEF AccountNext

-----------------------------------------------------------------------------
(* The theorems.                                                            *)

\* Each side of a profile runs as its own component, the other standing still.
LEMMA Sides == McpSpec => AdapterSpec /\ AccountSpec
<1>1. McpInit => AdapterInit /\ AccountInit
  BY DEF McpInit
<1>2. [McpNext]_<<side, adapterVars, accountVars>> => [AdapterNext]_adapterVars /\ [AccountNext]_accountVars
  BY DEF McpNext
<1>3. QED
  BY <1>1, <1>2, PTL DEF McpSpec, AdapterSpec, AccountSpec

\* Every adapter and every entry has the owner the invariant names, in every behaviour.
THEOREM AdapterInvariance == McpSpec => []AdapterInv
  BY Sides, InitAdapters, AdapterStep, PTL DEF AdapterSpec

\* No adapter is leaked and no entry has two, whatever retires the entry while calls join,
\* connect, store or discard (entry.connection, closeEntry).
THEOREM OwnedAlways == McpSpec => []AdaptersAreOwned
<1>1. ASSUME AdapterInv PROVE NoLeakedAdapter
  <2> SUFFICES ASSUME NEW c \in open,
                      pc[c] \notin {"store", "discard"},
                      ~\E a \in Admin : pc[a] = "closeAdapter" /\ held[a] = c
               PROVE  \/ mapped # None /\ adapter[mapped] = c
                      \/ \E a \in Admin : pc[a] = "close" /\ at[a] # None /\ adapter[at[a]] = c
    BY DEF NoLeakedAdapter
  <2>1. c \in Caller /\ at[c] \in Entry /\ at[c] \in Joined /\ adapter[at[c]] = c
    BY <1>1 DEF AdapterInv, AdapterTypes, Owned, Joined
  <2>2. at[c] \notin closed
    BY <1>1, <2>1 DEF AdapterInv, AdapterTypes, Owned
  <2>3. QED
    BY <1>1, <2>1, <2>2 DEF AdapterInv, AdapterTypes, Entries
<1>2. AdapterInv => AdaptersAreOwned
  BY <1>1 DEF AdapterInv, Owned, AdaptersAreOwned
<1>3. QED
  BY <1>2, AdapterInvariance, PTL

-----------------------------------------------------------------------------
(* The slots of a profile.                                                  *)

\* The calls that have a slot of the entry e, from its guard to the deferred decrement.
Calling == {"create", "connect", "store", "discard", "serve", "leave"}
Slots(e) == {c \in Caller : at[c] = e /\ pc[c] \in Calling}

SlotsInv == \A e \in Entry : inflight[e] = Cardinality(Slots(e)) /\ inflight[e] <= MaxCalls

\* No slot is lost or given twice, and whoever waits for createMu waits for a call that
\* connects, stores or discards, none of which waits for another call.
SlotsAreReturned ==
    /\ \A e \in Entry :
          /\ inflight[e] \in 0 .. MaxCalls
          /\ inflight[e] = Cardinality(Slots(e))
    /\ \A c \in Caller : pc[c] = "create" /\ creating[at[c]] # None =>
          /\ at[creating[at[c]]] = at[c]
          /\ pc[creating[at[c]]] \in {"connect", "store", "discard"}

\* There are finitely many calls.
LEMMA SlotsFinite == \A e : IsFiniteSet(Slots(e)) /\ Cardinality(Slots(e)) \in Nat
<1>1. IsFiniteSet(Caller)
  BY FS_Subset
<1>2. \A e : Slots(e) \subseteq Caller
  BY DEF Slots
<1>3. QED
  BY <1>1, <1>2, FS_Subset, FS_CardinalityType

\* Who has a slot and keeps it, or has none and takes none, leaves the count as it is.
LEMMA SlotsStay ==
    ASSUME SlotsInv, UNCHANGED inflight,
           \A c \in Caller : at'[c] = at[c] /\ (pc'[c] \in Calling <=> pc[c] \in Calling)
    PROVE  SlotsInv'
<1>1. \A e \in Entry : Slots(e)' = Slots(e)
  BY DEF Slots
<1>2. QED
  BY <1>1 DEF SlotsInv

\* What a call does with its slot.
LEMMA CallSlots ==
    ASSUME AdapterInv, SlotsInv, NEW c \in Caller, Call(c) \/ Connect(c)
    PROVE  SlotsInv'
<1>1. AdapterTypes /\ Places /\ Entries
  BY DEF AdapterInv
<1> USE DEF Goto, entryVars
<1>2. CASE ReadProfile(c)
  BY <1>1, <1>2, SlotsStay DEF ReadProfile, Calling, AdapterTypes
<1>3. CASE ReadCredential(c)
  BY <1>1, <1>3, SlotsStay DEF ReadCredential, Calling, AdapterTypes
<1>4. CASE Join(c)
  <2>1. at[c] = None /\ pc[c] = "join"
    BY <1>1, <1>4 DEF Join, Places
  <2>2. PICK e \in Entry : e = EntryFor
    BY <1>1, <2>1, EntryForOK
  <2>3. CASE inflight[e] >= MaxCalls
    BY <1>1, <1>4, <2>2, <2>1, <2>3, SlotsStay DEF Join, Calling, AdapterTypes
  <2>4. CASE ~(inflight[e] >= MaxCalls)
    <3>1. /\ inflight' = [inflight EXCEPT ![e] = @ + 1]
          /\ at' = [at EXCEPT ![c] = e] /\ pc' = [pc EXCEPT ![c] = "create"]
      BY <1>4, <2>2, <2>4 DEF Join
    <3>2. /\ c \notin Slots(e) /\ Slots(e)' = Slots(e) \cup {c}
          /\ \A f \in Entry : f # e => Slots(f)' = Slots(f)
      <4>1. /\ at'[c] = e /\ pc'[c] \in Calling /\ at[c] # e
            /\ \A f \in Entry : f # at[c]
        BY <1>1, <2>2, <2>1, <3>1 DEF Calling, AdapterTypes
      <4>2. \A d \in Caller : d # c => at'[d] = at[d] /\ pc'[d] = pc[d]
        BY <1>1, <3>1 DEF AdapterTypes
      <4>3. QED
        BY <4>1, <4>2 DEF Slots
    <3>3. \A f \in Entry : inflight[f] \in Int
      BY <1>1 DEF AdapterTypes
    <3>4. Cardinality(Slots(e)') = Cardinality(Slots(e)) + 1
      BY <3>2, SlotsFinite, FS_AddElement
    <3>5. inflight'[e] = inflight[e] + 1 /\ inflight'[e] <= MaxCalls
      BY <1>1, <2>2, <2>4, <3>1 DEF AdapterTypes
    <3>6. \A f \in Entry : f # e => inflight'[f] = inflight[f]
      BY <1>1, <3>1 DEF AdapterTypes
    <3>7. QED
      BY <2>2, <3>2, <3>3, <3>4, <3>5, <3>6 DEF SlotsInv
  <2>5. QED
    BY <2>3, <2>4
<1>5. CASE Enter(c)
  BY <1>1, <1>5, SlotsStay DEF Enter, Calling, AdapterTypes
<1>6. CASE Connect(c)
  BY <1>1, <1>6, SlotsStay DEF Connect, Calling, AdapterTypes
<1>7. CASE Store(c)
  BY <1>1, <1>7, SlotsStay DEF Store, Calling, AdapterTypes
<1>8. CASE Discard(c)
  BY <1>1, <1>8, SlotsStay DEF Discard, Calling, AdapterTypes
<1>9. CASE Serve(c)
  BY <1>1, <1>9, SlotsStay DEF Serve, Calling, AdapterTypes
<1>10. CASE Leave(c)
  <2>1. pc[c] = "leave" /\ at[c] \in Entry
    BY <1>1, <1>10 DEF Leave, Places, CallPCs, AdapterTypes
  <2>2. PICK e \in Entry : e = at[c]
    BY <2>1
  <2>3. /\ inflight' = [inflight EXCEPT ![e] = @ - 1]
        /\ at' = at /\ pc' = [pc EXCEPT ![c] = "done"]
    BY <1>10, <2>2 DEF Leave
  <2>4. /\ c \in Slots(e) /\ Slots(e)' = Slots(e) \ {c}
        /\ \A f \in Entry : f # e => Slots(f)' = Slots(f)
    <3>1. pc[c] \in Calling /\ pc'[c] \notin Calling
      BY <1>1, <2>1, <2>3 DEF Calling, AdapterTypes
    <3>2. \A d \in Caller : d # c => pc'[d] = pc[d]
      BY <1>1, <2>3 DEF AdapterTypes
    <3>3. QED
      BY <2>2, <2>3, <3>1, <3>2 DEF Slots
  <2>5. Cardinality(Slots(e)') = Cardinality(Slots(e)) - 1
    BY <2>4, SlotsFinite, FS_RemoveElement
  <2>6. inflight'[e] = inflight[e] - 1 /\ \A f \in Entry : f # e => inflight'[f] = inflight[f]
    BY <1>1, <2>2, <2>3 DEF AdapterTypes
  <2>7. \A f \in Entry : inflight[f] \in Int
    BY <1>1 DEF AdapterTypes
  <2>8. inflight'[e] = Cardinality(Slots(e)') /\ inflight'[e] <= MaxCalls
    BY <2>5, <2>6, <2>7 DEF SlotsInv
  <2>9. \A f \in Entry : f # e => inflight'[f] = Cardinality(Slots(f)') /\ inflight'[f] <= MaxCalls
    BY <2>4, <2>6 DEF SlotsInv
  <2>10. QED
    BY <2>8, <2>9 DEF SlotsInv
<1>11. QED
  BY <1>2, <1>3, <1>4, <1>5, <1>6, <1>7, <1>8, <1>9, <1>10 DEF Call

\* What any step does with the slots.
LEMMA SlotsStep == ASSUME AdapterInv, SlotsInv, [AdapterNext]_adapterVars PROVE SlotsInv'
<1>1. AdapterTypes /\ Places
  BY DEF AdapterInv
<1>2. CASE UNCHANGED adapterVars
  BY <1>2 DEF adapterVars, entryVars, SlotsInv, Slots
<1>3. ASSUME NEW a \in Admin, UpdateProfile(a) \/ SetCredential(a) \/ CloseAll(a) \/ Retire(a)
      PROVE  SlotsInv'
  <2>1. \E w : pc' = [pc EXCEPT ![a] = w]
    BY <1>3 DEF UpdateProfile, SetCredential, CloseAll, Retire, Drop, CloseEntry, CloseAdapter, Goto
  <2>2. UNCHANGED inflight
    BY <1>3 DEF UpdateProfile, SetCredential, CloseAll, Retire, Drop, CloseEntry, CloseAdapter, entryVars
  <2>3. at' = at \/ \E x : at' = [at EXCEPT ![a] = x]
    BY <1>3 DEF UpdateProfile, SetCredential, CloseAll, Retire, Drop, CloseEntry, CloseAdapter
  <2>4. \A c \in Caller : c # a
    OBVIOUS
  <2>5. \A c \in Caller : at'[c] = at[c] /\ pc'[c] = pc[c]
    BY <1>1, <2>1, <2>3, <2>4 DEF AdapterTypes
  <2>6. QED
    BY <2>2, <2>5, SlotsStay
<1>4. CASE AdapterNext
  BY <1>2, <1>3, <1>4, CallSlots DEF AdapterNext, AllReturned
<1>5. QED
  BY <1>2, <1>4

\* The limit of calls per profile counts what it says, and its slots come back; createMu is
\* never waited for in a circle.
THEOREM SlotsReturned == McpSpec => []SlotsAreReturned
<1>1. AdapterInit => SlotsInv
  <2> SUFFICES ASSUME AdapterInit PROVE SlotsInv
    OBVIOUS
  <2>1. \A e \in Entry : Slots(e) = {} /\ inflight[e] = 0
    BY DEF AdapterInit, Slots, Calling
  <2>2. QED
    BY <2>1, FS_EmptySet DEF SlotsInv
<1>2. AdapterInv /\ SlotsInv => SlotsAreReturned
  <2> SUFFICES ASSUME AdapterInv, SlotsInv PROVE SlotsAreReturned
    OBVIOUS
  <2>1. \A e \in Entry : inflight[e] \in 0 .. MaxCalls /\ inflight[e] = Cardinality(Slots(e))
    BY SlotsFinite DEF SlotsInv
  <2>2. \A c \in Caller : pc[c] = "create" => at[c] \in Entry
    BY DEF AdapterInv, AdapterTypes, Places, CallPCs
  <2>3. QED
    BY <2>1, <2>2 DEF AdapterInv, Creating, SlotsAreReturned
<1>3. QED
  BY <1>1, <1>2, SlotsStep, Sides, AdapterInvariance, PTL DEF AdapterSpec

-----------------------------------------------------------------------------
(* The managed accounts.                                                    *)

\* What every operation knows at each of its steps of the row, the credential and the
\* principals holds in every behaviour.
THEOREM AccountInvariance == OneSetup => (McpSpec => []AccountInv)
<1> SUFFICES ASSUME OneSetup PROVE McpSpec => []AccountInv
  OBVIOUS
<1>1. AccountInv /\ [AccountNext]_accountVars => AccountInv'
  BY AccountStep
<1>2. QED
  BY <1>1, Sides, InitAccount, PTL DEF AccountSpec

\* The state is of its type, and the claim is held by the one operation that works.
THEOREM TypeCorrect == OneSetup => (McpSpec => []AccountTypeOK)
<1> SUFFICES ASSUME OneSetup PROVE McpSpec => []AccountTypeOK
  OBVIOUS
<1>1. AccountInv => AccountTypeOK
  BY DEF AccountInv, AccountTypes, OrNone, Claimed, AccountTypeOK, Account, FlowLocal
<1>2. QED
  BY <1>1, AccountInvariance, PTL

\* A principal in the database always has its row, in a state from which revoke drops it.
THEOREM Recorded == OneSetup => (McpSpec => []PrincipalIsRecorded)
<1> SUFFICES ASSUME OneSetup PROVE McpSpec => []PrincipalIsRecorded
  OBVIOUS
<1>1. AccountInv => PrincipalIsRecorded
  BY DEF AccountInv
<1>2. QED
  BY <1>1, AccountInvariance, PTL

\* A row that is filed as prepared has no principal, so that revoke may delete it unasked.
THEOREM Prepared == OneSetup => (McpSpec => []PreparedIsUnused)
<1> SUFFICES ASSUME OneSetup PROVE McpSpec => []PreparedIsUnused
  OBVIOUS
<1>1. AccountInv => PreparedIsUnused
  BY DEF AccountInv, PrincipalIsRecorded, PreparedIsUnused
<1>2. QED
  BY <1>1, AccountInvariance, PTL

\* A principal is created or dropped only while no call can be served with it.
THEOREM Unserved == OneSetup => (McpSpec => PrincipalChangesUnserved)
<1> SUFFICES ASSUME OneSetup PROVE McpSpec => PrincipalChangesUnserved
  OBVIOUS
<1>1. ASSUME AccountInv, [AccountNext]_accountVars, principals' # principals
      PROVE  ~CanServe'
  <2>1. \/ \E c \in Creator : ProvisionWrite(c) \/ CleanUp(c)
        \/ \E p \in Creator \cup Revoker : RevokeDrop(p)
    BY <1>1
    DEF AccountNext, accountVars, persistent, Prepare, PrepareCheck, PrepareCreate,
        PrepareSave, PrepareLoad, PrepareFails, PrepareSet, Provision, ProvisionBegin,
        ProvisionRead, ProvisionConnect, ProvisionForget, ProvisionFailed, ProvisionReady,
        DiscardAccount, Revoke, RevokeBegin, RevokeRead, RevokeDisable, RevokeClear,
        RevokePending, RevokeDelete, RevokeCall, EnableCheck, EnableStore, Disable, Restart
  <2>2. ASSUME NEW c \in Creator, ProvisionWrite(c) \/ CleanUp(c)
        PROVE  account'.state = "provisioning"
    BY <1>1, <2>2 DEF AccountInv, Writing, ProvisionWrite, CleanUp
  <2>3. ASSUME NEW p \in Creator \cup Revoker, RevokeDrop(p)
        PROVE  memory' = None
    BY <1>1, <2>3 DEF AccountInv, Revoking, RevokeDrop
  <2>4. QED
    BY <2>1, <2>2, <2>3 DEF CanServe
<1>2. AccountInv /\ [AccountNext]_accountVars =>
        [principals' # principals => ~CanServe']_accountVars
  BY <1>1
<1>3. QED
  BY <1>2, Sides, AccountInvariance, PTL DEF AccountSpec, PrincipalChangesUnserved
=============================================================================
