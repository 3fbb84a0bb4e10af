---------------------------- MODULE ProviderPool ----------------------------
(***************************************************************************)
(* What the Manager of dbcore/manager.go promises those who use providers: *)
(* each connection has a succession of generations, one current at a time. *)
(* A generation opens its provider at most once, gives it to callers while *)
(* it is current, and closes it after it has been replaced or dropped.     *)
(* Shutdown ends when every generation is gone, and no other begins.       *)
(***************************************************************************)
EXTENDS Absent

CONSTANTS
    Caller,       \* who asks for a provider, each of them once
    Conn,         \* connection ids
    Generation    \* identities of generations

VARIABLES
    generation,   \* per identity: its connection, its stage and its provider
    wants,        \* the connection each caller asks for
    given,        \* the generation whose provider each caller was given, or None
    shutdown      \* "no", "begun", "finished"

poolVars == <<generation, wants, given, shutdown>>

Current(g) == generation[g].stage = "current"

PoolInit ==
    /\ generation = [g \in Generation |-> [conn |-> None, stage |-> "absent", prov |-> "none"]]
    /\ wants \in [Caller -> Conn]
    /\ given = [c \in Caller |-> None]
    /\ shutdown = "no"

\* A connection without a current generation gets one.
Begin(g, k) ==
    /\ shutdown = "no"
    /\ generation[g].stage = "absent"
    /\ ~\E h \in Generation : Current(h) /\ generation[h].conn = k
    /\ generation' = [generation EXCEPT ![g] = [conn |-> k, stage |-> "current", prov |-> "none"]]
    /\ UNCHANGED <<wants, given, shutdown>>

\* Its provider opens or fails to, once; it may by then have been replaced.
Open(g) ==
    /\ generation[g].stage \in {"current", "leaving"} /\ generation[g].prov = "none"
    /\ \E r \in {"open", "failed"} : generation' = [generation EXCEPT ![g].prov = r]
    /\ UNCHANGED <<wants, given, shutdown>>

\* A caller is given what is open and current.
Give(c, g) ==
    /\ given[c] = None
    /\ Current(g) /\ generation[g].prov = "open" /\ generation[g].conn = wants[c]
    /\ given' = [given EXCEPT ![c] = g]
    /\ UNCHANGED <<generation, wants, shutdown>>

\* It is not given any more; one whose provider nobody began to open is gone.
Replace(g) ==
    /\ Current(g)
    /\ \E s \in {"leaving"} \cup (IF generation[g].prov = "none" THEN {"gone"} ELSE {}) :
          generation' = [generation EXCEPT ![g].stage = s]
    /\ UNCHANGED <<wants, given, shutdown>>

Close(g) ==
    /\ generation[g].stage = "leaving" /\ generation[g].prov = "open"
    /\ generation' = [generation EXCEPT ![g].prov = "closed"]
    /\ UNCHANGED <<wants, given, shutdown>>

Leave(g) ==
    /\ generation[g].stage = "leaving" /\ generation[g].prov \in {"failed", "closed"}
    /\ generation' = [generation EXCEPT ![g].stage = "gone"]
    /\ UNCHANGED <<wants, given, shutdown>>

ShutDown ==
    /\ shutdown = "no" /\ shutdown' = "begun"
    /\ UNCHANGED <<generation, wants, given>>

ShutDownEnds ==
    /\ shutdown = "begun" /\ shutdown' = "finished"
    /\ \A g \in Generation : generation[g].stage \in {"absent", "gone"}
    /\ UNCHANGED <<generation, wants, given>>

PoolNext ==
    \/ \E g \in Generation :
          \/ \E k \in Conn : Begin(g, k)
          \/ Open(g) \/ Replace(g) \/ Close(g) \/ Leave(g)
          \/ \E c \in Caller : Give(c, g)
    \/ ShutDown \/ ShutDownEnds

PoolSpec == PoolInit /\ [][PoolNext]_poolVars
=============================================================================
