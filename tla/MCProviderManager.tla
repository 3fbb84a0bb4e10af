-------------------------- MODULE MCProviderManager --------------------------
(* TLC instances of ProviderManager. *)
EXTENDS ProviderManager, TLC

CONSTANTS k1, k2, fileA, fileB, a1, a2, a3, c1, c2

\* One profile whose file changes with its first update.
OneConn == [k \in {k1} |-> [v \in 0 .. MaxVersion |-> IF v = 0 THEN fileA ELSE fileB]]

\* Plain lookups; updates and Close against InvalidateAndWaitWhere and Close.
Gets == [c \in Caller |-> {"get"}]
SweepKinds == (a1 :> {"update", "close"} @@ a2 :> {"where", "close"})

\* One Get and one GetFor beside each administrator's operation.
MixedGets == (c1 :> {"get"} @@ c2 :> {"getFor"})
AnyKind == (a1 :> AdminKind)

\* Two invalidations, then a wait for the connection.
AwaitKinds == (a1 :> {"update"} @@ a2 :> {"update"} @@ a3 :> {"await"})

Symmetry == Permutations(Caller) \cup Permutations(Entry)
=============================================================================
