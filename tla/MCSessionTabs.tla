---------------------------- MODULE MCSessionTabs ----------------------------
(* TLC instance of SessionTabs: callers and connections are interchangeable. *)
EXTENDS SessionTabs
Symmetry == Permutations(Caller) \cup Permutations(Connection)
=============================================================================
