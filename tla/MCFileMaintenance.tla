-------------------------- MODULE MCFileMaintenance --------------------------
(* TLC instances of FileMaintenance. *)
EXTENDS FileMaintenance, TLC

CONSTANTS k1, k2, fileA, fileB, a1

\* Two profiles on one file; the update of k2 moves it to another.
TwoConns == [k \in {k1, k2} |->
                [v \in 0 .. MaxVersion |-> IF k = k2 /\ v > 0 THEN fileB ELSE fileA]]

Gets == [c \in Caller |-> {"get"}]
MaintainerOnly == (a1 :> {"where"})

Symmetry == Permutations(Entry)
=============================================================================
