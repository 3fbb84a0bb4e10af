----------------------------- MODULE MCFileLocks -----------------------------
(* TLC instance of FileLocks: two profiles on one file, the update of k2    *)
(* moves it to another; one maintainer and one administrator that updates a *)
(* profile.  No symmetry: the run checks liveness.                          *)
EXTENDS FileLocks, TLC
CONSTANTS k1, k2, fileA, fileB, a1, a2
TwoConns == [k \in {k1, k2} |->
                [v \in 0 .. MaxVersion |-> IF k = k2 /\ v > 0 THEN fileB ELSE fileA]]
Kinds == (a1 :> {"where"} @@ a2 :> {"update"})
Gets == [c \in Caller |-> {"get"}]
=============================================================================
