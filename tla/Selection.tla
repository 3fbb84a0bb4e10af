------------------------------ MODULE Selection ------------------------------
(* filter, of JavaScript's arrays: SelectSeq, as a function that a proof can *)
(* expand, with the positions that pass the test for the test.               *)
EXTENDS Integers, Sequences

\* The elements of s at some positions, in their order.
Picked(s, positions) ==
    LET upto[n \in 0 .. Len(s)] ==
            IF n = 0 THEN <<>> ELSE IF n \in positions THEN Append(upto[n - 1], s[n]) ELSE upto[n - 1]
    IN  upto[Len(s)]
=============================================================================
