------------------------------- MODULE Absent -------------------------------
(* null, undefined and nil: the value of what is not there. *)
CONSTANT None
=============================================================================
