---------------------------- MODULE MCGuiRequests ----------------------------
(* TLC instances of GuiRequests. *)
EXTENDS GuiRequests

\* The first update makes the connection read-only, the second writable again.
Alternating == [v \in Version |-> IF v % 2 = 0 THEN "writable" ELSE "readOnly"]
=============================================================================
