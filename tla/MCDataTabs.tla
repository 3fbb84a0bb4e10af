----------------------------- MODULE MCDataTabs -----------------------------
(* A single query, a chain with a write, and a blank-line batch; five Redis *)
(* keys in two native replies.                                              *)
EXTENDS DataTabs

MCStatementsOf ==
    [single |-> <<"q1">>, chain |-> <<"q2", "w">>, batch |-> <<"q3", "v">>]
MCStatementKind ==
    [q1 |-> "select", q2 |-> "select", q3 |-> "select", v |-> "values", w |-> "write"]
MCBatches == << <<1, 2, 3, 4>>, <<5>> >>
=============================================================================
