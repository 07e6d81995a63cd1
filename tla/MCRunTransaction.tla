-------------------------- MODULE MCRunTransaction --------------------------
(* Constant values for model-checking RunTransaction.                      *)
EXTENDS RunTransaction

(* The second event is the larger one.                                     *)
MCSizes == [e \in Writes |-> e]

(* An HTTP run without outputs, one with a new result, one with a new      *)
(* result and dashboard, and one that replaces both.                       *)
MCPlans == {
    [http |-> TRUE,  file |-> FALSE, report |-> FALSE, force |-> FALSE],
    [http |-> FALSE, file |-> TRUE,  report |-> FALSE, force |-> FALSE],
    [http |-> FALSE, file |-> TRUE,  report |-> TRUE,  force |-> FALSE],
    [http |-> FALSE, file |-> TRUE,  report |-> TRUE,  force |-> TRUE]}
=============================================================================
