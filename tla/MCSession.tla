------------------------------ MODULE MCSession -------------------------------
(***************************************************************************)
(* Session with two connects and no disconnect; with one connect, a        *)
(* disconnect and the one main makes; and with two connects and a          *)
(* disconnect.  In the last two commands may outlast the budget.           *)
(***************************************************************************)
EXTENDS Session

CONSTANTS c1, c2, d1, d2

QuietPlan == [calls |-> {c1, c2}, wedges |-> FALSE]
BusyPlan == [calls |-> {c1, d1, d2}, wedges |-> TRUE]
CrossingPlan == [calls |-> {c1, c2, d1}, wedges |-> TRUE]
PlansMC == {QuietPlan, BusyPlan, CrossingPlan}
=============================================================================
