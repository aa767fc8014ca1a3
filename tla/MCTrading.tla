----------------------------- MODULE MCTrading ------------------------------
(***************************************************************************)
(* Trading for TLC: an order that may be tried twice and the change of a   *)
(* pending one, on two accounts of which the older cannot be read.         *)
(***************************************************************************)
EXTENDS Trading

CONSTANTS first, second, change, job1, job2

MCKind == [r \in Requests |-> IF r = change THEN "modify_order" ELSE "open"]
MCIntent == [r \in Requests |-> IF r = change THEN change ELSE first]
=============================================================================
