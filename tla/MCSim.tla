------------------------------- MODULE MCSim --------------------------------
(***************************************************************************)
(* SimTrading for TLC: orders of one or two lots that add to, reduce, close *)
(* and turn a position over, across a second login.                         *)
(***************************************************************************)
EXTENDS SimTrading
=============================================================================
