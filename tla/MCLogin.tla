------------------------------ MODULE MCLogin ------------------------------
(***************************************************************************)
(* LoginState for TLC: two accounts, and two polls that overlap.           *)
(***************************************************************************)
EXTENDS LoginState

CONSTANTS demo, real, poll1, poll2
=============================================================================
