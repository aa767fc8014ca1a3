------------------------------ MODULE MCStream ------------------------------
(***************************************************************************)
(* Stream for TLC: two clients, which may stream the same account or one   *)
(* each, and four events, so that a turn can fill a queue.                 *)
(***************************************************************************)
EXTENDS Stream

CONSTANTS app, mobile, demo, real
=============================================================================
