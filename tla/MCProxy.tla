------------------------------ MODULE MCProxy -------------------------------
(***************************************************************************)
(* WsProxy for TLC: one browser, and a few messages in either direction.   *)
(***************************************************************************)
EXTENDS WsProxy
=============================================================================
