-------------------------- MODULE MCCommandChannel --------------------------
(***************************************************************************)
(* CommandChannel for TLC: an order whose response comes in two chunks, a  *)
(* command MQL5 does not know, answered in one, and a query whose response *)
(* is longer than the client's receive buffer.                             *)
(***************************************************************************)
EXTENDS CommandChannel

CONSTANTS open, login, symbols, conn1, conn2, conn3

MCKnown == {open, symbols} \cap Cmds
MCParts == [d \in Cmds |-> CASE d = open -> 2 [] d = login -> 1 [] d = symbols -> 3]
=============================================================================
