------------------------------ MODULE MCEvents ------------------------------
(***************************************************************************)
(* EventsSocket for TLC: a Python publisher and SlotService, and as many   *)
(* connections as they can leave half closed between them.                 *)
(***************************************************************************)
EXTENDS EventsSocket, TLC

CONSTANTS conn1, conn2, conn3

Symmetry == Permutations(Conns)
=============================================================================
