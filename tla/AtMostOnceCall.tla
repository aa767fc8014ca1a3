--------------------------- MODULE AtMostOnceCall ---------------------------
(***************************************************************************)
(* What a caller of the command channel may conclude from the way a call   *)
(* ends, with no sockets, buffers or timers: the peer performs a call at   *)
(* most once; an answer means it has performed it; "unsent" means that it  *)
(* never will; and an unknown outcome promises nothing, the call may even  *)
(* be performed after the caller was told.                                 *)
(***************************************************************************)
EXTENDS Naturals

CONSTANTS
  Calls,       \* the calls that can be made
  Known        \* those the peer knows how to perform

VARIABLES
  outcome,     \* outcome[d]: what the caller has been told
  runs         \* runs[d]: how often the peer has performed d

callVars == <<outcome, runs>>

Init ==
  /\ outcome = [d \in Calls |-> "none"]
  /\ runs = [d \in Calls |-> 0]

Begin(d) ==
  /\ outcome[d] = "none"
  /\ outcome' = [outcome EXCEPT ![d] = "open"]
  /\ UNCHANGED runs

\* The peer cannot tell whether the caller is still waiting.
Perform(d) ==
  /\ outcome[d] \in {"open", "unknown"}
  /\ runs[d] = 0
  /\ runs' = [runs EXCEPT ![d] = 1]
  /\ UNCHANGED outcome

Answer(d) ==
  /\ outcome[d] = "open" /\ runs[d] = 1
  /\ outcome' = [outcome EXCEPT ![d] = IF d \in Known THEN "ok" ELSE "failed"]
  /\ UNCHANGED runs

\* The calls of S are given up together: a broken connection takes several.
GiveUp(S) ==
  /\ \A d \in S : outcome[d] = "open"
  /\ outcome' = [d \in Calls |-> IF d \in S THEN "unknown" ELSE outcome[d]]
  /\ UNCHANGED runs

Withdraw(d) ==
  /\ outcome[d] \in {"none", "open"} /\ runs[d] = 0
  /\ outcome' = [outcome EXCEPT ![d] = "unsent"]
  /\ UNCHANGED runs

Next ==
  \/ \E d \in Calls : Begin(d) \/ Perform(d) \/ Answer(d) \/ Withdraw(d)
  \/ \E S \in SUBSET Calls : GiveUp(S)

Spec == Init /\ [][Next]_callVars
=============================================================================
