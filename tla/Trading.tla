------------------------------ MODULE Trading -------------------------------
(***************************************************************************)
(* Orders from the route to the terminal's handlers and back: the account  *)
(* a route resolves, the methods of Mt5Connector, the command channel by   *)
(* the contract CommandChannel keeps (AtMostOnceCall), the handlers of     *)
(* SlotService.mq5, and what the caller and the streams are told.  The     *)
(* broker behind OrderSend() is external: it does what it is asked or      *)
(* refuses.                                                                *)
(*                                                                         *)
(* A caller may try an intent again, with a request of its own, when the   *)
(* tries before were not answered "ok".  The trade events of the terminal  *)
(* carry nested braces that are no JSON, so the events server drops every  *)
(* one: neither the ledger nor a stream learns more than what is here.     *)
(***************************************************************************)
EXTENDS Accounts

CONSTANTS
  Requests,    \* HTTP requests of the trading routes
  Kind,        \* Kind[r]: which route
  Intent       \* Intent[r]: what its caller wants done

Kinds == {"open", "close", "modify_position", "modify_order", "cancel"}
Deals == {"open", "close"}

ASSUME TradingAssumption == Kind \in [Requests -> Kinds]

VARIABLES
  outcome,     \* how dispatchCommand() ended, or "open" while it has not
  runs,        \* how often the terminal has handled the command of r
  effect,      \* what the broker made of it
  reply,       \* the answer of the slot
  told         \* how often the streams were told that r is pending

tradeVars == <<outcome, runs, effect, reply, told>>
vars == <<accountVars, tradeVars>>

Channel == INSTANCE AtMostOnceCall WITH Calls <- Requests, Known <- Requests

Refusals == {"no_account", "unknown_ref", "not_connected"}
Doubts == {"failed", "cut"}
Replies == {"none", "ticket", "invented", "ok"} \cup Refusals \cup Doubts

TypeOK ==
  /\ AccountsTypeOK
  /\ outcome \in [Requests -> {"none", "open", "ok", "failed", "unknown", "unsent"}]
  /\ runs \in [Requests -> Nat]
  /\ effect \in [Requests -> {"none", "done", "refused"}]
  /\ reply \in [Requests -> Replies]
  /\ told \in [Requests -> Nat]

Init ==
  /\ AccountsInit
  /\ Channel!Init
  /\ effect = [r \in Requests |-> "none"]
  /\ reply = [r \in Requests |-> "none"]
  /\ told = [r \in Requests |-> 0]

-----------------------------------------------------------------------------
(***************************************************************************)
(* The routes and the connector                                            *)
(***************************************************************************)

Issued(r) == outcome[r] # "none" \/ reply[r] # "none"

\* A request is new, and the tries of its intent before it have failed.
MayTry(r) ==
  /\ ~Issued(r)
  /\ \A s \in Requests \ {r} :
       Intent[s] = Intent[r] /\ Issued(s) => reply[s] \in Refusals \cup Doubts

\* resolveAccountRef(): 404 unless the newest row is enabled.
NoAccount == ~\E a \in Enabled : IsNewest(a)

Refuse(r) ==
  /\ MayTry(r)
  /\ \/ NoAccount /\ reply' = [reply EXCEPT ![r] = "no_account"]
     \/ /\ \E a \in Enabled : IsNewest(a) /\ a \notin known
        /\ reply' = [reply EXCEPT ![r] = "unknown_ref"]
  /\ UNCHANGED <<accountVars, outcome, runs, effect, told>>

\* openTrade(), closeTrade(), modifyPosition(), modifyOrder(), cancelOrder(), up
\* to dispatchCommand(): the connector has a record of the account.
Send(r) ==
  /\ MayTry(r)
  /\ \E a \in Enabled : IsNewest(a) /\ a \in known
  /\ Channel!Begin(r)
  /\ UNCHANGED <<accountVars, effect, reply, told>>

\* Deviation: an answer that names an error counts as a ticket.
AnswerUnread(r) ==
  /\ Channel!Answer(r)
  /\ reply' = [reply EXCEPT ![r] = IF Kind[r] \in Deals THEN "ticket" ELSE "ok"]
  /\ told' = [told EXCEPT ![r] = IF Kind[r] \in Deals THEN @ + 1 ELSE @]
  /\ UNCHANGED <<accountVars, effect>>

\* Deviation: the answer repeats what the broker made of the request.
AnswerRaw(r) ==
  /\ Channel!Answer(r)
  /\ reply' = [reply EXCEPT ![r] = effect[r]]
  /\ told' = [told EXCEPT ![r] = IF Kind[r] \in Deals THEN @ + 1 ELSE @]
  /\ UNCHANGED <<accountVars, effect>>

\* The answer of the terminal.  Every action it knows is answered with ok, also
\* when its result is an error: an order is reported with the number the
\* broker gave it, or with one made up here, and a change or a cancellation
\* is reported as made.
Answered(r) ==
  /\ Channel!Answer(r)
  /\ IF Kind[r] \in Deals
     THEN /\ reply' = [reply EXCEPT ![r] = IF effect[r] = "done" THEN "ticket" ELSE "invented"]
          /\ told' = [told EXCEPT ![r] = @ + 1]
     ELSE /\ reply' = [reply EXCEPT ![r] = "ok"]
          /\ UNCHANGED told
  /\ UNCHANGED <<accountVars, effect>>

\* Deviation: whatever went wrong, the caller is told that nothing was sent.
FailedAsRefusal(S) ==
  /\ S # {}
  /\ Channel!GiveUp(S)
  /\ reply' = [r \in Requests |-> IF r \in S THEN "not_connected" ELSE reply[r]]
  /\ UNCHANGED <<accountVars, effect, told>>

\* Deviation: the error is logged and the request left without an answer.
FailedSilently(S) ==
  /\ S # {}
  /\ Channel!GiveUp(S)
  /\ UNCHANGED <<accountVars, effect, reply, told>>

\* dispatchCommand() ends without an answer, for one call by its timer and for
\* all of them when the connection is lost.
Failed(S) ==
  /\ S # {}
  /\ Channel!GiveUp(S)
  /\ reply' = [r \in Requests |-> IF r \in S THEN "failed" ELSE reply[r]]
  /\ UNCHANGED <<accountVars, effect, told>>

\* Deviation: the second of ensureConnected() also ends calls already written.
NotConnectedLate(r) ==
  /\ Channel!GiveUp({r})
  /\ reply' = [reply EXCEPT ![r] = "not_connected"]
  /\ UNCHANGED <<accountVars, effect, told>>

\* ensureConnected() has found no socket: nothing is sent.
NotConnected(r) ==
  /\ outcome[r] = "open"
  /\ Channel!Withdraw(r)
  /\ reply' = [reply EXCEPT ![r] = "not_connected"]
  /\ UNCHANGED <<accountVars, effect, told>>

\* The slot dies and is started again: its callers are cut off.
Restart ==
  LET Waiting == {r \in Requests : outcome[r] = "open"} IN
  /\ RestartAccounts
  /\ Channel!GiveUp(Waiting)
  /\ reply' = [r \in Requests |-> IF r \in Waiting THEN "cut" ELSE reply[r]]
  /\ UNCHANGED <<effect, told>>

-----------------------------------------------------------------------------
(***************************************************************************)
(* The terminal                                                            *)
(***************************************************************************)

\* HandleOpen(), HandleClose(), HandleCancel(), HandleModifyPosition(): the
\* position may be gone, and OrderSend() may fail.  HandleSltp() is sent
\* order_id, reads position_id, and asks the broker for nothing.
Handle(r) ==
  /\ Channel!Perform(r)
  /\ \E e \in IF Kind[r] = "modify_order" THEN {"refused"} ELSE {"done", "refused"} :
       effect' = [effect EXCEPT ![r] = e]
  /\ UNCHANGED <<accountVars, reply, told>>

-----------------------------------------------------------------------------

Next ==
  \/ AccountsNext /\ UNCHANGED tradeVars
  \/ \E r \in Requests : \/ Refuse(r) \/ Send(r) \/ Answered(r) \/ NotConnected(r)
                         \/ Handle(r)
  \/ \E S \in SUBSET Requests : Failed(S)
  \/ Restart

Spec == Init /\ [][Next]_vars

(***************************************************************************)
(* Fairness.  Node runs what is due: a command's timer, for every call      *)
(* settles (EveryCallSettles of CommandChannel), and the steps of a         *)
(* validation, whose wait for a login is bounded.                           *)
(***************************************************************************)
Fairness ==
  /\ \A v \in Jobs : WF_vars(RunValidation(v) /\ UNCHANGED tradeVars)
                     /\ WF_vars(Validated(v) /\ UNCHANGED tradeVars)
  /\ \A r \in Requests : WF_vars(Failed({r}))

FairSpec == Spec /\ Fairness

-----------------------------------------------------------------------------
(***************************************************************************)
(* Properties                                                              *)
(***************************************************************************)

\* A refusal is final: the terminal has not handled such a request, and never
\* will, so its caller may try again.
RefusalIsFinal ==
  \A r \in Requests : reply[r] \in Refusals => runs[r] = 0 /\ effect[r] = "none"

\* What tells an order the broker took from one it refused is its number, not
\* "ok"; and the streams were told of exactly those that were answered.
TicketTells ==
  \A r \in Requests :
    /\ reply[r] = "ticket" => effect[r] = "done"
    /\ reply[r] = "invented" => effect[r] = "refused"
    /\ told[r] = IF reply[r] \in {"ticket", "invented"} THEN 1 ELSE 0

\* An intent is done twice only if a caller tried again after an answer that
\* left the first try open.
TwiceOnlyInDoubt ==
  \A r, s \in Requests :
    r # s /\ Intent[r] = Intent[s] /\ effect[r] = "done" /\ effect[s] = "done"
      => reply[r] \in Doubts \/ reply[s] \in Doubts

\* Every request is answered, or cut off by a restart.
EveryRequestAnswered == \A r \in Requests : outcome[r] = "open" ~> reply[r] # "none"
=============================================================================
