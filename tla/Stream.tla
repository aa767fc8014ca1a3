------------------------------- MODULE Stream -------------------------------
(***************************************************************************)
(* /v1/stream: the route of ws.ts, and Mt5Connector.stream() under it, an  *)
(* async generator with a queue of its own and a listener on the bus of    *)
(* the connector, by which every event of the broker reaches all streams.  *)
(*                                                                         *)
(* The event loop is part of the model: several events may be put on the   *)
(* bus in one turn, before any generator resumes (one TCP chunk may carry  *)
(* several frames, and openTrade() emits from a continuation); what a      *)
(* client does is noticed only when no generator is left to resume.        *)
(* Verifying the token is a chain of such continuations too, so that no    *)
(* turn comes between the upgrade and the first wait of the generator.     *)
(***************************************************************************)
EXTENDS Naturals, Sequences

CONSTANTS
  Clients,     \* WebSocket clients, each with one connection at a time
  Refs,        \* account references
  NoRef,       \* accountRef is not assigned
  MaxEvents    \* bound: how many events the broker emits

ASSUME StreamAssumption ==
  /\ NoRef \notin Refs
  /\ MaxEvents \in Nat

VARIABLES
  ws,          \* ws[s]: ws.readyState; "closed" once 'close' was emitted
  phase,       \* phase[s]: where the generator stands
  ref,         \* ref[s]: the account streamed
  listeners,   \* those whose listener is on the bus
  pinging,     \* those whose ping timer is set
  held,        \* held[s]: the value resolveNext() was given, until it is sent
  queue,       \* queue[s]: the generator's queue
  count,       \* events emitted so far: an event is its number
  heard,       \* history: events of the account since the stream opened
  sent         \* history: what the client was sent

streamVars == <<ws, phase, ref, listeners, pinging, held, queue>>
vars == <<streamVars, count, heard, sent>>

TypeOK ==
  /\ ws \in [Clients -> {"open", "closing", "closed"}]
  /\ phase \in [Clients -> {"none", "awaiting", "running", "ended"}]
  /\ ref \in [Clients -> Refs \cup {NoRef}]
  /\ listeners \in SUBSET {s \in Clients : ref[s] \in Refs}
  /\ pinging \in SUBSET Clients
  /\ held \in [Clients -> Seq(Nat)]
  /\ queue \in [Clients -> Seq(Nat)]
  /\ count \in 0..MaxEvents
  /\ heard \in [Clients -> Seq(Nat)]
  /\ sent \in [Clients -> Seq(Nat)]

Init ==
  /\ ws = [s \in Clients |-> "closed"]
  /\ phase = [s \in Clients |-> "none"]
  /\ ref = [s \in Clients |-> NoRef]
  /\ listeners = {}
  /\ pinging = {}
  /\ held = [s \in Clients |-> <<>>]
  /\ queue = [s \in Clients |-> <<>>]
  /\ count = 0
  /\ heard = [s \in Clients |-> <<>>]
  /\ sent = [s \in Clients |-> <<>>]

\* No generator is left to resume in this turn.
Quiet == \A s \in Clients : phase[s] \in {"none", "awaiting"}

-----------------------------------------------------------------------------
(***************************************************************************)
(* The route                                                               *)
(***************************************************************************)

\* Deviation: a slot without an account streams an account that is undefined.
OpenUnresolved(s) ==
  /\ Quiet /\ ws[s] = "closed" /\ phase[s] = "none"
  /\ ws' = [ws EXCEPT ![s] = "open"]
  /\ phase' = [phase EXCEPT ![s] = "awaiting"]
  /\ \E r \in Refs \cup {NoRef} : ref' = [ref EXCEPT ![s] = r]
  /\ listeners' = listeners \cup {s}
  /\ pinging' = pinging \cup {s}
  /\ queue' = [queue EXCEPT ![s] = <<>>]
  /\ heard' = [heard EXCEPT ![s] = <<>>]
  /\ sent' = [sent EXCEPT ![s] = <<>>]
  /\ UNCHANGED <<held, count>>

\* The upgrade: the client is authenticated and the account resolved, the
\* handlers and the ping timer are set, and the generator runs to its first
\* wait with its listener on the bus.  A client that is refused is sent an
\* error and closed, and leaves no trace.
Open(s) ==
  /\ Quiet /\ ws[s] = "closed" /\ phase[s] = "none"
  /\ ws' = [ws EXCEPT ![s] = "open"]
  /\ phase' = [phase EXCEPT ![s] = "awaiting"]
  /\ \E r \in Refs : ref' = [ref EXCEPT ![s] = r]
  /\ listeners' = listeners \cup {s}
  /\ pinging' = pinging \cup {s}
  /\ queue' = [queue EXCEPT ![s] = <<>>]
  /\ heard' = [heard EXCEPT ![s] = <<>>]
  /\ sent' = [sent EXCEPT ![s] = <<>>]
  /\ UNCHANGED <<held, count>>

\* The closing handshake begins: ws.readyState changes, no handler runs.
Closing(s) ==
  /\ Quiet /\ ws[s] = "open"
  /\ ws' = [ws EXCEPT ![s] = "closing"]
  /\ UNCHANGED <<phase, ref, listeners, pinging, held, queue, count, heard, sent>>

\* 'close' or 'error' of the socket: cleanup() aborts the stream, which ends
\* the generator's wait and takes the listener from the bus.
Close(s) ==
  /\ Quiet /\ ws[s] \in {"open", "closing"}
  /\ ws' = [ws EXCEPT ![s] = "closed"]
  /\ IF phase[s] = "awaiting"
     THEN /\ phase' = [phase EXCEPT ![s] = "ended"]
          /\ listeners' = listeners \ {s}
     ELSE UNCHANGED <<phase, listeners>>
  /\ UNCHANGED <<ref, pinging, held, queue, count, heard, sent>>

-----------------------------------------------------------------------------
(***************************************************************************)
(* The bus and the generator                                               *)
(***************************************************************************)

\* Deviation: resolveNext is not cleared, so that a second event of the turn
\* goes to a promise that is resolved already.
EmitUncleared(r) ==
  /\ count < MaxEvents
  /\ count' = count + 1
  /\ LET To == {s \in listeners : ref[s] = r} IN
     /\ held' = [s \in Clients |->
                   IF s \in To /\ phase[s] = "awaiting" THEN <<count + 1>> ELSE held[s]]
     /\ phase' = [s \in Clients |-> IF s \in To THEN "running" ELSE phase[s]]
     /\ queue' = queue
     /\ heard' = [s \in Clients |-> IF s \in To THEN Append(heard[s], count + 1) ELSE heard[s]]
  /\ UNCHANGED <<ws, ref, listeners, pinging, sent>>

\* emitToBus(): a generator that waits is given the event, for any other it
\* is queued.
Emit(r) ==
  /\ count < MaxEvents
  /\ count' = count + 1
  /\ LET To == {s \in listeners : ref[s] = r} IN
     /\ held' = [s \in Clients |->
                   IF s \in To /\ phase[s] = "awaiting" THEN <<count + 1>> ELSE held[s]]
     /\ phase' = [s \in Clients |-> IF s \in To THEN "running" ELSE phase[s]]
     /\ queue' = [s \in Clients |->
                    IF s \in To /\ phase[s] # "awaiting"
                    THEN Append(queue[s], count + 1) ELSE queue[s]]
     /\ heard' = [s \in Clients |-> IF s \in To THEN Append(heard[s], count + 1) ELSE heard[s]]
  /\ UNCHANGED <<ws, ref, listeners, pinging, sent>>

\* Deviation: the generator waits after every event, whatever is queued.
ResumeWaits(s) ==
  /\ phase[s] = "running" /\ ws[s] = "open"
  /\ sent' = [sent EXCEPT ![s] = @ \o held[s]]
  /\ held' = [held EXCEPT ![s] = <<>>]
  /\ phase' = [phase EXCEPT ![s] = "awaiting"]
  /\ UNCHANGED <<ws, ref, listeners, pinging, queue, count, heard>>

\* The generator yields, the route sends and asks for the next: that is the
\* head of the queue, or the generator waits again.
Resume(s) ==
  /\ phase[s] = "running" /\ ws[s] = "open"
  /\ sent' = [sent EXCEPT ![s] = @ \o held[s]]
  /\ IF queue[s] = <<>>
     THEN /\ phase' = [phase EXCEPT ![s] = "awaiting"]
          /\ held' = [held EXCEPT ![s] = <<>>]
          /\ UNCHANGED queue
     ELSE /\ held' = [held EXCEPT ![s] = <<Head(queue[s])>>]
          /\ queue' = [queue EXCEPT ![s] = Tail(@)]
          /\ UNCHANGED phase
  /\ UNCHANGED <<ws, ref, listeners, pinging, count, heard>>

\* Deviation: the route's finally does not clear the ping timer.
FinishKeepsTimer(s) ==
  /\ phase[s] \in {"running", "ended"}
  /\ phase' = [phase EXCEPT ![s] = "none"]
  /\ listeners' = listeners \ {s}
  /\ held' = [held EXCEPT ![s] = <<>>]
  /\ ws' = [ws EXCEPT ![s] = IF @ = "open" THEN "closing" ELSE @]
  /\ UNCHANGED <<ref, pinging, queue, count, heard, sent>>

\* The generator is done, or the route breaks off because the socket is not
\* open any more or does not take the frame: the generator's finally takes
\* the listener from the bus, the route's clears the timer, and a socket
\* that is still open is closed.
Finish(s) ==
  /\ phase[s] \in {"running", "ended"}
  /\ phase' = [phase EXCEPT ![s] = "none"]
  /\ listeners' = listeners \ {s}
  /\ pinging' = pinging \ {s}
  /\ held' = [held EXCEPT ![s] = <<>>]
  /\ ws' = [ws EXCEPT ![s] = IF @ = "open" THEN "closing" ELSE @]
  /\ UNCHANGED <<ref, queue, count, heard, sent>>

-----------------------------------------------------------------------------

Next ==
  \/ \E s \in Clients : Open(s) \/ Closing(s) \/ Close(s) \/ Resume(s) \/ Finish(s)
  \/ \E r \in Refs : Emit(r)

Spec == Init /\ [][Next]_vars

(***************************************************************************)
(* Fairness: the continuations of a turn run, and a closing handshake that *)
(* has begun ends, for ws destroys a socket whose peer does not finish it. *)
(* The other streams may keep the loop busy again and again (strong        *)
(* fairness), but every turn comes to its end.                             *)
(***************************************************************************)
Fairness ==
  \A s \in Clients :
    /\ WF_vars(Resume(s) \/ Finish(s))
    /\ SF_vars(Close(s) /\ ws[s] = "closing")

FairSpec == Spec /\ Fairness

-----------------------------------------------------------------------------
(***************************************************************************)
(* Properties                                                              *)
(***************************************************************************)

\* Every event of the account since the stream opened has been sent, is in
\* hand or is queued, once and in order, however many share a turn; the
\* events of another account are not among them.
InOrder == \A s \in listeners : heard[s] = sent[s] \o held[s] \o queue[s]

\* A generator that waits has nothing left to yield: no event sits in a
\* queue until the next one comes.
NoLostWakeup == \A s \in Clients : phase[s] = "awaiting" => held[s] \o queue[s] = <<>>

\* When the event loop is idle, a connection that is closed has neither a
\* listener on the bus nor a ping timer left.
NoLeak == Quiet => \A s \in Clients : ws[s] = "closed" => s \notin listeners \cup pinging

\* A client that stays is sent every event, and a client that leaves is let
\* go of.
Served ==
  \A s \in Clients :
    /\ <>[](ws[s] = "open") => []<>(sent[s] = heard[s])
    /\ ws[s] = "closing" ~> s \notin listeners
=============================================================================
