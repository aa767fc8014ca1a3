------------------------------ MODULE WsProxy -------------------------------
(***************************************************************************)
(* The VNC proxy: for every browser that connects, a second WebSocket to   *)
(* KasmVNC, bytes piped both ways, and two flags that the handlers of both *)
(* sockets read and write.  The sockets themselves are the ws library's:   *)
(* what it does on close(), on a close frame, on a lost connection and on  *)
(* a frame it cannot read is external.                                     *)
(***************************************************************************)
EXTENDS Naturals

CONSTANT MaxMsgs      \* bound on the messages of a direction

ASSUME ProxyAssumption == MaxMsgs \in Nat

VARIABLES
  client,      \* the browser's socket; "stuck": closing, with nothing to end it
  upstream,    \* the socket to KasmVNC
  clientOpen, upstreamOpen,    \* the flags of handleWs()
  status,      \* the upstream's close frame carried a status
  up, down,    \* messages piped to KasmVNC, to the browser
  due          \* history: messages that came while both sockets were open

vars == <<client, upstream, clientOpen, upstreamOpen, status, up, down, due>>
flags == <<clientOpen, upstreamOpen>>
pipes == <<up, down, due>>

TypeOK ==
  /\ client \in {"open", "closing", "stuck", "closed"}
  /\ upstream \in {"connecting", "aborted", "open", "closing", "closed"}
  /\ clientOpen \in BOOLEAN /\ upstreamOpen \in BOOLEAN /\ status \in BOOLEAN
  /\ up \in 0..MaxMsgs /\ down \in 0..MaxMsgs
  /\ due \in [up : 0..MaxMsgs, down : 0..MaxMsgs]

Init ==
  /\ client = "open" /\ upstream = "connecting"
  /\ clientOpen = TRUE /\ upstreamOpen = FALSE /\ status = FALSE
  /\ up = 0 /\ down = 0 /\ due = [up |-> 0, down |-> 0]

-----------------------------------------------------------------------------
(***************************************************************************)
(* close() of the library                                                  *)
(***************************************************************************)

\* An open socket begins the closing handshake.
Closed(s) == IF s = "open" THEN "closing" ELSE s

\* One that is still connecting is abandoned, and fails in a later turn.
UpstreamClosing(s) == IF s = "connecting" THEN "aborted" ELSE Closed(s)

\* closeBoth(): nothing if both flags are down.
CloseBoth(c, u) ==
  IF clientOpen \/ upstreamOpen
  THEN /\ client' = Closed(c) /\ upstream' = UpstreamClosing(u)
       /\ clientOpen' = FALSE /\ upstreamOpen' = FALSE
  ELSE client' = c /\ upstream' = u /\ UNCHANGED flags

-----------------------------------------------------------------------------
(***************************************************************************)
(* Handlers of the upstream socket                                         *)
(***************************************************************************)

\* Deviation: the flag is not raised.
UpstreamOpenedUnmarked ==
  /\ upstream = "connecting"
  /\ upstream' = "open"
  /\ UNCHANGED <<client, clientOpen, upstreamOpen, status, pipes>>

UpstreamOpened ==
  /\ upstream = "connecting"
  /\ upstream' = "open" /\ upstreamOpen' = TRUE
  /\ UNCHANGED <<client, clientOpen, status, pipes>>

\* Refused, answered with 401 or 404, or abandoned: an error and a close.  The
\* close finds the flag of the client down.
UpstreamFailed ==
  /\ upstream \in {"connecting", "aborted"}
  /\ CloseBoth(client, "closed")
  /\ UNCHANGED <<status, pipes>>

\* A frame that cannot be read: an error now, the close later.
UpstreamError ==
  /\ upstream = "open"
  /\ CloseBoth(client, "closing")
  /\ UNCHANGED <<status, pipes>>

\* A close frame, with a status or without; the library answers it.
UpstreamCloseFrame ==
  /\ upstream = "open"
  /\ upstream' = "closing"
  /\ status' \in BOOLEAN
  /\ UNCHANGED <<client, flags, pipes>>

\* Deviation: the browser is not given the status the upstream closed with.
UpstreamClosedBare ==
  /\ upstream \in {"open", "closing"}
  /\ upstream' = "closed"
  /\ client' = IF clientOpen /\ client = "open" THEN "stuck" ELSE client
  /\ UNCHANGED <<flags, status, pipes>>

\* The upstream is gone, after a closing handshake or without one.  Its code is
\* passed on; the codes that stand for "no status" and for a lost connection
\* may not be sent, close() throws, and the exception is ignored.
UpstreamClosed ==
  /\ upstream \in {"open", "closing"}
  /\ upstream' = "closed"
  /\ client' = IF clientOpen /\ client = "open"
               THEN IF status THEN "closing" ELSE "stuck"
               ELSE client
  /\ UNCHANGED <<flags, status, pipes>>

\* Deviation: a message is sent once for either flag.
UpstreamMessageTwice ==
  /\ upstream = "open" /\ due.down < MaxMsgs
  /\ due' = [due EXCEPT !.down = IF client = "open" THEN @ + 1 ELSE @]
  /\ down' = IF clientOpen /\ client = "open" THEN down + 2 ELSE down
  /\ UNCHANGED <<client, upstream, flags, status, up>>

UpstreamMessage ==
  /\ upstream = "open" /\ due.down < MaxMsgs
  /\ due' = [due EXCEPT !.down = IF client = "open" THEN @ + 1 ELSE @]
  /\ down' = IF clientOpen /\ client = "open" THEN down + 1 ELSE down
  /\ UNCHANGED <<client, upstream, flags, status, up>>

-----------------------------------------------------------------------------
(***************************************************************************)
(* Handlers of the client socket                                           *)
(***************************************************************************)

ClientMessage ==
  /\ client = "open" /\ due.up < MaxMsgs
  /\ due' = [due EXCEPT !.up = IF upstream = "open" THEN @ + 1 ELSE @]
  /\ up' = IF upstreamOpen /\ upstream = "open" THEN up + 1 ELSE up
  /\ UNCHANGED <<client, upstream, flags, status, down>>

ClientCloseFrame ==
  /\ client = "open"
  /\ client' = "closing"
  /\ UNCHANGED <<upstream, flags, status, pipes>>

ClientError ==
  /\ client = "open"
  /\ CloseBoth("closing", upstream)
  /\ UNCHANGED <<status, pipes>>

\* Deviation: the upstream is left to itself.
ClientClosedAlone(from) ==
  /\ client \in from
  /\ client' = "closed"
  /\ clientOpen' = FALSE
  /\ UNCHANGED <<upstream, upstreamOpen, status, pipes>>

\* The browser's socket is gone; one that is stuck goes only with the browser.
ClientClosed(from) ==
  /\ client \in from
  /\ client' = "closed"
  /\ upstream' = UpstreamClosing(upstream)
  /\ clientOpen' = FALSE
  /\ UNCHANGED <<upstreamOpen, status, pipes>>

Next ==
  \/ UpstreamOpened \/ UpstreamFailed \/ UpstreamError \/ UpstreamCloseFrame
  \/ UpstreamClosed \/ UpstreamMessage
  \/ ClientMessage \/ ClientCloseFrame \/ ClientError
  \/ ClientClosed({"open", "closing", "stuck"})

Spec == Init /\ [][Next]_vars

(***************************************************************************)
(* Fairness.  The library ends a closing handshake that has begun, by a     *)
(* timer of its own if the peer does not answer, and reports a connection   *)
(* it has abandoned.                                                        *)
(***************************************************************************)
Fairness ==
  /\ WF_vars(upstream = "aborted" /\ UpstreamFailed)
  /\ WF_vars(upstream = "closing" /\ UpstreamClosed)
  /\ WF_vars(ClientClosed({"closing"}))

FairSpec == Spec /\ Fairness

-----------------------------------------------------------------------------
(***************************************************************************)
(* Properties                                                              *)
(***************************************************************************)

\* The flags never hold back what could be sent: every message that came while
\* both sockets were open was piped, once.
Relayed == up = due.up /\ down = due.down

\* The end of either socket brings the end of the other; only one that is stuck
\* waits for its browser.
EndsTogether ==
  /\ client = "closed" ~> upstream = "closed"
  /\ upstream = "closed" ~> client \in {"closed", "stuck"}

\* A browser is left with a socket that is dead and not closed only when the
\* upstream went without a status; and then its flag is still up.
StuckWithoutStatus ==
  client = "stuck" => upstream = "closed" /\ ~status /\ clientOpen
=============================================================================
