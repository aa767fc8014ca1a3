---------------------------- MODULE WsProxyProofs ---------------------------
(***************************************************************************)
(* Proofs about WsProxy, for any number of messages.                       *)
(***************************************************************************)
EXTENDS WsProxy, TLAPS

\* The flags agree with the sockets as long as these are open.
FlagsAgree ==
  /\ client = "open" => clientOpen
  /\ upstream = "open" => upstreamOpen

ProxyInv == TypeOK /\ FlagsAgree /\ Relayed /\ StuckWithoutStatus

\* A session begins with the browser connected and the upstream connecting.
LEMMA ProxyInit == Init => ProxyInv
<1> SUFFICES ASSUME Init PROVE ProxyInv
  OBVIOUS
<1>1. TypeOK
  <2>1. 0 \in 0..MaxMsgs
    BY ProxyAssumption
  <2>2. due \in [up : 0..MaxMsgs, down : 0..MaxMsgs]
    BY <2>1 DEF Init
  <2>3. QED
    BY <2>1, <2>2 DEF Init, TypeOK
<1>2. FlagsAgree /\ StuckWithoutStatus
  BY DEF Init, FlagsAgree, StuckWithoutStatus
<1>3. Relayed
  BY DEF Init, Relayed
<1>4. QED
  BY <1>1, <1>2, <1>3 DEF ProxyInv

\* A step of the sockets that pipes nothing.
LEMMA SocketsKeep ==
  ASSUME ProxyInv, UNCHANGED pipes,
         client' \in {"open", "closing", "stuck", "closed"},
         upstream' \in {"connecting", "aborted", "open", "closing", "closed"},
         clientOpen' \in BOOLEAN, upstreamOpen' \in BOOLEAN, status' \in BOOLEAN,
         FlagsAgree', StuckWithoutStatus'
  PROVE  ProxyInv'
<1>1. TypeOK'
  BY DEF ProxyInv, TypeOK, pipes
<1>2. Relayed'
  BY DEF ProxyInv, Relayed, pipes
<1>3. QED
  BY <1>1, <1>2 DEF ProxyInv

\* closeBoth(), from a state of the sockets that is not open on either side
\* unless its flag is up.
LEMMA CloseBothKeeps ==
  ASSUME ProxyInv, UNCHANGED <<status, pipes>>,
         NEW c \in {"open", "closing", "stuck", "closed"},
         NEW u \in {"connecting", "aborted", "open", "closing", "closed"},
         CloseBoth(c, u),
         c = "open" => clientOpen, u = "open" => upstreamOpen,
         c = "stuck" => client = "stuck" /\ u = upstream /\ ~(clientOpen \/ upstreamOpen)
  PROVE  ProxyInv'
<1>1. CASE clientOpen \/ upstreamOpen
  <2>1. /\ client' = Closed(c) /\ upstream' = UpstreamClosing(u)
        /\ clientOpen' = FALSE /\ upstreamOpen' = FALSE
    BY <1>1 DEF CloseBoth
  <2>2. /\ client' \in {"closing", "closed"}
        /\ upstream' \in {"aborted", "closing", "closed"}
    BY <1>1, <2>1 DEF Closed, UpstreamClosing
  <2>3. FlagsAgree' /\ StuckWithoutStatus'
    BY <2>2 DEF FlagsAgree, StuckWithoutStatus
  <2>4. status' \in BOOLEAN
    BY DEF ProxyInv, TypeOK
  <2>5. QED
    BY <2>1, <2>2, <2>3, <2>4, SocketsKeep
<1>2. CASE ~(clientOpen \/ upstreamOpen)
  <2>1. client' = c /\ upstream' = u /\ UNCHANGED flags
    BY <1>2 DEF CloseBoth
  <2>2. FlagsAgree' /\ StuckWithoutStatus'
    BY <1>2, <2>1 DEF FlagsAgree, StuckWithoutStatus, flags, ProxyInv
  <2>3. /\ clientOpen' \in BOOLEAN /\ upstreamOpen' \in BOOLEAN /\ status' \in BOOLEAN
    BY <2>1 DEF ProxyInv, TypeOK, flags
  <2>4. QED
    BY <2>1, <2>2, <2>3, SocketsKeep
<1>3. QED
  BY <1>1, <1>2

\* A stuck client's flag is up and its upstream is gone.
LEMMA StuckFacts ==
  ASSUME ProxyInv, client = "stuck"
  PROVE  upstream = "closed" /\ clientOpen /\ ~status
BY DEF ProxyInv, StuckWithoutStatus

\* Every handler of either socket keeps the invariant.
LEMMA ProxyStep ==
  ASSUME ProxyInv, [Next]_vars
  PROVE  ProxyInv'
<1> USE DEF flags
<1>0. /\ client \in {"open", "closing", "stuck", "closed"}
      /\ upstream \in {"connecting", "aborted", "open", "closing", "closed"}
      /\ clientOpen \in BOOLEAN /\ upstreamOpen \in BOOLEAN /\ status \in BOOLEAN
      /\ up \in 0..MaxMsgs /\ down \in 0..MaxMsgs
      /\ due \in [up : 0..MaxMsgs, down : 0..MaxMsgs] /\ MaxMsgs \in Nat
      /\ FlagsAgree /\ Relayed /\ StuckWithoutStatus
  BY ProxyAssumption DEF ProxyInv, TypeOK
<1>1. CASE UpstreamOpened
  <2>1. FlagsAgree' /\ StuckWithoutStatus'
    BY <1>0, <1>1 DEF UpstreamOpened, FlagsAgree, StuckWithoutStatus
  <2>2. QED
    BY <1>0, <1>1, <2>1, SocketsKeep DEF UpstreamOpened
<1>2. CASE UpstreamFailed
  <2>1. client # "stuck"
    BY <1>2, StuckFacts DEF UpstreamFailed
  <2>2. QED
    BY <1>0, <1>2, <2>1, CloseBothKeeps DEF UpstreamFailed, FlagsAgree
<1>3. CASE UpstreamError
  <2>1. client # "stuck"
    BY <1>3, StuckFacts DEF UpstreamError
  <2>2. QED
    BY <1>0, <1>3, <2>1, CloseBothKeeps DEF UpstreamError, FlagsAgree
<1>4. CASE UpstreamCloseFrame
  <2>1. client # "stuck"
    BY <1>4, StuckFacts DEF UpstreamCloseFrame
  <2>2. FlagsAgree' /\ StuckWithoutStatus'
    BY <1>0, <1>4, <2>1 DEF UpstreamCloseFrame, FlagsAgree, StuckWithoutStatus
  <2>3. QED
    BY <1>0, <1>4, <2>2, SocketsKeep DEF UpstreamCloseFrame
<1>5. CASE UpstreamClosed
  <2>1. client # "stuck"
    BY <1>5, StuckFacts DEF UpstreamClosed
  <2>2. FlagsAgree' /\ StuckWithoutStatus'
    BY <1>0, <1>5, <2>1 DEF UpstreamClosed, FlagsAgree, StuckWithoutStatus
  <2>3. client' \in {"open", "closing", "stuck", "closed"}
    BY <1>0, <1>5 DEF UpstreamClosed
  <2>4. QED
    BY <1>0, <1>5, <2>2, <2>3, SocketsKeep DEF UpstreamClosed
<1>6. CASE UpstreamMessage
  <2>1. /\ due.down \in 0..MaxMsgs /\ due.down < MaxMsgs
        /\ clientOpen \/ client # "open"
    BY <1>0, <1>6 DEF UpstreamMessage, FlagsAgree
  <2>2. /\ due' = [due EXCEPT !.down = IF client = "open" THEN due.down + 1 ELSE due.down]
        /\ down' = IF client = "open" THEN down + 1 ELSE down
        /\ UNCHANGED <<client, upstream, clientOpen, upstreamOpen, status, up>>
    BY <1>6, <2>1 DEF UpstreamMessage
  <2>3. Relayed'
    BY <1>0, <2>2 DEF Relayed
  <2>4. TypeOK'
    BY <1>0, <2>1, <2>2 DEF TypeOK, Relayed
  <2>5. FlagsAgree' /\ StuckWithoutStatus'
    BY <1>0, <2>2 DEF FlagsAgree, StuckWithoutStatus
  <2>6. QED
    BY <2>3, <2>4, <2>5 DEF ProxyInv
<1>7. CASE ClientMessage
  <2>1. /\ due.up \in 0..MaxMsgs /\ due.up < MaxMsgs
        /\ upstreamOpen \/ upstream # "open"
    BY <1>0, <1>7 DEF ClientMessage, FlagsAgree
  <2>2. /\ due' = [due EXCEPT !.up = IF upstream = "open" THEN due.up + 1 ELSE due.up]
        /\ up' = IF upstream = "open" THEN up + 1 ELSE up
        /\ UNCHANGED <<client, upstream, clientOpen, upstreamOpen, status, down>>
    BY <1>7, <2>1 DEF ClientMessage
  <2>3. Relayed'
    BY <1>0, <2>2 DEF Relayed
  <2>4. TypeOK'
    BY <1>0, <2>1, <2>2 DEF TypeOK, Relayed
  <2>5. FlagsAgree' /\ StuckWithoutStatus'
    BY <1>0, <2>2 DEF FlagsAgree, StuckWithoutStatus
  <2>6. QED
    BY <2>3, <2>4, <2>5 DEF ProxyInv
<1>8. CASE ClientCloseFrame
  <2>1. FlagsAgree' /\ StuckWithoutStatus'
    BY <1>0, <1>8 DEF ClientCloseFrame, FlagsAgree, StuckWithoutStatus
  <2>2. QED
    BY <1>0, <1>8, <2>1, SocketsKeep DEF ClientCloseFrame
<1>9. CASE ClientError
  BY <1>0, <1>9, CloseBothKeeps DEF ClientError, FlagsAgree
<1>10. CASE ClientClosed({"open", "closing", "stuck"})
  <2>1. /\ client' = "closed" /\ upstream' = UpstreamClosing(upstream)
        /\ clientOpen' = FALSE /\ UNCHANGED <<upstreamOpen, status, pipes>>
    BY <1>10 DEF ClientClosed
  <2>2. upstream' \in {"aborted", "closing", "closed"}
    BY <1>0, <2>1 DEF UpstreamClosing, Closed
  <2>3. FlagsAgree' /\ StuckWithoutStatus'
    BY <2>1, <2>2 DEF FlagsAgree, StuckWithoutStatus
  <2>4. QED
    BY <1>0, <2>1, <2>2, <2>3, SocketsKeep
<1>11. CASE UNCHANGED vars
  BY <1>11 DEF vars, ProxyInv, TypeOK, FlagsAgree, Relayed, StuckWithoutStatus
<1>12. QED
  BY <1>1, <1>2, <1>3, <1>4, <1>5, <1>6, <1>7, <1>8, <1>9, <1>10, <1>11 DEF Next

\* The invariant holds whatever browser and upstream do.
THEOREM ProxyAlways == Spec => []ProxyInv
<1>1. ProxyInv /\ [Next]_vars => ProxyInv'
  BY ProxyStep
<1>2. QED
  BY <1>1, ProxyInit, PTL DEF Spec

\* The sockets, flags and counters of handleWs() keep their types; no more is
\* ever piped than came in.
THEOREM ProxyTypes == Spec => []TypeOK
<1>1. ProxyInv => TypeOK
  BY DEF ProxyInv
<1>2. QED
  BY <1>1, ProxyAlways, PTL

\* The flags clientOpen and upstreamOpen never hold a message back that comes
\* while both sockets are open.
THEOREM AllRelayed == Spec => []Relayed
<1>1. ProxyInv => Relayed
  BY DEF ProxyInv
<1>2. QED
  BY <1>1, ProxyAlways, PTL

\* upstream.on('close'): only an upstream that went without a status leaves the
\* browser's socket half closed.
THEOREM OnlyWithoutStatus == Spec => []StuckWithoutStatus
<1>1. ProxyInv => StuckWithoutStatus
  BY DEF ProxyInv
<1>2. QED
  BY <1>1, ProxyAlways, PTL

-----------------------------------------------------------------------------
(***************************************************************************)
(* Both sockets end                                                        *)
(***************************************************************************)

\* The weak fairness of FairSpec, with the guard of each action in the place of
\* ENABLED: ws reports a connection it has abandoned, and ends a closing
\* handshake that has begun.
SocketsEnd ==
  /\ []<>~(upstream = "aborted") \/ []<><<upstream = "aborted" /\ UpstreamFailed>>_vars
  /\ []<>~(upstream = "closing") \/ []<><<upstream = "closing" /\ UpstreamClosed>>_vars
  /\ []<>~(client = "closing") \/ []<><<ClientClosed({"closing"})>>_vars

\* The socket that is left is ending, or is stuck.
Ending ==
  /\ client = "closed" => upstream \in {"aborted", "closing", "closed"}
  /\ upstream = "closed" => client \in {"closing", "closed", "stuck"}

\* Every handler that closes one socket begins the end of the other.
LEMMA EndingStep ==
  ASSUME ProxyInv, Ending, [Next]_vars
  PROVE  Ending'
<1> USE DEF Ending
<1>1. client = "open" => clientOpen
  BY DEF ProxyInv, FlagsAgree
<1>2. CASE UpstreamOpened \/ UpstreamCloseFrame \/ UpstreamMessage \/ ClientMessage \/ ClientCloseFrame
  BY <1>2 DEF UpstreamOpened, UpstreamCloseFrame, UpstreamMessage, ClientMessage, ClientCloseFrame
<1>3. CASE UpstreamFailed
  BY <1>1, <1>3 DEF ProxyInv, TypeOK, UpstreamFailed, CloseBoth, Closed, UpstreamClosing, flags
<1>4. CASE UpstreamError
  BY <1>4 DEF UpstreamError, CloseBoth, Closed, UpstreamClosing, flags
<1>5. CASE UpstreamClosed
  BY <1>1, <1>5 DEF ProxyInv, TypeOK, UpstreamClosed
<1>6. CASE ClientError
  BY <1>6 DEF ClientError, CloseBoth, Closed, UpstreamClosing, flags
<1>7. CASE ClientClosed({"open", "closing", "stuck"})
  BY <1>7 DEF ProxyInv, TypeOK, ClientClosed, Closed, UpstreamClosing
<1>8. CASE UNCHANGED vars
  BY <1>8 DEF vars
<1>9. QED
  BY <1>2, <1>3, <1>4, <1>5, <1>6, <1>7, <1>8 DEF Next

\* No socket is left open by the end of the other.
LEMMA EndingAlways == Spec => []Ending
<1>1. Init => Ending
  BY DEF Init, Ending
<1>2. ProxyInv /\ Ending /\ [Next]_vars => Ending'
  BY EndingStep
<1>3. QED
  BY <1>1, <1>2, ProxyAlways, PTL DEF Spec

\* What an ending socket may become.
LEMMA UpstreamGoesOn ==
  ASSUME [Next]_vars, ProxyInv
  PROVE  /\ upstream = "aborted" => (upstream = "aborted")' \/ (upstream = "closed")'
         /\ upstream = "closing" => (upstream = "closing")' \/ (upstream = "closed")'
         /\ upstream = "closed" => (upstream = "closed")'
BY DEF Next, vars, UpstreamOpened, UpstreamFailed, UpstreamError, UpstreamCloseFrame,
       UpstreamClosed, UpstreamMessage, ClientMessage, ClientCloseFrame, ClientError,
       ClientClosed, CloseBoth, Closed, UpstreamClosing, flags

\* What the ending socket of the browser may become.
LEMMA ClientGoesOn ==
  ASSUME [Next]_vars, ProxyInv
  PROVE  /\ client = "closing" => (client = "closing")' \/ (client = "closed")'
         /\ client = "closed" => (client = "closed")'
BY DEF Next, vars, UpstreamOpened, UpstreamFailed, UpstreamError, UpstreamCloseFrame,
       UpstreamClosed, UpstreamMessage, ClientMessage, ClientCloseFrame, ClientError,
       ClientClosed, CloseBoth, Closed, UpstreamClosing, flags

\* closeBoth() and the 'close' handlers: the end of either socket brings the end
\* of the other, unless the browser's is stuck.
THEOREM BothEnd == Spec /\ SocketsEnd => EndsTogether
<1>1. /\ <<upstream = "aborted" /\ UpstreamFailed>>_vars => (upstream = "closed")'
      /\ <<upstream = "closing" /\ UpstreamClosed>>_vars => (upstream = "closed")'
      /\ <<ClientClosed({"closing"})>>_vars => (client = "closed")'
  BY DEF UpstreamFailed, UpstreamClosed, ClientClosed, CloseBoth, UpstreamClosing, Closed
<1>2. /\ [Next]_vars /\ ProxyInv /\ upstream = "aborted"
           => (upstream = "aborted")' \/ (upstream = "closed")'
      /\ [Next]_vars /\ ProxyInv /\ upstream = "closing"
           => (upstream = "closing")' \/ (upstream = "closed")'
      /\ [Next]_vars /\ ProxyInv /\ client = "closing"
           => (client = "closing")' \/ (client = "closed")'
  BY UpstreamGoesOn, ClientGoesOn
<1>3. /\ Ending /\ client = "closed"
           => upstream = "aborted" \/ upstream = "closing" \/ upstream = "closed"
      /\ Ending /\ upstream = "closed"
           => client = "closing" \/ client \in {"closed", "stuck"}
      /\ client = "closed" => client \in {"closed", "stuck"}
  BY DEF Ending
<1>4. QED
  BY <1>1, <1>2, <1>3, ProxyAlways, EndingAlways, PTL DEF Spec, SocketsEnd, EndsTogether
=============================================================================
