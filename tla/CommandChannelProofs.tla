------------------------ MODULE CommandChannelProofs ------------------------
(***************************************************************************)
(* Proofs about CommandChannel, for every set of commands and connections  *)
(* and every way of cutting responses into chunks: it keeps one channel,   *)
(* tells its callers the truth, fails commands only with the connection    *)
(* they were written to, and implements the contract of AtMostOnceCall.    *)
(***************************************************************************)
EXTENDS CommandChannel, SequenceTheorems, TLAPS

\* What is under way: a frame that waits for the server has not been handled,
\* belongs to the connection it was written to and is there once; a response
\* chunk is of a command that was handled; one not written is not handled.
Wire ==
  /\ \A c \in Conns : \A i \in 1..Len(c2s[c]) :
       /\ via[c2s[c][i]] = c
       /\ call[c2s[c][i]] \notin {"idle", "waiting", "unsent"}
       /\ runs[c2s[c][i]] = 0
  /\ \A c \in Conns : \A i, j \in 1..Len(c2s[c]) : c2s[c][i] = c2s[c][j] => i = j
  /\ \A c \in Conns : \A i \in 1..Len(s2c[c]) : runs[s2c[c][i].cmd] = 1
  /\ \A d \in Cmds : call[d] \in {"idle", "waiting"} => runs[d] = 0

\* A failed socket is no longer this.sock; a destroyed client has no pending
\* command; a command in flight was written to some connection.
Ownership ==
  /\ \A c \in Conns : cst[c] = "failed" => sock = NoConn
  /\ destroyed => pending = {}
  /\ \A d \in Cmds : call[d] = "sent" => via[d] \in Conns

-----------------------------------------------------------------------------
(***************************************************************************)
(* Type correctness                                                        *)
(***************************************************************************)

\* A response is a sequence of chunks, all of its command.
LEMMA ReplyType ==
  ASSUME NEW d \in Cmds
  PROVE  /\ Reply(d) \in Seq(Chunk)
         /\ Len(Reply(d)) = Parts[d]
         /\ \A i \in 1..Len(Reply(d)) : Reply(d)[i].cmd = d
<1>1. Parts[d] \in Nat
  BY ChannelAssumption
<1>2. Reply(d) \in [1..Parts[d] -> Chunk]
  BY <1>1 DEF Reply, Chunk
<1>3. Reply(d) \in Seq(Chunk)
  BY <1>1, <1>2, SeqDef
<1>4. Len(Reply(d)) = Parts[d]
  BY <1>1, <1>3 DEF Reply
<1>5. QED
  BY <1>1, <1>3, <1>4 DEF Reply

\* write() keeps the types of what it assigns.
LEMMA WriteType ==
  ASSUME TypeOK, NEW d \in Cmds, Usable, Write(d)
  PROVE  /\ call' \in [Cmds -> CallState]
         /\ via' \in [Cmds -> Conns \cup {NoConn}]
         /\ pending' \in SUBSET Cmds
         /\ armed' \in SUBSET Cmds
         /\ c2s' \in [Conns -> Seq(Cmds)]
<1>1. sock \in Conns
  BY DEF Usable, TypeOK
<1>2. Append(c2s[sock], d) \in Seq(Cmds)
  BY <1>1 DEF TypeOK
<1>3. c2s' \in [Conns -> Seq(Cmds)]
  BY <1>1, <1>2 DEF Write, TypeOK
<1>4. QED
  BY <1>3 DEF Write, TypeOK, CallState

\* TypeOK is inductive by itself.
LEMMA TypeOKStep == TypeOK /\ [Next]_vars => TypeOK'
<1> SUFFICES ASSUME TypeOK, [Next]_vars PROVE TypeOK'
  OBVIOUS
<1> USE ChannelAssumption DEF TypeOK, CallState, ClientEnd, ServerEnd
<1>1. ASSUME NEW d \in Cmds, Dispatch(d) PROVE TypeOK'
  <2>1. CASE Usable /\ Write(d)
    BY <1>1, <2>1, WriteType DEF Dispatch, serverVars, history
  <2>2. CASE ~(Usable /\ Write(d))
    BY <1>1, <2>2 DEF Dispatch, Reject, serverVars, history
  <2>3. QED
    BY <2>1, <2>2
<1>2. ASSUME NEW d \in Cmds, EnsureConnected(d) PROVE TypeOK'
  <2>1. CASE Usable /\ Write(d)
    BY <1>2, <2>1, WriteType DEF EnsureConnected, serverVars, history
  <2>2. CASE ~(Usable /\ Write(d))
    BY <1>2, <2>2 DEF EnsureConnected, Reject, serverVars, history
  <2>3. QED
    BY <2>1, <2>2
<1>3. ASSUME NEW d \in Cmds, Timeout(d) PROVE TypeOK'
  BY <1>3 DEF Timeout, serverVars, history
<1>4. ASSUME NEW d \in Cmds, WriteError(d) PROVE TypeOK'
  <2>1. via[d] \in Conns => SubSeq(c2s[via[d]], 1, Len(c2s[via[d]]) - 1) \in Seq(Cmds)
    OBVIOUS
  <2>2. c2s' \in [Conns -> Seq(Cmds)]
    BY <1>4, <2>1 DEF WriteError
  <2>3. QED
    BY <1>4, <2>2 DEF WriteError, serverVars, history
<1>5. ASSUME NEW c \in Conns, ConnectOk(c) PROVE TypeOK'
  BY <1>5 DEF ConnectOk, serverVars, history
<1>6. ASSUME NEW c \in Conns, ErrorEvent(c) PROVE TypeOK'
  BY <1>6 DEF ErrorEvent, FailPending, ScheduleReconnect, serverVars, history
<1>7. ASSUME NEW c \in Conns, CloseEvent(c) PROVE TypeOK'
  <2>1. call' \in [Cmds -> CallState] /\ pending' \in SUBSET Cmds /\ armed' \in SUBSET Cmds
    BY <1>7 DEF CloseEvent, FailPending
  <2>2. timers' \in Nat /\ sock' \in Conns \cup {NoConn}
    BY <1>7 DEF CloseEvent, ScheduleReconnect
  <2>3. cst' \in [Conns -> ClientEnd] /\ srv' \in [Conns -> ServerEnd]
    BY <1>7 DEF CloseEvent
  <2>4. c2s' \in [Conns -> Seq(Cmds)] /\ s2c' \in [Conns -> Seq(Chunk)]
    BY <1>7 DEF CloseEvent
  <2>5. QED
    BY <1>7, <2>1, <2>2, <2>3, <2>4 DEF CloseEvent, serverVars, history
<1>8. ASSUME NEW c \in Conns, DataChunk(c) PROVE TypeOK'
  <2>1. Head(s2c[c]) \in Chunk /\ Tail(s2c[c]) \in Seq(Chunk)
    BY <1>8, HeadTailProperties DEF DataChunk
  <2>2. Append(recvBuf, Head(s2c[c])) \in Seq(Chunk)
    BY <2>1
  <2>3. s2c' \in [Conns -> Seq(Chunk)] /\ cst' \in [Conns -> ClientEnd]
    <3>1. <<>> \in Seq(Chunk)
      BY EmptySeq
    <3>2. CASE Len(Append(recvBuf, Head(s2c[c]))) > RecvMax
      BY <1>8, <3>1, <3>2 DEF DataChunk
    <3>3. CASE ~(Len(Append(recvBuf, Head(s2c[c]))) > RecvMax)
      BY <1>8, <2>1, <3>3 DEF DataChunk
    <3>4. QED
      BY <3>2, <3>3
  <2>4. QED
    BY <1>8, <2>2, <2>3 DEF DataChunk, serverVars, history
<1>9. ASSUME NEW c \in Conns, DataFrame(c) PROVE TypeOK'
  <2>1. Head(s2c[c]) \in Chunk /\ Tail(s2c[c]) \in Seq(Chunk)
    BY <1>9, HeadTailProperties DEF DataFrame
  <2>2. Head(s2c[c]).cmd \in Cmds
    BY <2>1 DEF Chunk
  <2>3. s2c' \in [Conns -> Seq(Chunk)] /\ recvBuf' \in Seq(Chunk)
    BY <1>9, <2>1 DEF DataFrame
  <2>4. pending' \in SUBSET Cmds /\ armed' \in SUBSET Cmds /\ call' \in [Cmds -> CallState]
    BY <1>9, <2>2 DEF DataFrame, DispatchFrame
  <2>5. QED
    BY <1>9, <2>2, <2>3, <2>4 DEF DataFrame, serverVars
<1>10. ASSUME NEW c \in Conns, Reconnect(c) PROVE TypeOK'
  BY <1>10 DEF Reconnect, serverVars
<1>11. CASE ReconnectAfterDestroy
  BY <1>11 DEF ReconnectAfterDestroy, serverVars, history
<1>12. CASE Destroy
  BY <1>12 DEF Destroy, FailPending, serverVars, history
<1>13. CASE PollAccept
  BY <1>13 DEF PollAccept, Released, Discarded, clientVars, history
<1>14. ASSUME NEW c \in Conns, ServeFrame(c) PROVE TypeOK'
  <2>1. Reply(Head(c2s[c])) \in Seq(Chunk)
    BY <1>14, ReplyType DEF ServeFrame
  <2>2. QED
    BY <1>14, <2>1 DEF ServeFrame, clientVars, history
<1>15. CASE ServeDone
  BY <1>15 DEF ServeDone, clientVars, history
<1>16. ASSUME NEW c \in Conns, ServeClose(c) PROVE TypeOK'
  BY <1>16 DEF ServeClose, Released, Discarded, clientVars, history
<1>17. CASE ServerStop
  <2>1. s2c' \in [Conns -> Seq(Chunk)]
    <3>1. PICK c \in Conns : \E k \in 0..Len(s2c[c]) : s2c' = [s2c EXCEPT ![c] = SubSeq(@, 1, k)]
      BY <1>17 DEF ServerStop
    <3>2. PICK k \in 0..Len(s2c[c]) : s2c' = [s2c EXCEPT ![c] = SubSeq(@, 1, k)]
      BY <3>1
    <3>3. SubSeq(s2c[c], 1, k) \in Seq(Chunk)
      BY <3>1, SubSeqProperties, ElementOfSeq
    <3>4. QED
      BY <3>2, <3>3
  <2>2. srv' \in [Conns -> ServerEnd] /\ c2s' \in [Conns -> Seq(Cmds)]
    BY <1>17, EmptySeq DEF ServerStop, Released, Discarded
  <2>3. UNCHANGED <<clientVars, runs, history>> /\ listening' = FALSE /\ todo' = {} /\ busy' = NoConn
    BY <1>17 DEF ServerStop
  <2>4. QED
    BY <2>1, <2>2, <2>3 DEF clientVars, history
<1>18. CASE StartCommandServer
  BY <1>18 DEF StartCommandServer, clientVars, history
<1>19. CASE UNCHANGED vars
  BY <1>19 DEF vars, clientVars, serverVars, history
<1>20. QED
  BY <1>1, <1>2, <1>3, <1>4, <1>5, <1>6, <1>7, <1>8, <1>9, <1>10, <1>11, <1>12, <1>13, <1>14,
     <1>15, <1>16, <1>17, <1>18, <1>19
  DEF Next, ClientNext, ServerNext

\* The variables of both processes keep their types, whatever the network,
\* the callers and the terminal do.
THEOREM TypeCorrect == Spec => []TypeOK
<1>1. Init => TypeOK
  <2>1. <<>> \in Seq(Cmds) /\ <<>> \in Seq(Chunk)
    BY EmptySeq
  <2>2. SUFFICES ASSUME Init PROVE TypeOK
    OBVIOUS
  <2>3. /\ c2s \in [Conns -> Seq(Cmds)]
        /\ s2c \in [Conns -> Seq(Chunk)]
        /\ recvBuf \in Seq(Chunk)
    BY <2>1, <2>2 DEF Init
  <2>4. QED
    BY <2>2, <2>3 DEF Init, TypeOK, CallState, ClientEnd, ServerEnd
<1>2. QED
  BY <1>1, TypeOKStep, PTL DEF Spec

-----------------------------------------------------------------------------
(***************************************************************************)
(* One channel                                                             *)
(***************************************************************************)

\* OneChannel is inductive once the types are known: 'error' and 'close' of
\* one socket schedule one reconnect between them, and its timer opens one.
LEMMA OneChannelStep == TypeOK /\ OneChannel /\ [Next]_vars => OneChannel'
<1> SUFFICES ASSUME TypeOK, OneChannel, [Next]_vars PROVE OneChannel'
  OBVIOUS
<1> USE ChannelAssumption DEF OneChannel, Held
<1>0. ASSUME UNCHANGED <<sock, cst, timers, destroyed>> PROVE OneChannel'
  BY <1>0
<1>1. ASSUME NEW c \in Conns, ConnectOk(c) PROVE OneChannel'
  BY <1>1 DEF ConnectOk, TypeOK
<1>2. ASSUME NEW c \in Conns, ErrorEvent(c) PROVE OneChannel'
  <2>1. CASE destroyed
    BY <1>2, <2>1 DEF ErrorEvent
  <2>2. CASE ~destroyed
    <3>1. c \in Held
      BY <1>2 DEF ErrorEvent
    <3>2. timers = 0 /\ Held = {c}
      BY <2>2, <3>1
    <3>3. Held' = {}
      BY <1>2, <3>2 DEF ErrorEvent, TypeOK
    <3>4. timers' = 1 /\ sock' = NoConn /\ destroyed' = FALSE
      BY <1>2, <2>2, <3>2 DEF ErrorEvent, ScheduleReconnect
    <3>5. QED
      BY <3>3, <3>4
  <2>3. QED
    BY <2>1, <2>2
<1>3. ASSUME NEW c \in Conns, CloseEvent(c) PROVE OneChannel'
  <2>1. CASE destroyed
    BY <1>3, <2>1 DEF CloseEvent
  <2>2. CASE ~destroyed /\ cst[c] = "failed"
    <3>1. Held' = Held
      BY <1>3, <2>2 DEF CloseEvent, TypeOK
    <3>2. QED
      BY <1>3, <2>2, <3>1 DEF CloseEvent
  <2>3. CASE ~destroyed /\ cst[c] # "failed"
    <3>1. c \in Held
      BY <1>3, <2>3 DEF CloseEvent
    <3>2. timers = 0 /\ Held = {c}
      BY <2>3, <3>1
    <3>3. Held' = {}
      BY <1>3, <3>2 DEF CloseEvent, TypeOK
    <3>4. timers' = 1 /\ sock' = NoConn /\ destroyed' = FALSE
      BY <1>3, <2>3, <3>2 DEF CloseEvent, ScheduleReconnect
    <3>5. QED
      BY <3>3, <3>4
  <2>4. QED
    BY <2>1, <2>2, <2>3
<1>4. ASSUME NEW c \in Conns, DataChunk(c) PROVE OneChannel'
  <2>1. Held' = Held
    BY <1>4 DEF DataChunk, TypeOK
  <2>2. QED
    BY <1>4, <2>1 DEF DataChunk
<1>5. ASSUME NEW c \in Conns, Reconnect(c) PROVE OneChannel'
  <2>1. ~destroyed /\ timers = 1 /\ Held = {}
    BY <1>5 DEF Reconnect
  <2>2. Held' = {c}
    BY <1>5, <2>1 DEF Reconnect, TypeOK
  <2>3. timers' = 0 /\ sock' = c /\ c # NoConn
    BY <1>5, <2>1 DEF Reconnect
  <2>4. QED
    BY <1>5, <2>2, <2>3 DEF Reconnect
<1>6. CASE ReconnectAfterDestroy
  BY <1>6 DEF ReconnectAfterDestroy
<1>7. CASE Destroy
  BY <1>7 DEF Destroy
<1>8. ASSUME NEW d \in Cmds, Dispatch(d) \/ EnsureConnected(d) \/ Timeout(d) \/ WriteError(d)
      PROVE  OneChannel'
  BY <1>0, <1>8 DEF Dispatch, EnsureConnected, Timeout, WriteError
<1>9. ASSUME NEW c \in Conns, DataFrame(c) PROVE OneChannel'
  BY <1>0, <1>9 DEF DataFrame
<1>10. CASE ServerNext
  BY <1>0, <1>10 DEF ServerNext, PollAccept, ServeFrame, ServeDone, ServeClose, ServerStop,
                     StartCommandServer, clientVars
<1>11. CASE UNCHANGED vars
  BY <1>0, <1>11 DEF vars, clientVars
<1>12. QED
  BY <1>1, <1>2, <1>3, <1>4, <1>5, <1>6, <1>7, <1>8, <1>9, <1>10, <1>11 DEF Next, ClientNext

\* The reconnect storm cannot come back: a client that is not destroyed has
\* either one socket that will report its end or one reconnect timer.
THEOREM SingleChannel == Spec => []OneChannel
<1>1. Init => OneChannel
  BY ChannelAssumption DEF Init, OneChannel, Held
<1>2. QED
  BY <1>1, OneChannelStep, TypeCorrect, PTL DEF Spec

-----------------------------------------------------------------------------
(***************************************************************************)
(* The pending map                                                         *)
(***************************************************************************)

\* failPending() settles exactly the commands in flight.
LEMMA FailPendingAccounts ==
  ASSUME TypeOK, Accounted, FailPending
  PROVE  Accounted'
  BY DEF TypeOK, Accounted, Unsettled, FailPending

\* write() puts exactly its command in flight.
LEMMA WriteAccounts ==
  ASSUME TypeOK, Accounted, NEW d \in Cmds, Write(d)
  PROVE  Accounted'
  BY DEF TypeOK, Accounted, Unsettled, Write

\* Accounted is inductive once the types are known.
LEMMA AccountedStep == TypeOK /\ Accounted /\ [Next]_vars => Accounted'
<1> SUFFICES ASSUME TypeOK, Accounted, [Next]_vars PROVE Accounted'
  OBVIOUS
<1>0. ASSUME UNCHANGED <<call, pending, armed>> PROVE Accounted'
  BY <1>0 DEF Accounted, Unsettled
<1>1. ASSUME NEW d \in Cmds, Dispatch(d) \/ EnsureConnected(d) PROVE Accounted'
  <2>1. CASE Write(d)
    BY <2>1, WriteAccounts
  <2>2. CASE ~Write(d)
    BY <1>1, <2>2 DEF Dispatch, EnsureConnected, Reject, Accounted, Unsettled, TypeOK
  <2>3. QED
    BY <2>1, <2>2
<1>2. ASSUME NEW d \in Cmds, Timeout(d) PROVE Accounted'
  BY <1>2 DEF Timeout, Accounted, Unsettled, TypeOK
<1>3. ASSUME NEW d \in Cmds, WriteError(d) PROVE Accounted'
  BY <1>3 DEF WriteError, Accounted, Unsettled, TypeOK
<1>4. ASSUME NEW c \in Conns, ErrorEvent(c) \/ CloseEvent(c) PROVE Accounted'
  BY <1>4, FailPendingAccounts DEF ErrorEvent, CloseEvent
<1>5. CASE Destroy
  BY <1>5, FailPendingAccounts DEF Destroy
<1>6. ASSUME NEW c \in Conns, DataFrame(c) PROVE Accounted'
  BY <1>6 DEF DataFrame, DispatchFrame, Accounted, Unsettled, TypeOK
<1>7. ASSUME NEW c \in Conns, ConnectOk(c) \/ DataChunk(c) \/ Reconnect(c) PROVE Accounted'
  BY <1>0, <1>7 DEF ConnectOk, DataChunk, Reconnect
<1>8. CASE ReconnectAfterDestroy
  BY <1>0, <1>8 DEF ReconnectAfterDestroy
<1>9. CASE ServerNext
  BY <1>0, <1>9 DEF ServerNext, PollAccept, ServeFrame, ServeDone, ServeClose, ServerStop,
                    StartCommandServer, clientVars
<1>10. CASE UNCHANGED vars
  BY <1>0, <1>10 DEF vars, clientVars
<1>11. QED
  BY <1>1, <1>2, <1>3, <1>4, <1>5, <1>6, <1>7, <1>8, <1>9, <1>10 DEF Next, ClientNext

\* No command is in flight without a map entry and a running timer, and no
\* timer outlives its command, across errors, closes and late replies.
THEOREM PendingAccounted == Spec => []Accounted
<1>1. Init => Accounted
  BY DEF Init, Accounted, Unsettled
<1>2. QED
  BY <1>1, AccountedStep, TypeCorrect, PTL DEF Spec

\* Ownership is inductive once the types, OneChannel and Accounted are known.
LEMMA OwnershipStep ==
  TypeOK /\ OneChannel /\ Accounted /\ Ownership /\ [Next]_vars => Ownership'
<1> SUFFICES ASSUME TypeOK, OneChannel, Accounted, Ownership, [Next]_vars PROVE Ownership'
  OBVIOUS
<1> USE ChannelAssumption DEF Ownership, TypeOK
<1>0. ASSUME UNCHANGED <<call, via, pending, sock, cst, destroyed>> PROVE Ownership'
  BY <1>0
<1>1. ASSUME NEW d \in Cmds, Dispatch(d) \/ EnsureConnected(d) PROVE Ownership'
  <2>1. CASE Usable /\ Write(d)
    <3>1. ~destroyed /\ sock \in Conns
      BY <2>1 DEF OneChannel, Usable
    <3>2. UNCHANGED <<sock, cst, destroyed>>
      BY <1>1 DEF Dispatch, EnsureConnected
    <3>3. call' = [call EXCEPT ![d] = "sent"] /\ via' = [via EXCEPT ![d] = sock]
      BY <2>1 DEF Write
    <3>4. \A e \in Cmds : call'[e] = "sent" => via'[e] \in Conns
      BY <3>1, <3>3
    <3>5. QED
      BY <3>1, <3>2, <3>4
  <2>2. CASE ~(Usable /\ Write(d))
    BY <1>1, <2>2 DEF Dispatch, EnsureConnected, Reject
  <2>3. QED
    BY <2>1, <2>2
<1>2. ASSUME NEW d \in Cmds, Timeout(d) \/ WriteError(d) PROVE Ownership'
  BY <1>2 DEF Timeout, WriteError
<1>3. ASSUME NEW c \in Conns, ErrorEvent(c) PROVE Ownership'
  BY <1>3 DEF ErrorEvent, FailPending
<1>4. ASSUME NEW c \in Conns, CloseEvent(c) PROVE Ownership'
  BY <1>4 DEF CloseEvent, FailPending
<1>5. CASE Destroy
  BY <1>5 DEF Destroy, FailPending
<1>6. ASSUME NEW c \in Conns, DataFrame(c) PROVE Ownership'
  BY <1>6 DEF DataFrame, DispatchFrame
<1>7. ASSUME NEW c \in Conns, ConnectOk(c) \/ DataChunk(c) \/ Reconnect(c) PROVE Ownership'
  BY <1>7 DEF ConnectOk, DataChunk, Reconnect
<1>8. CASE ReconnectAfterDestroy
  BY <1>0, <1>8 DEF ReconnectAfterDestroy
<1>9. CASE ServerNext
  BY <1>0, <1>9 DEF ServerNext, PollAccept, ServeFrame, ServeDone, ServeClose, ServerStop,
                    StartCommandServer, clientVars
<1>10. CASE UNCHANGED vars
  BY <1>0, <1>10 DEF vars, clientVars
<1>11. QED
  BY <1>1, <1>2, <1>3, <1>4, <1>5, <1>6, <1>7, <1>8, <1>9, <1>10 DEF Next, ClientNext

\* failPending() empties the whole map, yet no command is ever failed while
\* the connection it was written to is good.
THEOREM LossIsLocal == Spec => LostWithItsConnection
<1> DEFINE A == \A d \in Cmds : call[d] = "sent" /\ call'[d] = "lost"
                  => cst'[via[d]] \notin {"connecting", "open"}
<1>1. Init => OneChannel /\ Accounted /\ Ownership
  BY ChannelAssumption DEF Init, OneChannel, Held, Accounted, Unsettled, Ownership
<1>2. TypeOK /\ OneChannel /\ Accounted /\ Ownership /\ [Next]_vars => [A]_vars
  <2> SUFFICES ASSUME TypeOK, OneChannel, Accounted, Ownership, Next,
                      NEW d \in Cmds, call[d] = "sent", call'[d] = "lost"
               PROVE  cst'[via[d]] \notin {"connecting", "open"}
    OBVIOUS
  <2> USE ChannelAssumption DEF TypeOK
  <2>0. via[d] \in Conns /\ d \in pending /\ ~destroyed
    BY DEF Ownership, Accounted, Unsettled
  <2>1. ASSUME NEW c \in Conns, ErrorEvent(c) PROVE cst'[via[d]] \notin {"connecting", "open"}
    <3>1. Held = {c}
      BY <2>0, <2>1 DEF OneChannel, Held, ErrorEvent
    <3>2. QED
      BY <2>0, <2>1, <3>1 DEF Held, ErrorEvent
  <2>2. ASSUME NEW c \in Conns, CloseEvent(c) PROVE cst'[via[d]] \notin {"connecting", "open"}
    <3>1. Held \subseteq {c}
      BY <2>0, <2>2 DEF OneChannel, Held, CloseEvent, Ownership
    <3>2. QED
      BY <2>0, <2>2, <3>1 DEF Held, CloseEvent
  <2>3. CASE Destroy
    <3>1. Held \subseteq {sock}
      BY <2>0 DEF OneChannel
    <3>2. QED
      BY <2>0, <2>3, <3>1 DEF Held, Destroy
  <2>4. ASSUME NEW e \in Cmds, WriteError(e) PROVE cst'[via[d]] \notin {"connecting", "open"}
    BY <2>0, <2>4 DEF WriteError
  <2>5. ASSUME NEW e \in Cmds, Dispatch(e) \/ EnsureConnected(e) \/ Timeout(e) PROVE FALSE
    BY <2>5 DEF Dispatch, EnsureConnected, Timeout, Write, Reject
  <2>6. ASSUME NEW c \in Conns, DataFrame(c) PROVE FALSE
    BY <2>6 DEF DataFrame, DispatchFrame
  <2>7. ASSUME NEW c \in Conns, ConnectOk(c) \/ DataChunk(c) \/ Reconnect(c) PROVE FALSE
    BY <2>7 DEF ConnectOk, DataChunk, Reconnect
  <2>8. CASE ReconnectAfterDestroy \/ ServerNext
    BY <2>8 DEF ReconnectAfterDestroy, ServerNext, PollAccept, ServeFrame, ServeDone, ServeClose,
                ServerStop, StartCommandServer, clientVars
  <2>9. QED
    BY <2>1, <2>2, <2>3, <2>4, <2>5, <2>6, <2>7, <2>8 DEF Next, ClientNext
<1>3. QED
  BY <1>1, <1>2, OneChannelStep, AccountedStep, OwnershipStep, TypeCorrect, PTL
  DEF Spec, LostWithItsConnection

-----------------------------------------------------------------------------
(***************************************************************************)
(* At most once                                                            *)
(***************************************************************************)

\* Nothing comes into being: frames are dropped at the end, chunks anywhere,
\* nothing runs, and no command goes back to not having been written.
Shrinks ==
  /\ UNCHANGED <<via, runs>>
  /\ \A d \in Cmds :
       /\ call'[d] \in {"idle", "waiting", "unsent"} => call[d] \in {"idle", "waiting", "unsent"}
       /\ call'[d] \in {"idle", "waiting"} => call[d] \in {"idle", "waiting"}
  /\ \A c \in Conns :
       /\ Len(c2s'[c]) <= Len(c2s[c])
       /\ \A i \in 1..Len(c2s'[c]) : c2s'[c][i] = c2s[c][i]
       /\ \A i \in 1..Len(s2c'[c]) : \E j \in 1..Len(s2c[c]) : s2c'[c][i] = s2c[c][j]

\* The elements of the two wires.
LEMMA WireElements ==
  ASSUME TypeOK, NEW c \in Conns
  PROVE  /\ c2s[c] \in Seq(Cmds) /\ Len(c2s[c]) \in Nat
         /\ \A i \in 1..Len(c2s[c]) : c2s[c][i] \in Cmds
         /\ s2c[c] \in Seq(Chunk) /\ Len(s2c[c]) \in Nat
         /\ \A i \in 1..Len(s2c[c]) : s2c[c][i].cmd \in Cmds
<1>1. c2s[c] \in Seq(Cmds) /\ s2c[c] \in Seq(Chunk)
  BY DEF TypeOK
<1>2. \A i \in 1..Len(s2c[c]) : s2c[c][i] \in Chunk
  BY <1>1, ElementOfSeq
<1>3. \A x \in Chunk : x.cmd \in Cmds
  BY DEF Chunk
<1>4. \A i \in 1..Len(c2s[c]) : c2s[c][i] \in Cmds
  BY <1>1, ElementOfSeq
<1>5. QED
  BY <1>1, <1>2, <1>3, <1>4

\* A step in which nothing comes into being preserves Wire.
LEMMA WireShrinks ==
  ASSUME TypeOK, TypeOK', Wire, Shrinks
  PROVE  Wire'
<1> USE DEF Wire, Shrinks
<1>0. \A c \in Conns : \A i \in 1..Len(c2s'[c]) :
        i \in 1..Len(c2s[c]) /\ c2s'[c][i] = c2s[c][i] /\ c2s[c][i] \in Cmds
  <2> SUFFICES ASSUME NEW c \in Conns, NEW i \in 1..Len(c2s'[c])
               PROVE  i \in 1..Len(c2s[c]) /\ c2s'[c][i] = c2s[c][i] /\ c2s[c][i] \in Cmds
    OBVIOUS
  <2>1. Len(c2s[c]) \in Nat /\ Len(c2s'[c]) \in Nat
    BY WireElements DEF TypeOK
  <2>2. Len(c2s'[c]) <= Len(c2s[c]) /\ c2s'[c][i] = c2s[c][i]
    BY DEF Shrinks
  <2>3. i \in 1..Len(c2s[c])
    BY <2>1, <2>2
  <2>4. QED
    BY <2>2, <2>3, WireElements
<1>1. \A c \in Conns : \A i \in 1..Len(c2s'[c]) :
        /\ via'[c2s'[c][i]] = c
        /\ call'[c2s'[c][i]] \notin {"idle", "waiting", "unsent"}
        /\ runs'[c2s'[c][i]] = 0
  BY <1>0
<1>2. \A c \in Conns : \A i, j \in 1..Len(c2s'[c]) : c2s'[c][i] = c2s'[c][j] => i = j
  BY <1>0
<1>3. \A c \in Conns : \A i \in 1..Len(s2c'[c]) : runs'[s2c'[c][i].cmd] = 1
  OBVIOUS
<1>4. \A d \in Cmds : call'[d] \in {"idle", "waiting"} => runs'[d] = 0
  OBVIOUS
<1>5. QED
  BY <1>1, <1>2, <1>3, <1>4

\* A command that was not written yet is put on the wire once.
LEMMA WireWrites ==
  ASSUME TypeOK, TypeOK', Wire, NEW d \in Cmds, call[d] \in {"idle", "waiting"},
         Usable, Write(d), UNCHANGED <<s2c, runs>>
  PROVE  Wire'
<1> USE DEF Wire
<1>1. sock \in Conns
  BY DEF Usable, TypeOK
<1>2. \A c \in Conns : \A i \in 1..Len(c2s[c]) : c2s[c][i] # d /\ c2s[c][i] \in Cmds
  BY WireElements
<1>3. \A c \in Conns : \A i \in 1..Len(c2s'[c]) :
        \/ i \in 1..Len(c2s[c]) /\ c2s'[c][i] = c2s[c][i]
        \/ c = sock /\ c2s'[c][i] = d /\ i = Len(c2s[c]) + 1
  BY <1>1 DEF Write, TypeOK
<1>4. /\ call' = [call EXCEPT ![d] = "sent"]
      /\ via' = [via EXCEPT ![d] = sock]
      /\ runs[d] = 0
  BY DEF Write
<1>5. \A c \in Conns : \A i \in 1..Len(c2s'[c]) :
        /\ via'[c2s'[c][i]] = c
        /\ call'[c2s'[c][i]] \notin {"idle", "waiting", "unsent"}
        /\ runs'[c2s'[c][i]] = 0
  <2> SUFFICES ASSUME NEW c \in Conns, NEW i \in 1..Len(c2s'[c])
               PROVE  /\ via'[c2s'[c][i]] = c
                      /\ call'[c2s'[c][i]] \notin {"idle", "waiting", "unsent"}
                      /\ runs'[c2s'[c][i]] = 0
    OBVIOUS
  <2>1. call \in [Cmds -> CallState] /\ via \in [Cmds -> Conns \cup {NoConn}] /\ runs' = runs
    BY DEF TypeOK
  <2>2. CASE i \in 1..Len(c2s[c]) /\ c2s'[c][i] = c2s[c][i]
    BY <1>2, <1>4, <2>1, <2>2
  <2>3. CASE c = sock /\ c2s'[c][i] = d
    BY <1>4, <2>1, <2>3
  <2>4. QED
    BY <1>3, <2>2, <2>3
<1>6. \A c \in Conns : \A i, j \in 1..Len(c2s'[c]) : c2s'[c][i] = c2s'[c][j] => i = j
  BY <1>2, <1>3
<1>7. \A e \in Cmds : call'[e] \in {"idle", "waiting"} => runs'[e] = 0
  BY <1>4 DEF TypeOK
<1>8. QED
  BY <1>5, <1>6, <1>7

\* A frame that is served leaves the wire for good, and the chunks of its
\* response are the first ones of its command.
LEMMA WireServes ==
  ASSUME TypeOK, TypeOK', Wire, NEW c \in Conns, ServeFrame(c)
  PROVE  Wire'
<1> DEFINE d == Head(c2s[c])
<1> USE DEF Wire
<1>1. /\ c2s[c] # <<>> /\ d = c2s[c][1] /\ d \in Cmds /\ 1 \in 1..Len(c2s[c])
      /\ Len(Tail(c2s[c])) = Len(c2s[c]) - 1
      /\ \A i \in 1..Len(Tail(c2s[c])) : Tail(c2s[c])[i] = c2s[c][i + 1] /\ i + 1 \in 1..Len(c2s[c])
  BY HeadTailProperties DEF ServeFrame, TypeOK
<1>2. /\ c2s' = [c2s EXCEPT ![c] = Tail(@)]
      /\ runs' = [runs EXCEPT ![d] = @ + 1]
      /\ call' = call /\ via' = via
  BY DEF ServeFrame, clientVars
<1>3. runs[d] = 0 /\ via[d] = c
  BY <1>1
<1>4. \A e \in Conns : \A i \in 1..Len(c2s'[e]) :
        \E j \in 1..Len(c2s[e]) :
          /\ c2s'[e][i] = c2s[e][j] /\ c2s[e][j] \in Cmds /\ c2s[e][j] # d
          /\ j = IF e = c THEN i + 1 ELSE i
  <2> SUFFICES ASSUME NEW e \in Conns, NEW i \in 1..Len(c2s'[e])
               PROVE  \E j \in 1..Len(c2s[e]) :
                        /\ c2s'[e][i] = c2s[e][j] /\ c2s[e][j] \in Cmds /\ c2s[e][j] # d
                        /\ j = IF e = c THEN i + 1 ELSE i
    OBVIOUS
  <2>1. \A j \in 1..Len(c2s[e]) : c2s[e][j] \in Cmds
    BY WireElements
  <2>2. CASE e = c
    <3>1. c2s'[e] = Tail(c2s[c])
      BY <1>2, <2>2 DEF TypeOK
    <3>2. i \in 1..Len(Tail(c2s[c])) /\ i + 1 \in 1..Len(c2s[c]) /\ c2s'[e][i] = c2s[c][i + 1] /\ i \in Nat
      BY <1>1, <3>1
    <3>3. c2s[c][i + 1] # d
      BY <1>1, <3>2
    <3>4. QED
      BY <2>1, <2>2, <3>2, <3>3
  <2>3. CASE e # c
    <3>1. c2s'[e] = c2s[e]
      BY <1>2, <2>3 DEF TypeOK
    <3>2. c2s[e][i] # d
      BY <1>3, <2>3, <3>1
    <3>3. QED
      BY <2>1, <2>3, <3>1, <3>2
  <2>4. QED
    BY <2>2, <2>3
<1>5. \A e \in Conns : \A i \in 1..Len(c2s'[e]) :
        /\ via'[c2s'[e][i]] = e
        /\ call'[c2s'[e][i]] \notin {"idle", "waiting", "unsent"}
        /\ runs'[c2s'[e][i]] = 0
  <2>1. \A x \in Cmds : x # d => runs'[x] = runs[x]
    BY <1>2 DEF TypeOK
  <2>2. QED
    BY <1>2, <1>4, <2>1
<1>6. \A e \in Conns : \A i, j \in 1..Len(c2s'[e]) : c2s'[e][i] = c2s'[e][j] => i = j
  BY <1>4
<1>7. \A e \in Conns : \A i \in 1..Len(s2c'[e]) : runs'[s2c'[e][i].cmd] = 1
  <2>1. runs'[d] = 1
    BY <1>1, <1>2, <1>3 DEF TypeOK
  <2>2. \A e \in Conns : \A i \in 1..Len(s2c[e]) :
          s2c[e][i].cmd \in Cmds /\ s2c[e][i].cmd # d /\ runs'[s2c[e][i].cmd] = 1
    <3>1. \A x \in Cmds : x # d => runs'[x] = runs[x]
      BY <1>2 DEF TypeOK
    <3>2. QED
      BY <1>3, <3>1, WireElements
  <2>3. \A e \in Conns : \A i \in 1..Len(s2c'[e]) :
          \/ i \in 1..Len(s2c[e]) /\ s2c'[e][i] = s2c[e][i]
          \/ s2c'[e][i].cmd = d
    <3>1. /\ Len(s2c[c] \o Reply(d)) = Len(s2c[c]) + Len(Reply(d))
          /\ \A i \in 1..Len(s2c[c]) + Len(Reply(d)) :
               (s2c[c] \o Reply(d))[i] = IF i <= Len(s2c[c]) THEN s2c[c][i]
                                         ELSE Reply(d)[i - Len(s2c[c])]
      BY <1>1, ReplyType, ConcatProperties DEF TypeOK
    <3>2. Len(Reply(d)) \in Nat /\ \A i \in 1..Len(Reply(d)) : Reply(d)[i].cmd = d
      BY <1>1, ReplyType
    <3>3. \A i \in 1..Len(s2c[c] \o Reply(d)) :
            \/ i \in 1..Len(s2c[c]) /\ (s2c[c] \o Reply(d))[i] = s2c[c][i]
            \/ (s2c[c] \o Reply(d))[i].cmd = d
      <4> SUFFICES ASSUME NEW i \in 1..Len(s2c[c] \o Reply(d))
                   PROVE  \/ i \in 1..Len(s2c[c]) /\ (s2c[c] \o Reply(d))[i] = s2c[c][i]
                          \/ (s2c[c] \o Reply(d))[i].cmd = d
        OBVIOUS
      <4>1. Len(s2c[c]) \in Nat
        BY DEF TypeOK
      <4>2. CASE i <= Len(s2c[c])
        BY <3>1, <3>2, <4>1, <4>2
      <4>3. CASE ~(i <= Len(s2c[c]))
        <5> HIDE DEF d
        <5>0. i \in 1..Len(s2c[c]) + Len(Reply(d)) /\ Len(Reply(d)) \in Nat
          BY <3>1, <3>2
        <5>1. i - Len(s2c[c]) \in 1..Len(Reply(d)) /\ i \in 1..Len(s2c[c]) + Len(Reply(d))
          BY <5>0, <4>1, <4>3
        <5>2. (s2c[c] \o Reply(d))[i] = Reply(d)[i - Len(s2c[c])]
          BY <3>1, <4>3, <5>1
        <5>3. QED
          BY <3>2, <5>1, <5>2
      <4>4. QED
        BY <4>2, <4>3
    <3>4. s2c' = [s2c EXCEPT ![c] = @ \o Reply(d)] \/ s2c' = s2c
      BY DEF ServeFrame
    <3>5. QED
      BY <3>3, <3>4 DEF TypeOK
  <2>4. QED
    BY <2>1, <2>2, <2>3
<1>8. \A e \in Cmds : call'[e] \in {"idle", "waiting"} => runs'[e] = 0
  <2>1. \A x \in Cmds : x # d => runs'[x] = runs[x]
    BY <1>2 DEF TypeOK
  <2>2. call[d] \notin {"idle", "waiting"}
    BY <1>1
  <2>3. QED
    BY <1>2, <2>1, <2>2
<1>9. QED
  BY <1>5, <1>6, <1>7, <1>8

\* Discarding frames at the server's end only shortens the wire.
LEMMA DiscardedShrinks ==
  ASSUME TypeOK, NEW S, c2s' = Discarded(S)
  PROVE  \A c \in Conns : /\ Len(c2s'[c]) <= Len(c2s[c])
                          /\ \A i \in 1..Len(c2s'[c]) : c2s'[c][i] = c2s[c][i]
<1> SUFFICES ASSUME NEW c \in Conns
             PROVE  /\ Len(c2s'[c]) <= Len(c2s[c])
                    /\ \A i \in 1..Len(c2s'[c]) : c2s'[c][i] = c2s[c][i]
  OBVIOUS
<1>1. c2s'[c] = c2s[c] \/ c2s'[c] = <<>>
  BY DEF Discarded
<1>2. Len(<<>>) = 0 /\ Len(c2s[c]) \in Nat
  BY WireElements
<1>3. QED
  BY <1>1, <1>2

\* Wire is inductive once the types and Accounted are known.
LEMMA WireStep == TypeOK /\ Accounted /\ Wire /\ [Next]_vars => Wire'
<1> SUFFICES ASSUME TypeOK, Accounted, Wire, [Next]_vars PROVE Wire'
  OBVIOUS
<1>a. TypeOK'
  BY TypeOKStep
<1>b. \A c \in Conns : /\ Len(c2s[c]) \in Nat /\ Len(s2c[c]) \in Nat
                       /\ Len(<<>>) = 0
  BY WireElements
<1>0. ASSUME UNCHANGED <<via, runs, call, c2s, s2c>> PROVE Wire'
  BY <1>0 DEF Wire
<1>1. ASSUME NEW d \in Cmds, Dispatch(d) \/ EnsureConnected(d) PROVE Wire'
  <2>1. CASE Usable /\ Write(d)
    <3>1. call[d] \in {"idle", "waiting"} /\ UNCHANGED <<s2c, runs>>
      BY <1>1 DEF Dispatch, EnsureConnected, serverVars
    <3>2. QED
      BY <2>1, <3>1, <1>a, WireWrites
  <2>2. CASE ~(Usable /\ Write(d))
    <3>1. /\ call[d] \in {"idle", "waiting"}
          /\ call' = [call EXCEPT ![d] = "waiting"] \/ call' = [call EXCEPT ![d] = "unsent"]
          /\ UNCHANGED <<via, runs, c2s, s2c>>
      BY <1>1, <2>2 DEF Dispatch, EnsureConnected, Reject, serverVars
    <3>2. Shrinks
      BY <1>b, <3>1 DEF Shrinks, TypeOK
    <3>3. QED
      BY <3>2, <1>a, WireShrinks
  <2>3. QED
    BY <2>1, <2>2
<1>2. ASSUME NEW d \in Cmds, Timeout(d) PROVE Wire'
  <2>1. Shrinks
    BY <1>2, <1>b DEF Timeout, Shrinks, TypeOK, serverVars
  <2>2. QED
    BY <2>1, <1>a, WireShrinks
<1>3. ASSUME NEW d \in Cmds, WriteError(d) PROVE Wire'
  <2>1. /\ call' = [call EXCEPT ![d] = "lost"] /\ UNCHANGED <<via, runs, s2c>>
        /\ c2s' = [c2s EXCEPT ![via[d]] = SubSeq(@, 1, Len(@) - 1)]
        /\ c2s[via[d]] # <<>>
    BY <1>3 DEF WriteError, serverVars
  <2>2. \A c \in Conns : /\ Len(c2s'[c]) <= Len(c2s[c])
                         /\ \A i \in 1..Len(c2s'[c]) : c2s'[c][i] = c2s[c][i]
    <3> SUFFICES ASSUME NEW c \in Conns
                 PROVE  /\ Len(c2s'[c]) <= Len(c2s[c])
                        /\ \A i \in 1..Len(c2s'[c]) : c2s'[c][i] = c2s[c][i]
      OBVIOUS
    <3>1. CASE c = via[d]
      <4>1. c2s[c] \in Seq(Cmds) /\ Len(c2s[c]) \in Nat \ {0}
        BY <2>1, <3>1, WireElements, EmptySeq
      <4>2. c2s'[c] = SubSeq(c2s[c], 1, Len(c2s[c]) - 1)
        BY <2>1, <3>1 DEF TypeOK
      <4>3. QED
        BY <4>1, <4>2
    <3>2. CASE c # via[d]
      BY <1>b, <2>1, <3>2 DEF TypeOK
    <3>3. QED
      BY <3>1, <3>2
  <2>3. Shrinks
    BY <2>1, <2>2 DEF Shrinks, TypeOK
  <2>4. QED
    BY <2>3, <1>a, WireShrinks
<1>4. ASSUME FailPending, UNCHANGED <<via, runs>>,
             \A c \in Conns : /\ c2s'[c] = c2s[c] \/ c2s'[c] = <<>>
                              /\ s2c'[c] = s2c[c] \/ s2c'[c] = <<>>
      PROVE  Wire'
  <2>1. Shrinks
    BY <1>4, <1>b DEF FailPending, Shrinks, Accounted, Unsettled
  <2>2. QED
    BY <2>1, <1>a, WireShrinks
<1>5. ASSUME NEW c \in Conns, ErrorEvent(c) PROVE Wire'
  BY <1>4, <1>5 DEF ErrorEvent, serverVars, TypeOK
<1>6. ASSUME NEW c \in Conns, CloseEvent(c) PROVE Wire'
  BY <1>4, <1>6 DEF CloseEvent, serverVars, TypeOK
<1>7. CASE Destroy
  BY <1>4, <1>7 DEF Destroy, serverVars, TypeOK
<1>8. ASSUME NEW c \in Conns, DataChunk(c) \/ DataFrame(c) PROVE Wire'
  <2>1. s2c[c] # <<>> /\ s2c[c] \in Seq(Chunk) /\ UNCHANGED <<via, runs, c2s>>
    BY <1>8 DEF DataChunk, DataFrame, serverVars, TypeOK
  <2>2. s2c' = [s2c EXCEPT ![c] = Tail(@)] \/ s2c' = [s2c EXCEPT ![c] = <<>>]
    BY <1>8 DEF DataChunk, DataFrame
  <2>3. \A e \in Conns : \A i \in 1..Len(s2c'[e]) : \E j \in 1..Len(s2c[e]) : s2c'[e][i] = s2c[e][j]
    <3> SUFFICES ASSUME NEW e \in Conns, NEW i \in 1..Len(s2c'[e])
                 PROVE  \E j \in 1..Len(s2c[e]) : s2c'[e][i] = s2c[e][j]
      OBVIOUS
    <3>1. CASE s2c'[e] = s2c[e]
      BY <3>1
    <3>2. CASE s2c'[e] = <<>>
      BY <3>2, <1>b
    <3>3. CASE e = c /\ s2c'[e] = Tail(s2c[c])
      <4>1. /\ Len(Tail(s2c[c])) = Len(s2c[c]) - 1 /\ Len(s2c[c]) \in Nat
            /\ \A k \in 1..Len(Tail(s2c[c])) : Tail(s2c[c])[k] = s2c[c][k + 1]
        BY <2>1, <1>b, HeadTailProperties
      <4>2. i + 1 \in 1..Len(s2c[e]) /\ s2c'[e][i] = s2c[e][i + 1]
        BY <3>3, <4>1
      <4>3. QED
        BY <4>2
    <3>4. QED
      BY <2>2, <3>1, <3>2, <3>3 DEF TypeOK
  <2>4. \A d \in Cmds : call'[d] = call[d] \/ call'[d] \in {"ok", "failed"}
    BY <1>8 DEF DataChunk, DataFrame, DispatchFrame, TypeOK
  <2>5. Shrinks
    BY <1>b, <2>1, <2>3, <2>4 DEF Shrinks
  <2>6. QED
    BY <2>5, <1>a, WireShrinks
<1>9. ASSUME NEW c \in Conns, ConnectOk(c) \/ Reconnect(c) PROVE Wire'
  BY <1>0, <1>9 DEF ConnectOk, Reconnect, serverVars
<1>10. CASE ReconnectAfterDestroy \/ ServeDone \/ StartCommandServer
  BY <1>0, <1>10 DEF ReconnectAfterDestroy, ServeDone, StartCommandServer, serverVars, clientVars
<1>11. ASSUME NEW c \in Conns, ServeFrame(c) PROVE Wire'
  BY <1>11, <1>a, WireServes
<1>12. ASSUME NEW S, c2s' = Discarded(S), UNCHANGED <<via, call, runs>>,
              \A c \in Conns : \A i \in 1..Len(s2c'[c]) :
                 \E j \in 1..Len(s2c[c]) : s2c'[c][i] = s2c[c][j]
       PROVE  Wire'
  <2>1. Shrinks
    BY <1>12, DiscardedShrinks DEF Shrinks
  <2>2. QED
    BY <2>1, <1>a, WireShrinks
<1>13. CASE PollAccept
  BY <1>12, <1>13 DEF PollAccept, clientVars
<1>14. ASSUME NEW c \in Conns, ServeClose(c) PROVE Wire'
  BY <1>12, <1>14 DEF ServeClose, clientVars
<1>15. CASE ServerStop
  <2>1. PICK c \in Conns : \E k \in 0..Len(s2c[c]) : s2c' = [s2c EXCEPT ![c] = SubSeq(@, 1, k)]
    BY <1>15 DEF ServerStop
  <2>2. PICK k \in 0..Len(s2c[c]) : s2c' = [s2c EXCEPT ![c] = SubSeq(@, 1, k)]
    BY <2>1
  <2>3. \A e \in Conns : \A i \in 1..Len(s2c'[e]) : \E j \in 1..Len(s2c[e]) : s2c'[e][i] = s2c[e][j]
    <3> SUFFICES ASSUME NEW e \in Conns, NEW i \in 1..Len(s2c'[e])
                 PROVE  \E j \in 1..Len(s2c[e]) : s2c'[e][i] = s2c[e][j]
      OBVIOUS
    <3>1. CASE e = c
      <4>1. s2c'[e] = SubSeq(s2c[c], 1, k) /\ s2c[c] \in Seq(Chunk) /\ Len(s2c[c]) \in Nat
        BY <2>2, <3>1 DEF TypeOK
      <4>2. i \in 1..Len(s2c[c]) /\ s2c'[e][i] = s2c[c][i]
        BY <4>1
      <4>3. QED
        BY <3>1, <4>2
    <3>2. CASE e # c
      BY <2>2, <3>2 DEF TypeOK
    <3>3. QED
      BY <3>1, <3>2
  <2>4. QED
    BY <1>12, <1>15, <2>3 DEF ServerStop, clientVars
<1>16. CASE UNCHANGED vars
  BY <1>0, <1>16 DEF vars, clientVars, serverVars
<1>17. QED
  BY <1>1, <1>2, <1>3, <1>5, <1>6, <1>7, <1>8, <1>9, <1>10, <1>11, <1>13, <1>14, <1>15, <1>16
  DEF Next, ClientNext, ServerNext

\* What a server step handles: the head of a wire, not handled before, whose
\* call was written and was not answered.
LEMMA ServedOnce ==
  ASSUME TypeOK, Wire, OutcomeTruth, NEW c \in Conns, ServeFrame(c)
  PROVE  \E d \in Cmds : /\ runs[d] = 0 /\ runs' = [runs EXCEPT ![d] = 1]
                         /\ call[d] \in {"sent", "timeout", "lost"}
                         /\ call' = call
<1> DEFINE d == Head(c2s[c])
<1>1. d = c2s[c][1] /\ d \in Cmds /\ 1 \in 1..Len(c2s[c])
  BY HeadTailProperties DEF ServeFrame, TypeOK
<1>2. runs[d] = 0 /\ call[d] \notin {"idle", "waiting", "unsent"}
  BY <1>1 DEF Wire
<1>3. call[d] \notin {"ok", "failed"} /\ call[d] \in CallState
  BY <1>1, <1>2 DEF OutcomeTruth, TypeOK
<1>4. runs' = [runs EXCEPT ![d] = 1] /\ call' = call
  BY <1>1, <1>2 DEF ServeFrame, clientVars, TypeOK
<1>5. QED
  BY <1>1, <1>2, <1>3, <1>4 DEF CallState

\* What a frame settles: a command in flight that was handled.
LEMMA FrameSettles ==
  ASSUME TypeOK, Accounted, Wire, NEW c \in Conns, DataFrame(c)
  PROVE  /\ runs' = runs
         /\ \/ call' = call
            \/ \E d \in Cmds : /\ call[d] = "sent" /\ runs[d] = 1
                               /\ call' = [call EXCEPT ![d] = IF d \in Known THEN "ok" ELSE "failed"]
<1> DEFINE d == Head(s2c[c]).cmd
<1>1. Head(s2c[c]) = s2c[c][1] /\ 1 \in 1..Len(s2c[c])
  BY HeadTailProperties DEF DataFrame, TypeOK
<1>2. d \in Cmds /\ runs[d] = 1
  BY <1>1, WireElements DEF Wire
<1>3. d \in pending => call[d] = "sent"
  BY DEF Accounted, Unsettled
<1>4. QED
  BY <1>2, <1>3 DEF DataFrame, DispatchFrame, serverVars

\* OutcomeTruth is inductive with Wire and Accounted.
LEMMA OutcomeTruthStep ==
  TypeOK /\ Accounted /\ Wire /\ OutcomeTruth /\ [Next]_vars => OutcomeTruth'
<1> SUFFICES ASSUME TypeOK, Accounted, Wire, OutcomeTruth, [Next]_vars PROVE OutcomeTruth'
  OBVIOUS
<1>0. ASSUME UNCHANGED <<call, runs>> PROVE OutcomeTruth'
  BY <1>0 DEF OutcomeTruth
<1>1. ASSUME runs' = runs,
             \A d \in Cmds : \/ call'[d] = call[d]
                             \/ call'[d] \in {"waiting", "sent", "timeout", "lost"}
                             \/ call'[d] = "unsent" /\ runs[d] = 0
                             \/ call'[d] = "ok" /\ d \in Known /\ runs[d] = 1
                             \/ call'[d] = "failed" /\ d \notin Known /\ runs[d] = 1
      PROVE  OutcomeTruth'
  BY <1>1 DEF OutcomeTruth
<1>2. ASSUME NEW d \in Cmds, Dispatch(d) \/ EnsureConnected(d) PROVE OutcomeTruth'
  <2>1. runs[d] = 0 /\ runs' = runs
    BY <1>2 DEF Wire, Dispatch, EnsureConnected, serverVars
  <2>2. \E x \in {"waiting", "sent", "unsent"} : call' = [call EXCEPT ![d] = x]
    BY <1>2 DEF Dispatch, EnsureConnected, Write, Reject
  <2>3. QED
    BY <1>1, <2>1, <2>2 DEF TypeOK
<1>3. ASSUME NEW d \in Cmds, Timeout(d) \/ WriteError(d) PROVE OutcomeTruth'
  BY <1>1, <1>3 DEF Timeout, WriteError, serverVars, TypeOK
<1>4. ASSUME FailPending, runs' = runs PROVE OutcomeTruth'
  BY <1>1, <1>4 DEF FailPending
<1>5. ASSUME NEW c \in Conns, ErrorEvent(c) \/ CloseEvent(c) PROVE OutcomeTruth'
  BY <1>4, <1>5 DEF ErrorEvent, CloseEvent, serverVars
<1>6. CASE Destroy
  BY <1>4, <1>6 DEF Destroy, serverVars
<1>7. ASSUME NEW c \in Conns, DataFrame(c) PROVE OutcomeTruth'
  BY <1>1, <1>7, FrameSettles DEF TypeOK
<1>8. ASSUME NEW c \in Conns, ConnectOk(c) \/ DataChunk(c) \/ Reconnect(c) PROVE OutcomeTruth'
  BY <1>0, <1>8 DEF ConnectOk, DataChunk, Reconnect, serverVars
<1>9. ASSUME NEW c \in Conns, ServeFrame(c) PROVE OutcomeTruth'
  <2>1. PICK d \in Cmds : /\ runs[d] = 0 /\ runs' = [runs EXCEPT ![d] = 1]
                         /\ call[d] \in {"sent", "timeout", "lost"}
                         /\ call' = call
    BY <1>9, ServedOnce
  <2>2. runs'[d] = 1 /\ \A e \in Cmds \ {d} : runs'[e] = runs[e]
    BY <2>1 DEF TypeOK
  <2>3. call'[d] \notin {"ok", "failed", "unsent"} /\ \A e \in Cmds : call'[e] = call[e]
    BY <2>1
  <2>4. QED
    BY <2>2, <2>3 DEF OutcomeTruth
<1>10. ASSUME NEW c \in Conns, ServeClose(c) PROVE OutcomeTruth'
  BY <1>0, <1>10 DEF ServeClose, clientVars
<1>11. CASE ReconnectAfterDestroy \/ PollAccept \/ ServeDone \/ ServerStop \/ StartCommandServer
  BY <1>0, <1>11 DEF ReconnectAfterDestroy, PollAccept, ServeDone, ServerStop, StartCommandServer,
                     serverVars, clientVars
<1>12. CASE UNCHANGED vars
  BY <1>0, <1>12 DEF vars, clientVars, serverVars
<1>13. QED
  BY <1>2, <1>3, <1>5, <1>6, <1>7, <1>8, <1>9, <1>10, <1>11, <1>12 DEF Next, ClientNext, ServerNext

\* What is under way at the start: nothing.
LEMMA InitTruth == Init => Accounted /\ Wire /\ OutcomeTruth
  BY DEF Init, Accounted, Unsettled, Wire, OutcomeTruth

\* The outcome of dispatch() says the truth about the terminal: no command is
\* handled twice, an answer means it was handled, and one rejected before the
\* write is never handled.
THEOREM TellsTheTruth == Spec => []OutcomeTruth
<1>1. QED
  BY InitTruth, AccountedStep, WireStep, OutcomeTruthStep, TypeCorrect, PTL DEF Spec

-----------------------------------------------------------------------------
(***************************************************************************)
(* The contract                                                            *)
(***************************************************************************)

\* Every step of the channel is a step of the contract or changes nothing of
\* what the contract speaks about.
LEMMA ContractStep ==
  TypeOK /\ Accounted /\ Wire /\ OutcomeTruth /\ [Next]_vars
    => [Contract!Next]_(Contract!callVars)
<1> SUFFICES ASSUME TypeOK, Accounted, Wire, OutcomeTruth, [Next]_vars
             PROVE  [Contract!Next]_(Contract!callVars)
  OBVIOUS
<1> USE DEF Contract!callVars
<1>0. ASSUME UNCHANGED <<call, runs>> PROVE UNCHANGED Contract!callVars
  BY <1>0 DEF outcomeBar
<1>1. ASSUME NEW d \in Cmds, Dispatch(d) \/ EnsureConnected(d)
      PROVE  Contract!Next \/ UNCHANGED Contract!callVars
  <2>1. runs[d] = 0 /\ runs' = runs /\ call[d] \in {"idle", "waiting"}
    BY <1>1 DEF Wire, Dispatch, EnsureConnected, serverVars
  <2>2. CASE call' = [call EXCEPT ![d] = "unsent"]
    <3>1. outcomeBar[d] \in {"none", "open"} /\ outcomeBar' = [outcomeBar EXCEPT ![d] = "unsent"]
      BY <2>1, <2>2 DEF outcomeBar, TypeOK
    <3>2. Contract!Withdraw(d)
      BY <2>1, <3>1 DEF Contract!Withdraw
    <3>3. QED
      BY <3>2 DEF Contract!Next
  <2>3. CASE call[d] = "idle" /\ \E x \in {"waiting", "sent"} : call' = [call EXCEPT ![d] = x]
    <3>1. outcomeBar[d] = "none" /\ outcomeBar' = [outcomeBar EXCEPT ![d] = "open"]
      BY <2>3 DEF outcomeBar, TypeOK
    <3>2. Contract!Begin(d)
      BY <2>1, <3>1 DEF Contract!Begin
    <3>3. QED
      BY <3>2 DEF Contract!Next
  <2>4. CASE call[d] = "waiting" /\ call' = [call EXCEPT ![d] = "sent"]
    BY <2>1, <2>4 DEF outcomeBar, TypeOK
  <2>5. QED
    BY <1>1, <2>2, <2>3, <2>4 DEF Dispatch, EnsureConnected, Write, Reject
<1>2. ASSUME NEW S \in SUBSET Unsettled, runs' = runs,
             call' \in [Cmds -> CallState],
             \A d \in Cmds : IF d \in S THEN call'[d] \in {"timeout", "lost"} ELSE call'[d] = call[d]
      PROVE  Contract!Next
  <2>1. /\ \A d \in S : outcomeBar[d] = "open"
        /\ outcomeBar' = [d \in Cmds |-> IF d \in S THEN "unknown" ELSE outcomeBar[d]]
    BY <1>2 DEF outcomeBar, Unsettled
  <2>2. Contract!GiveUp(S)
    BY <1>2, <2>1 DEF Contract!GiveUp
  <2>3. S \in SUBSET Cmds
    BY <1>2 DEF Unsettled
  <2>4. QED
    BY <2>2, <2>3 DEF Contract!Next
<1>3. ASSUME NEW d \in Cmds, Timeout(d) \/ WriteError(d) PROVE Contract!Next
  <2>1. {d} \in SUBSET Unsettled
    BY <1>3 DEF Accounted, Unsettled, Timeout, WriteError
  <2>2. runs' = runs /\ \E x \in {"timeout", "lost"} : call' = [call EXCEPT ![d] = x]
    BY <1>3, <2>1 DEF Timeout, WriteError, serverVars, Unsettled
  <2>3. call' \in [Cmds -> CallState]
    BY <2>2 DEF TypeOK, CallState
  <2>4. \A e \in Cmds : IF e \in {d} THEN call'[e] \in {"timeout", "lost"} ELSE call'[e] = call[e]
    BY <2>2 DEF TypeOK
  <2>5. QED
    BY <1>2, <2>1, <2>2, <2>3, <2>4
<1>4. ASSUME FailPending, runs' = runs PROVE Contract!Next
  <2>1. pending \in SUBSET Unsettled
    BY DEF Accounted
  <2>2. QED
    BY <1>2, <1>4, <2>1 DEF FailPending, TypeOK, CallState
<1>5. ASSUME NEW c \in Conns, ErrorEvent(c) \/ CloseEvent(c) PROVE Contract!Next
  BY <1>4, <1>5 DEF ErrorEvent, CloseEvent, serverVars
<1>6. CASE Destroy
  BY <1>4, <1>6 DEF Destroy, serverVars
<1>7. ASSUME NEW c \in Conns, DataFrame(c) PROVE Contract!Next \/ UNCHANGED Contract!callVars
  <2>1. CASE call' = call
    BY <1>0, <1>7, <2>1 DEF DataFrame, serverVars
  <2>2. ASSUME NEW d \in Cmds, call[d] = "sent", runs[d] = 1, runs' = runs,
               call' = [call EXCEPT ![d] = IF d \in Known THEN "ok" ELSE "failed"]
        PROVE  Contract!Next
    <3>1. /\ outcomeBar[d] = "open"
          /\ outcomeBar' = [outcomeBar EXCEPT ![d] = IF d \in Known THEN "ok" ELSE "failed"]
      BY <2>2 DEF outcomeBar, TypeOK
    <3>2. Contract!Answer(d)
      BY <2>2, <3>1 DEF Contract!Answer
    <3>3. QED
      BY <3>2 DEF Contract!Next
  <2>3. QED
    BY <1>7, <2>1, <2>2, FrameSettles
<1>8. ASSUME NEW c \in Conns, ServeFrame(c) PROVE Contract!Next
  <2>1. PICK d \in Cmds : /\ runs[d] = 0 /\ runs' = [runs EXCEPT ![d] = 1]
                         /\ call[d] \in {"sent", "timeout", "lost"}
                         /\ call' = call
    BY <1>8, ServedOnce
  <2>2. outcomeBar[d] \in {"open", "unknown"} /\ outcomeBar' = outcomeBar
    BY <2>1 DEF outcomeBar
  <2>3. Contract!Perform(d)
    BY <2>1, <2>2 DEF Contract!Perform
  <2>4. QED
    BY <2>3 DEF Contract!Next
<1>9. ASSUME NEW c \in Conns, ConnectOk(c) \/ DataChunk(c) \/ Reconnect(c) \/ ServeClose(c)
      PROVE  UNCHANGED Contract!callVars
  BY <1>0, <1>9 DEF ConnectOk, DataChunk, Reconnect, ServeClose, serverVars, clientVars
<1>10. CASE ReconnectAfterDestroy \/ PollAccept \/ ServeDone \/ ServerStop \/ StartCommandServer
  BY <1>0, <1>10 DEF ReconnectAfterDestroy, PollAccept, ServeDone, ServerStop, StartCommandServer,
                     serverVars, clientVars
<1>11. CASE UNCHANGED vars
  BY <1>0, <1>11 DEF vars, clientVars, serverVars
<1>12. QED
  BY <1>1, <1>3, <1>5, <1>6, <1>7, <1>8, <1>9, <1>10, <1>11 DEF Next, ClientNext, ServerNext

\* Sockets, buffers, timers and polls together implement a call that is made
\* at most once, with an honest outcome.
THEOREM ChannelImplementsContract == Spec => KeepsContract
<1>1. Init => Contract!Init
  BY DEF Init, Contract!Init, outcomeBar
<1>2. QED
  BY <1>1, InitTruth, AccountedStep, WireStep, OutcomeTruthStep, ContractStep, TypeCorrect, PTL
  DEF Spec, KeepsContract, Contract!Spec

-----------------------------------------------------------------------------
(***************************************************************************)
(* Every promise settles, once                                             *)
(***************************************************************************)

Open(d) == call[d] \in {"waiting", "sent"}

\* Where the promise of a dispatch() may go in a step.
Moves(d) ==
  \/ call'[d] = call[d]
  \/ call[d] = "idle" /\ call'[d] \in {"waiting", "sent", "unsent"}
  \/ call[d] = "waiting" /\ call'[d] \in {"sent", "unsent"}
  \/ call[d] = "sent" /\ call'[d] \in {"ok", "failed", "timeout", "lost"}

\* A call is begun, waits, is written and settles, and goes no other way.
LEMMA CallStep ==
  ASSUME TypeOK, Accounted, [Next]_vars, NEW d \in Cmds
  PROVE  Moves(d)
<1> USE DEF Moves
<1>0. call \in [Cmds -> CallState] /\ \A e \in pending \cup armed : e \in Cmds /\ call[e] = "sent"
  BY DEF TypeOK, Accounted, Unsettled
<1>1. ASSUME UNCHANGED call PROVE Moves(d)
  BY <1>1
<1>2. ASSUME NEW e \in Cmds, Dispatch(e) \/ EnsureConnected(e) PROVE Moves(d)
  <2>1. /\ call[e] \in {"idle", "waiting"}
        /\ \E r \in {"waiting", "sent", "unsent"} :
             call' = [call EXCEPT ![e] = r] /\ (call[e] = "waiting" => r # "waiting")
    BY <1>2 DEF Dispatch, EnsureConnected, Write, Reject
  <2>2. QED
    BY <1>0, <2>1
<1>3. ASSUME NEW e \in Cmds, Timeout(e) \/ WriteError(e) PROVE Moves(d)
  BY <1>0, <1>3 DEF Timeout, WriteError
<1>4. CASE FailPending
  BY <1>0, <1>4 DEF FailPending
<1>5. ASSUME NEW c \in Conns, DataFrame(c) PROVE Moves(d)
  BY <1>0, <1>5 DEF DataFrame, DispatchFrame
<1>6. ASSUME NEW c \in Conns, ErrorEvent(c) \/ CloseEvent(c) PROVE Moves(d)
  BY <1>4, <1>6 DEF ErrorEvent, CloseEvent
<1>7. CASE Destroy
  BY <1>4, <1>7 DEF Destroy
<1>8. ASSUME NEW c \in Conns, ConnectOk(c) \/ DataChunk(c) \/ Reconnect(c) PROVE Moves(d)
  BY <1>1, <1>8 DEF ConnectOk, DataChunk, Reconnect
<1>9. CASE ReconnectAfterDestroy
  BY <1>1, <1>9 DEF ReconnectAfterDestroy
<1>10. CASE ServerNext
  BY <1>1, <1>10 DEF ServerNext, PollAccept, ServeFrame, ServeDone, ServeClose, ServerStop,
                     StartCommandServer, clientVars
<1>11. CASE UNCHANGED vars
  BY <1>1, <1>11 DEF vars, clientVars
<1>12. QED
  BY <1>2, <1>3, <1>5, <1>6, <1>7, <1>8, <1>9, <1>10, <1>11 DEF Next, ClientNext

\* dispatch(): what the caller was told is never taken back or said again,
\* whatever arrives, fails or fires afterwards.
THEOREM SettledOnce ==
  Spec => [][\A d \in Cmds : call[d] # "idle" /\ ~Open(d) => call'[d] = call[d]]_vars
<1>1. TypeOK /\ Accounted /\ [Next]_vars
        => [\A d \in Cmds : call[d] # "idle" /\ ~Open(d) => call'[d] = call[d]]_vars
  BY CallStep DEF Moves, Open
<1>2. QED
  BY <1>1, TypeCorrect, PendingAccounted, PTL DEF Spec

\* The weak fairness that FairSpec asks of a client's timers, with the guard of
\* each action in the place of ENABLED: a timer that stays armed fires, and the
\* poll of ensureConnected() that goes on ends within its second.
Fires(d) ==
  /\ []<>~(d \in armed) \/ []<><<Timeout(d)>>_vars
  /\ []<>~(call[d] = "waiting") \/ []<><<EnsureConnected(d)>>_vars

TimersFire == \A d \in Cmds : Fires(d)

\* The timers of one call: the poll of ensureConnected() ends in a write or a
\* rejection, and what was written is settled by its timer at the latest.
LEMMA CallSettles ==
  ASSUME NEW d \in Cmds
  PROVE  Spec /\ Fires(d)
         => (call[d] \in {"waiting", "sent"} ~> call[d] \notin {"waiting", "sent"})
<1>1. TypeOK /\ Accounted /\ [Next]_vars
        => /\ call[d] = "waiting" => (call[d] = "waiting")' \/ (call[d] = "sent")' \/ ~Open(d)'
           /\ call[d] = "sent" => (call[d] = "sent")' \/ ~Open(d)'
  <2> SUFFICES ASSUME TypeOK, Accounted, [Next]_vars
               PROVE  /\ call[d] = "waiting" => (call[d] = "waiting")' \/ (call[d] = "sent")' \/ ~Open(d)'
                      /\ call[d] = "sent" => (call[d] = "sent")' \/ ~Open(d)'
    OBVIOUS
  <2>1. Moves(d)
    BY CallStep
  <2>2. QED
    BY <2>1 DEF Moves, Open
<1>2. /\ call[d] \in {"waiting", "sent"} <=> call[d] = "waiting" \/ call[d] = "sent"
      /\ call[d] \notin {"waiting", "sent"} <=> ~Open(d)
      /\ Open(d) <=> call[d] = "waiting" \/ call[d] = "sent"
      /\ Accounted /\ call[d] = "sent" => d \in armed
  BY DEF Open, Accounted, Unsettled
<1>3. TypeOK /\ <<EnsureConnected(d)>>_vars => (call[d] = "sent")' \/ ~Open(d)'
  BY DEF EnsureConnected, Write, Reject, Open, TypeOK
<1>4. TypeOK /\ Accounted /\ <<Timeout(d)>>_vars => ~Open(d)'
  BY DEF Timeout, Open, TypeOK, Accounted, Unsettled
<1>5. QED
  BY <1>1, <1>2, <1>3, <1>4, TypeCorrect, PendingAccounted, PTL DEF Spec, Fires

\* Every dispatch() settles, whatever the terminal, the network and the other
\* commands do: nothing is asked of them, only of the timers of the client.
THEOREM CallsSettle == Spec /\ TimersFire => EveryCallSettles
<1> SUFFICES ASSUME Spec, TimersFire, NEW d \in Cmds
             PROVE  call[d] \in {"waiting", "sent"} ~> call[d] \notin {"waiting", "sent"}
  BY DEF EveryCallSettles
<1>1. Fires(d)
  BY DEF TimersFire
<1>2. QED
  BY <1>1, CallSettles
=============================================================================
