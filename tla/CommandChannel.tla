--------------------------- MODULE CommandChannel ---------------------------
(***************************************************************************)
(* The command channel of a slot: Mt5CommandClient, the Node side, which   *)
(* keeps one outbound TCP connection and a map of pending commands, and    *)
(* the command server of SlotService.mq5, which polls its sockets from     *)
(* OnTimer.  The two run in different processes, so every event-loop turn  *)
(* of the client interleaves with every step of a poll.                    *)
(*                                                                         *)
(* A command frame is small and is one element of c2s.  A response is cut  *)
(* into Parts[d] chunks, the last of which carries the newline: the client *)
(* reads one chunk per 'data' event.  Connection identifiers are reused    *)
(* once both ends have let go of them, so that reconnecting is unbounded.  *)
(***************************************************************************)
EXTENDS Integers, Sequences, FiniteSets

CONSTANTS
  Cmds,        \* the dispatch() calls made during the life of the client
  Known,       \* those whose action HandleCommandAndRespond knows
  Parts,       \* into how many chunks the response to a command is cut
  Conns,       \* identifiers of TCP connections
  NoConn,      \* this.sock === null
  RecvMax,     \* the client's receive buffer limit, in chunks
  MaxClients   \* MAX_CMD_CLIENTS

ASSUME ChannelAssumption ==
  /\ Known \subseteq Cmds
  /\ Parts \in [Cmds -> Nat \ {0}]
  /\ NoConn \notin Conns
  /\ RecvMax \in Nat
  /\ MaxClients \in Nat \ {0}

VARIABLES
  call,        \* call[d]: where the promise returned by dispatch(d) stands
  via,         \* via[d]: the connection d was written to
  pending,     \* keys of this.pending
  armed,       \* commands whose timer is running
  sock,        \* this.sock
  cst,         \* cst[c]: the client's end of connection c
  timers,      \* reconnect timers set and not fired
  destroyed,   \* this.destroyed
  recvBuf,     \* this.recvBuf: the chunks read since the last newline
  srv,         \* srv[c]: the server's end of connection c
  listening,   \* the command server is bound
  todo,        \* clients the current poll still has to recv() from
  busy,        \* the client whose received chunk is being worked through
  c2s,         \* c2s[c]: command frames under way to the server
  s2c,         \* s2c[c]: response chunks under way to the client
  runs,        \* history: how often the handler of d has run
  stale,       \* history: recvBuf holds bytes of an earlier connection
  answered     \* history: commands whose reply arrived while still pending

clientVars == <<call, via, pending, armed, sock, cst, timers, destroyed, recvBuf>>
serverVars == <<listening, todo, busy, runs>>
history == <<stale, answered>>
vars == <<clientVars, serverVars, srv, c2s, s2c, history>>

Chunk == [cmd : Cmds, part : Nat]
CallState == {"idle", "waiting", "sent", "ok", "failed", "timeout", "lost", "unsent"}
ClientEnd == {"free", "connecting", "open", "dead", "failed"}
ServerEnd == {"none", "backlog", "client", "gone"}

\* The response frame of command d, as the chunks it is read in.
Reply(d) == [i \in 1..Parts[d] |-> [cmd |-> d, part |-> i]]

\* this.sock && !this.sock.destroyed: a socket still connecting counts.
Usable == sock # NoConn /\ cst[sock] \in {"connecting", "open"}

TypeOK ==
  /\ call \in [Cmds -> CallState]
  /\ via \in [Cmds -> Conns \cup {NoConn}]
  /\ pending \in SUBSET Cmds
  /\ armed \in SUBSET Cmds
  /\ sock \in Conns \cup {NoConn}
  /\ cst \in [Conns -> ClientEnd]
  /\ timers \in Nat
  /\ destroyed \in BOOLEAN
  /\ recvBuf \in Seq(Chunk)
  /\ srv \in [Conns -> ServerEnd]
  /\ listening \in BOOLEAN
  /\ todo \in SUBSET Conns
  /\ busy \in Conns \cup {NoConn}
  /\ c2s \in [Conns -> Seq(Cmds)]
  /\ s2c \in [Conns -> Seq(Chunk)]
  /\ runs \in [Cmds -> Nat]
  /\ stale \in BOOLEAN
  /\ answered \in SUBSET Cmds

\* The constructor has called connect(); nothing has been dispatched.
Init ==
  /\ call = [d \in Cmds |-> "idle"]
  /\ via = [d \in Cmds |-> NoConn]
  /\ pending = {}
  /\ armed = {}
  /\ sock \in Conns
  /\ cst = [c \in Conns |-> IF c = sock THEN "connecting" ELSE "free"]
  /\ timers = 0
  /\ destroyed = FALSE
  /\ recvBuf = <<>>
  /\ srv = [c \in Conns |-> "none"]
  /\ listening \in BOOLEAN
  /\ todo = {}
  /\ busy = NoConn
  /\ c2s = [c \in Conns |-> <<>>]
  /\ s2c = [c \in Conns |-> <<>>]
  /\ runs = [d \in Cmds |-> 0]
  /\ stale = FALSE
  /\ answered = {}

-----------------------------------------------------------------------------
(***************************************************************************)
(* dispatch()                                                              *)
(***************************************************************************)

\* The body of the promise: arm the timer, enter the pending map, write the
\* frame.  What is written to a socket whose peer has closed goes nowhere.
Write(d) ==
  /\ call' = [call EXCEPT ![d] = "sent"]
  /\ via' = [via EXCEPT ![d] = sock]
  /\ armed' = armed \cup {d}
  /\ pending' = pending \cup {d}
  /\ c2s' = IF srv[sock] = "gone" THEN c2s
            ELSE [c2s EXCEPT ![sock] = Append(@, d)]

\* The promise rejects without anything having been written.
Reject(d) ==
  /\ call' = [call EXCEPT ![d] = "unsent"]
  /\ UNCHANGED <<via, pending, armed, c2s>>

Dispatch(d) ==
  /\ call[d] = "idle"
  /\ \/ destroyed /\ Reject(d)
     \/ ~destroyed /\ Usable /\ Write(d)
     \/ /\ ~destroyed /\ ~Usable
        /\ call' = [call EXCEPT ![d] = "waiting"]
        /\ UNCHANGED <<via, pending, armed, c2s>>
  /\ UNCHANGED <<sock, cst, timers, destroyed, recvBuf, serverVars, srv, s2c, history>>

\* ensureConnected(): the 25 ms poll finds a socket, or the second is over.
\* The deadline is not followed by a last look at the socket.
EnsureConnected(d) ==
  /\ call[d] = "waiting"
  /\ \/ Usable /\ Write(d)
     \/ Reject(d)
  /\ UNCHANGED <<sock, cst, timers, destroyed, recvBuf, serverVars, srv, s2c, history>>

\* Deviation: a command that times out is sent again instead of rejected.
TimeoutResends(d) ==
  /\ d \in armed /\ Usable
  /\ Write(d)
  /\ UNCHANGED <<sock, cst, timers, destroyed, recvBuf, serverVars, srv, s2c, history>>

\* The command's timer.  Rejecting a promise that is settled has no effect.
Timeout(d) ==
  /\ d \in armed
  /\ armed' = armed \ {d}
  /\ pending' = pending \ {d}
  /\ call' = [call EXCEPT ![d] = IF @ = "sent" THEN "timeout" ELSE @]
  /\ UNCHANGED <<via, sock, cst, timers, destroyed, recvBuf, serverVars, srv, c2s, s2c, history>>

\* The callback of write(): the socket was destroyed before the frame, the
\* last one queued on it, had been flushed.
WriteError(d) ==
  LET c == via[d] IN
  /\ d \in pending
  /\ cst[c] = "dead"
  /\ c2s[c] # <<>> /\ d = c2s[c][Len(c2s[c])]
  /\ c2s' = [c2s EXCEPT ![c] = SubSeq(@, 1, Len(@) - 1)]
  /\ armed' = armed \ {d}
  /\ pending' = pending \ {d}
  /\ call' = [call EXCEPT ![d] = "lost"]
  /\ UNCHANGED <<via, sock, cst, timers, destroyed, recvBuf, serverVars, srv, s2c, history>>

-----------------------------------------------------------------------------
(***************************************************************************)
(* Socket events of the client                                             *)
(***************************************************************************)

\* Deviation: the map is emptied but the timers go on.
FailPendingKeepsTimers ==
  /\ call' = [d \in Cmds |-> IF d \in pending THEN "lost" ELSE call[d]]
  /\ pending' = {}
  /\ UNCHANGED armed

\* Deviation: the map and the timers are cleared, the promises forgotten.
FailPendingForgets ==
  /\ armed' = armed \ pending
  /\ pending' = {}
  /\ UNCHANGED call

\* Deviation: the callers are told that nothing was sent.
FailPendingAsUnsent ==
  /\ call' = [d \in Cmds |-> IF d \in pending THEN "unsent" ELSE call[d]]
  /\ armed' = armed \ pending
  /\ pending' = {}

\* failPending(): every command in the map is rejected, whatever connection
\* it was written to.
FailPending ==
  /\ call' = [d \in Cmds |-> IF d \in pending THEN "lost" ELSE call[d]]
  /\ armed' = armed \ pending
  /\ pending' = {}

ScheduleReconnect == timers' = IF destroyed THEN timers ELSE timers + 1

ConnectOk(c) ==
  /\ cst[c] = "connecting" /\ listening
  /\ cst' = [cst EXCEPT ![c] = "open"]
  /\ srv' = [srv EXCEPT ![c] = "backlog"]
  /\ UNCHANGED <<call, via, pending, armed, sock, timers, destroyed, recvBuf, serverVars, c2s, s2c,
                 history>>

\* Deviation: 'error' leaves the reconnect to the 'close' that follows.
ErrorEventUnscheduled(c) ==
  /\ cst[c] = "connecting" \/ (cst[c] = "open" /\ srv[c] = "gone")
  /\ cst' = [cst EXCEPT ![c] = "failed"]
  /\ sock' = NoConn
  /\ FailPending
  /\ c2s' = [c2s EXCEPT ![c] = <<>>]
  /\ s2c' = [s2c EXCEPT ![c] = <<>>]
  /\ UNCHANGED <<via, timers, destroyed, recvBuf, serverVars, srv, history>>

\* 'error': the connection is refused or times out, or the peer has reset it.
ErrorEvent(c) ==
  /\ cst[c] = "connecting" \/ (cst[c] = "open" /\ srv[c] = "gone")
  /\ cst' = [cst EXCEPT ![c] = "failed"]
  /\ sock' = NoConn
  /\ FailPending
  /\ ScheduleReconnect
  /\ c2s' = [c2s EXCEPT ![c] = <<>>]
  /\ s2c' = [s2c EXCEPT ![c] = <<>>]
  /\ UNCHANGED <<via, destroyed, recvBuf, serverVars, srv, history>>

\* Deviation: 'close' does not look whether 'error' has run.
CloseEventAlways(c) ==
  /\ \/ cst[c] \in {"dead", "failed"}
     \/ cst[c] = "open" /\ srv[c] = "gone" /\ s2c[c] = <<>>
  /\ FailPending
  /\ IF destroyed THEN UNCHANGED <<sock, timers>> ELSE sock' = NoConn /\ ScheduleReconnect
  /\ cst' = [cst EXCEPT ![c] = "free"]
  /\ srv' = [srv EXCEPT ![c] = IF @ = "gone" THEN "none" ELSE @]
  /\ c2s' = IF srv[c] = "gone" THEN [c2s EXCEPT ![c] = <<>>] ELSE c2s
  /\ s2c' = [s2c EXCEPT ![c] = <<>>]
  /\ UNCHANGED <<via, destroyed, recvBuf, serverVars, history>>

\* 'close': after destroy(), or when the peer closed and all it sent is read.
\* After an 'error' the reconnect is already scheduled.
CloseEvent(c) ==
  /\ \/ cst[c] \in {"dead", "failed"}
     \/ cst[c] = "open" /\ srv[c] = "gone" /\ s2c[c] = <<>>
  /\ FailPending
  /\ IF cst[c] = "failed" \/ destroyed
     THEN UNCHANGED <<sock, timers>>
     ELSE sock' = NoConn /\ ScheduleReconnect
  /\ cst' = [cst EXCEPT ![c] = "free"]
  /\ srv' = [srv EXCEPT ![c] = IF @ = "gone" THEN "none" ELSE @]
  /\ c2s' = IF srv[c] = "gone" THEN [c2s EXCEPT ![c] = <<>>] ELSE c2s
  /\ s2c' = [s2c EXCEPT ![c] = <<>>]
  /\ UNCHANGED <<via, destroyed, recvBuf, serverVars, history>>

\* A chunk with no newline: it is kept, and a buffer over the limit destroys
\* the socket.  Nothing ever empties the buffer but a newline.
DataChunk(c) ==
  LET buf == Append(recvBuf, Head(s2c[c])) IN
  /\ cst[c] = "open" /\ s2c[c] # <<>>
  /\ Head(s2c[c]).part # Parts[Head(s2c[c]).cmd]
  /\ recvBuf' = buf
  /\ IF Len(buf) > RecvMax
     THEN /\ cst' = [cst EXCEPT ![c] = "dead"]
          /\ s2c' = [s2c EXCEPT ![c] = <<>>]
     ELSE /\ s2c' = [s2c EXCEPT ![c] = Tail(@)]
          /\ UNCHANGED cst
  /\ UNCHANGED <<call, via, pending, armed, sock, timers, destroyed, serverVars, srv, c2s, history>>

\* Deviation: the peer's own word for the outcome is taken over unread.
DispatchFrameRaw(frame, d) ==
  IF frame = Reply(d) /\ d \in pending
  THEN /\ pending' = pending \ {d}
       /\ armed' = armed \ {d}
       /\ call' = [call EXCEPT ![d] = IF d \in Known THEN "ok" ELSE "undefined"]
  ELSE UNCHANGED <<pending, armed, call>>

\* dispatchFrame(): what is buffered parses only if it is one response, and
\* settles a command only if that command is still pending.
DispatchFrame(frame, d) ==
  IF frame = Reply(d) /\ d \in pending
  THEN /\ pending' = pending \ {d}
       /\ armed' = armed \ {d}
       /\ call' = [call EXCEPT ![d] = IF d \in Known THEN "ok" ELSE "failed"]
  ELSE UNCHANGED <<pending, armed, call>>

\* Deviation: the slice starts at the newline, not after it.
DataFrameKeepsNewline(c) ==
  LET last == Head(s2c[c]) IN
  /\ cst[c] = "open" /\ s2c[c] # <<>>
  /\ last.part = Parts[last.cmd]
  /\ recvBuf' = <<last>>
  /\ s2c' = [s2c EXCEPT ![c] = Tail(@)]
  /\ DispatchFrame(Append(recvBuf, last), last.cmd)
  /\ answered' = IF last.cmd \in pending THEN answered \cup {last.cmd} ELSE answered
  /\ stale' = FALSE
  /\ UNCHANGED <<via, sock, cst, timers, destroyed, serverVars, srv, c2s>>

\* The chunk with the newline: the buffer up to it is a frame.
DataFrame(c) ==
  LET last == Head(s2c[c]) IN
  /\ cst[c] = "open" /\ s2c[c] # <<>>
  /\ last.part = Parts[last.cmd]
  /\ recvBuf' = <<>>
  /\ s2c' = [s2c EXCEPT ![c] = Tail(@)]
  /\ DispatchFrame(Append(recvBuf, last), last.cmd)
  /\ answered' = IF last.cmd \in pending THEN answered \cup {last.cmd} ELSE answered
  /\ stale' = FALSE
  /\ UNCHANGED <<via, sock, cst, timers, destroyed, serverVars, srv, c2s>>

\* Deviation: the reconnect does not wait for the old socket's 'close'.
ReconnectAtOnce(c) ==
  /\ timers > 0 /\ ~destroyed
  /\ cst[c] = "free" /\ srv[c] = "none"
  /\ timers' = timers - 1
  /\ cst' = [cst EXCEPT ![c] = "connecting"]
  /\ sock' = c
  /\ stale' = (recvBuf # <<>>)
  /\ UNCHANGED <<call, via, pending, armed, destroyed, recvBuf, serverVars, srv, c2s, s2c, answered>>

\* The reconnect timer.  'close' is emitted in the event-loop turn of the
\* destroy(), long before a timer of two seconds: no closed socket is left.
Reconnect(c) ==
  /\ timers > 0 /\ ~destroyed
  /\ \A e \in Conns : cst[e] \notin {"dead", "failed"}
  /\ cst[c] = "free" /\ srv[c] = "none"
  /\ timers' = timers - 1
  /\ cst' = [cst EXCEPT ![c] = "connecting"]
  /\ sock' = c
  /\ stale' = (recvBuf # <<>>)
  /\ UNCHANGED <<call, via, pending, armed, destroyed, recvBuf, serverVars, srv, c2s, s2c, answered>>

ReconnectAfterDestroy ==
  /\ timers > 0 /\ destroyed
  /\ timers' = timers - 1
  /\ UNCHANGED <<call, via, pending, armed, sock, cst, destroyed, recvBuf, serverVars, srv, c2s, s2c,
                 history>>

Destroy ==
  /\ ~destroyed
  /\ destroyed' = TRUE
  /\ FailPending
  /\ sock' = NoConn
  /\ cst' = [c \in Conns |-> IF c = sock THEN "dead" ELSE cst[c]]
  /\ c2s' = [c \in Conns |-> IF c = sock /\ cst[c] = "connecting" THEN <<>> ELSE c2s[c]]
  /\ s2c' = [c \in Conns |-> IF c = sock THEN <<>> ELSE s2c[c]]
  /\ UNCHANGED <<via, timers, recvBuf, serverVars, srv, history>>

-----------------------------------------------------------------------------
(***************************************************************************)
(* SlotService.mq5: the command server                                     *)
(***************************************************************************)

Smaller(m, n) == IF m < n THEN m ELSE n

\* closesocket() at the server's end: what was not read is discarded.
Released(S) ==
  [c \in Conns |-> IF c \in S THEN (IF cst[c] = "free" THEN "none" ELSE "gone") ELSE srv[c]]
Discarded(S) == [c \in Conns |-> IF c \in S THEN <<>> ELSE c2s[c]]

\* PollCommandServer(), accept loop: at most MaxClients connections are taken
\* off the backlog, and those there is no room for are closed.
PollAccept ==
  LET Backlog == {c \in Conns : srv[c] = "backlog"}
      Clients == {c \in Conns : srv[c] = "client"}
  IN
  /\ listening /\ todo = {} /\ busy = NoConn
  /\ Backlog \cup Clients # {}
  /\ \E Taken \in SUBSET Backlog :
       /\ Cardinality(Taken) = Smaller(Cardinality(Backlog), MaxClients)
       /\ \E In \in SUBSET Taken :
            /\ Cardinality(In) = Smaller(Cardinality(Taken), MaxClients - Cardinality(Clients))
            /\ srv' = [c \in Conns |-> IF c \in In THEN "client" ELSE Released(Taken \ In)[c]]
            /\ c2s' = Discarded(Taken \ In)
            /\ todo' = Clients \cup In
  /\ UNCHANGED <<clientVars, listening, busy, runs, s2c, history>>

\* recv loop, one frame of the chunk received from client c: run its handler
\* and send the response.
ServeFrame(c) ==
  LET d == Head(c2s[c]) IN
  /\ c \in todo /\ busy \in {NoConn, c} /\ c2s[c] # <<>>
  /\ busy' = c
  /\ runs' = [runs EXCEPT ![d] = @ + 1]
  /\ c2s' = [c2s EXCEPT ![c] = Tail(@)]
  /\ s2c' = IF cst[c] = "open" THEN [s2c EXCEPT ![c] = @ \o Reply(d)] ELSE s2c
  /\ UNCHANGED <<clientVars, listening, todo, srv, history>>

\* The chunk is worked through: the loop goes on to the next client.
ServeDone ==
  /\ busy # NoConn
  /\ todo' = todo \ {busy}
  /\ busy' = NoConn
  /\ UNCHANGED <<clientVars, listening, runs, srv, c2s, s2c, history>>

\* recv() returned nothing.  "Would block" is turned into n = 0 and n = 0 is
\* taken for a close by the peer, so that an idle client is closed as well.
\* A client that reset the connection gives an error, and what it had sent is
\* lost.
ServeClose(c) ==
  /\ c \in todo /\ busy = NoConn
  /\ c2s[c] = <<>> \/ cst[c] \in {"free", "dead", "failed"}
  /\ todo' = todo \ {c}
  /\ srv' = Released({c})
  /\ c2s' = Discarded({c})
  /\ UNCHANGED <<clientVars, listening, busy, runs, s2c, history>>

\* The terminal dies or the service stops: every socket of the server closes,
\* and the end of a response that was being sent may never arrive.
ServerStop ==
  /\ listening
  /\ listening' = FALSE
  /\ todo' = {}
  /\ busy' = NoConn
  /\ LET Attached == {c \in Conns : srv[c] \in {"backlog", "client"}} IN
     /\ srv' = Released(Attached)
     /\ c2s' = Discarded(Attached)
  /\ \E c \in Conns : \E k \in 0..Len(s2c[c]) :
       s2c' = [s2c EXCEPT ![c] = SubSeq(@, 1, k)]
  /\ UNCHANGED <<clientVars, runs, history>>

StartCommandServer ==
  /\ ~listening
  /\ listening' = TRUE
  /\ UNCHANGED <<clientVars, todo, busy, runs, srv, c2s, s2c, history>>

-----------------------------------------------------------------------------

ClientNext ==
  \/ \E d \in Cmds : Dispatch(d) \/ EnsureConnected(d) \/ Timeout(d) \/ WriteError(d)
  \/ \E c \in Conns : \/ ConnectOk(c) \/ ErrorEvent(c) \/ CloseEvent(c)
                      \/ DataChunk(c) \/ DataFrame(c) \/ Reconnect(c)
  \/ ReconnectAfterDestroy
  \/ Destroy

ServerNext ==
  \/ PollAccept
  \/ \E c \in Conns : ServeFrame(c) \/ ServeClose(c)
  \/ ServeDone
  \/ ServerStop
  \/ StartCommandServer

Next == ClientNext \/ ServerNext

Spec == Init /\ [][Next]_vars

(***************************************************************************)
(* Fairness.  Node's event loop runs timers that are due and delivers the  *)
(* 'close' of a destroyed socket; the terminal calls OnTimer periodically, *)
(* so a poll that can go on goes on.  Nothing obliges a caller to dispatch, *)
(* the network to connect or deliver, or the terminal to start or stop.    *)
(***************************************************************************)
Fairness ==
  /\ \A d \in Cmds : WF_vars(EnsureConnected(d)) /\ WF_vars(Timeout(d))
  /\ \A c \in Conns : WF_vars(CloseEvent(c)) /\ WF_vars(ServeFrame(c)) /\ WF_vars(ServeClose(c))
  /\ WF_vars(\E c \in Conns : Reconnect(c))
  /\ WF_vars(PollAccept) /\ WF_vars(ServeDone)

FairSpec == Spec /\ Fairness

-----------------------------------------------------------------------------
(***************************************************************************)
(* Properties                                                              *)
(***************************************************************************)

\* The client owes itself exactly one thing: a socket, or one reconnect timer.
\* The comments of connect() tell of the storm of reconnects there was when
\* 'error' and 'close' of one socket each scheduled one.
Held == {c \in Conns : cst[c] \in {"connecting", "open", "dead"}}
OneChannel ==
  IF destroyed
  THEN sock = NoConn
  ELSE \/ timers = 0 /\ sock # NoConn /\ Held = {sock}
       \/ timers = 1 /\ sock = NoConn /\ Held = {}

\* The commands that were written and not settled are those in the pending
\* map and those whose timer runs: none can hang, no timer outlives its call.
Unsettled == {d \in Cmds : call[d] = "sent"}
Accounted == pending = Unsettled /\ armed = Unsettled

\* What the outcome of dispatch() says of the terminal: nothing is handled
\* twice although connections come and go; a result means it was handled, a
\* refusal that its action is unknown, and a command rejected before the
\* write is never handled, not even later.
OutcomeTruth ==
  \A d \in Cmds :
    /\ runs[d] <= 1
    /\ call[d] = "ok" => d \in Known /\ runs[d] = 1
    /\ call[d] = "failed" => d \notin Known /\ runs[d] = 1
    /\ call[d] = "unsent" => runs[d] = 0

\* failPending() rejects the whole map, so it is right only because it never
\* runs while a command rides on a connection that is still good.
LostWithItsConnection ==
  [][\A d \in Cmds :
       call[d] = "sent" /\ call'[d] = "lost"
         => cst'[via[d]] \notin {"connecting", "open"}]_vars

\* A reply that arrives while its command is pending settles it, unless the
\* buffer still holds bytes of an earlier connection.
ReplyResolves ==
  [][\A d \in answered' \ answered :
       call'[d] \in {"ok", "failed"} \/ stale]_vars

\* The documentation of dispatch(): it rejects with a timeout or a socket
\* error "if MQL5 doesn't reply in time".
TimeoutMeansNoReply == \A d \in Cmds : call[d] = "timeout" => d \notin answered

\* The comment on g_cmdClients: sockets "stay open until the client closes or
\* the service shuts down".
ServerKeepsClients ==
  [][\A c \in Conns :
       srv[c] = "client" /\ srv'[c] # "client" => cst[c] # "open" \/ ~listening']_vars

\* Every dispatch() settles, whatever the terminal and the network do.
EveryCallSettles ==
  \A d \in Cmds : call[d] \in {"waiting", "sent"} ~> call[d] \notin {"waiting", "sent"}

\* A client that lost its socket gets a new one, unless it is destroyed.
Reconnects == sock = NoConn ~> sock # NoConn \/ destroyed

\* The channel keeps the contract of AtMostOnceCall.
outcomeBar ==
  [d \in Cmds |->
     CASE call[d] = "idle" -> "none"
       [] call[d] \in {"waiting", "sent"} -> "open"
       [] call[d] \in {"timeout", "lost"} -> "unknown"
       [] OTHER -> call[d]]

Contract == INSTANCE AtMostOnceCall WITH Calls <- Cmds, outcome <- outcomeBar

KeepsContract == Contract!Spec
=============================================================================
