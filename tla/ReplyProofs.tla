----------------------------- MODULE ReplyProofs ----------------------------
(***************************************************************************)
(* Proof that a reply settles its command, for every way of cutting        *)
(* responses into chunks: what the client has buffered and what is still   *)
(* under way are whole responses but for the end of a lost connection.     *)
(***************************************************************************)
EXTENDS CommandChannelProofs

\* The last chunk of a response carries the newline.
Complete(x) == x.part = Parts[x.cmd]

\* What may come after a chunk: the next of its response, or a new response.
Follows(x, y) ==
  IF Complete(x) THEN y.part = 1 ELSE y.cmd = x.cmd /\ y.part = x.part + 1

\* A wire: responses one after the other, the first and the last perhaps cut.
Chain(q) ==
  /\ \A i \in 1..Len(q) : q[i].part \in 1..Parts[q[i].cmd]
  /\ \A i \in 1..Len(q) : \A j \in 1..Len(q) : j = i + 1 => Follows(q[i], q[j])

\* The last response of a wire is whole.
Ended(q) == q = <<>> \/ Complete(q[Len(q)])

\* The two ends of a connection, and the destroyed client.
Ends ==
  /\ \A c \in Conns : /\ cst[c] = "connecting" => srv[c] = "none"
                      /\ cst[c] = "open" => srv[c] # "none"
                      /\ cst[c] # "open" => s2c[c] = <<>>
  /\ \A c \in todo : srv[c] = "client"
  /\ destroyed => \A c \in Conns : cst[c] \notin {"connecting", "open"}

\* The server writes whole responses; only its own end cuts one.
Framed == \A c \in Conns : Chain(s2c[c]) /\ (srv[c] = "gone" \/ Ended(s2c[c]))

\* The buffer is the beginning of one response.
Begun ==
  \A i \in 1..Len(recvBuf) :
    recvBuf[i].cmd = recvBuf[1].cmd /\ recvBuf[i].part = i /\ ~Complete(recvBuf[i])

\* A chunk that goes on where the buffer ends.
Continues(x) ==
  IF recvBuf = <<>> THEN x.part = 1 ELSE x.cmd = recvBuf[1].cmd /\ x.part = Len(recvBuf) + 1

\* Unless it is of an earlier connection, the wire goes on where the buffer ends.
Buffered ==
  ~stale =>
    /\ Begun
    /\ \A c \in Conns :
         /\ cst[c] = "connecting" => recvBuf = <<>>
         /\ cst[c] = "open" => IF s2c[c] = <<>> THEN srv[c] = "gone" \/ recvBuf = <<>>
                               ELSE Continues(s2c[c][1])

-----------------------------------------------------------------------------
(***************************************************************************)
(* Chains of responses                                                     *)
(***************************************************************************)

\* A chunk names a command and its place in the response.
LEMMA ChunkType ==
  ASSUME NEW x \in Chunk
  PROVE  x.cmd \in Cmds /\ x.part \in Nat /\ Parts[x.cmd] \in Nat \ {0}
BY ChannelAssumption DEF Chunk

\* A response is a whole chain.
LEMMA ReplyChain ==
  ASSUME NEW d \in Cmds
  PROVE  /\ Reply(d) \in Seq(Chunk) /\ Len(Reply(d)) = Parts[d] /\ Parts[d] \in Nat \ {0}
         /\ Chain(Reply(d)) /\ Reply(d)[1].part = 1 /\ Complete(Reply(d)[Parts[d]])
<1>1. Parts[d] \in Nat \ {0}
  BY ChannelAssumption
<1>2. Reply(d) \in Seq(Chunk) /\ Len(Reply(d)) = Parts[d]
  BY ReplyType
<1>3. \A i \in 1..Parts[d] : Reply(d)[i].cmd = d /\ Reply(d)[i].part = i
  BY <1>1 DEF Reply
<1>4. Chain(Reply(d))
  BY <1>1, <1>2, <1>3 DEF Chain, Follows, Complete
<1>5. QED
  BY <1>1, <1>2, <1>3, <1>4 DEF Complete

\* A response may be written after whole responses.
LEMMA ChainAppends ==
  ASSUME NEW q \in Seq(Chunk), Chain(q), Ended(q), NEW d \in Cmds
  PROVE  LET r == q \o Reply(d)
         IN  /\ Chain(r) /\ Ended(r) /\ r # <<>>
             /\ r[1] = IF q = <<>> THEN Reply(d)[1] ELSE q[1]
<1> DEFINE r == q \o Reply(d)
           n == Len(q)
           m == Parts[d]
<1>1. /\ Reply(d) \in Seq(Chunk) /\ Len(Reply(d)) = m /\ m \in Nat \ {0}
      /\ Chain(Reply(d)) /\ Reply(d)[1].part = 1 /\ Complete(Reply(d)[m])
  BY ReplyChain
<1>2. n \in Nat /\ (q = <<>> <=> n = 0)
  BY EmptySeq
<1>3. /\ r \in Seq(Chunk) /\ Len(r) = n + m
      /\ \A i \in 1..n : r[i] = q[i]
      /\ \A i \in 1..m : r[n + i] = Reply(d)[i]
  BY <1>1, <1>2, ConcatProperties
<1> HIDE DEF r, n, m
<1>4. \A i \in 1..Len(r) : i \in 1..n \/ \E k \in 1..m : i = n + k
  <2> SUFFICES ASSUME NEW i \in 1..Len(r), i \notin 1..n PROVE \E k \in 1..m : i = n + k
    OBVIOUS
  <2>1. i - n \in 1..m /\ i = n + (i - n)
    BY <1>1, <1>2, <1>3
  <2>2. QED
    BY <2>1
<1>5. ASSUME NEW i \in 1..Len(r) PROVE r[i].part \in 1..Parts[r[i].cmd]
  <2>1. CASE i \in 1..n
    BY <1>3, <2>1 DEF Chain, n
  <2>2. ASSUME NEW k \in 1..m, i = n + k PROVE r[i].part \in 1..Parts[r[i].cmd]
    <3>1. r[i] = Reply(d)[k] /\ k \in 1..Len(Reply(d))
      BY <1>1, <1>3, <2>2
    <3>2. QED
      BY <1>1, <3>1 DEF Chain
  <2>3. QED
    BY <1>4, <2>1, <2>2
<1>6. ASSUME NEW i \in 1..Len(r), NEW j \in 1..Len(r), j = i + 1
      PROVE  Follows(r[i], r[j])
  <2>1. CASE j \in 1..n
    <3>1. i \in 1..n
      BY <1>2, <1>6, <2>1
    <3>2. QED
      BY <1>3, <1>6, <2>1, <3>1 DEF Chain, n
  <2>2. CASE i \notin 1..n
    <3>1. PICK k \in 1..m : i = n + k
      BY <1>4, <2>2
    <3>2. k + 1 \in 1..m /\ j = n + (k + 1)
      BY <1>1, <1>2, <1>3, <1>6, <3>1
    <3>3. Follows(Reply(d)[k], Reply(d)[k + 1])
      BY <1>1, <3>1, <3>2 DEF Chain
    <3>4. QED
      BY <1>3, <3>1, <3>2, <3>3
  <2>3. CASE i \in 1..n /\ j \notin 1..n
    <3>1. i = n /\ j = n + 1 /\ 1 \in 1..m
      BY <1>1, <1>2, <1>6, <2>3
    <3>2. r[i] = q[n] /\ r[j] = Reply(d)[1] /\ q # <<>>
      BY <1>2, <1>3, <2>3, <3>1
    <3>3. Complete(q[n])
      BY <3>2 DEF Ended, n
    <3>4. QED
      BY <1>1, <3>2, <3>3 DEF Follows
  <2>4. QED
    BY <2>1, <2>2, <2>3
<1>7. Len(r) # 0 /\ r # <<>>
  BY <1>1, <1>2, <1>3, EmptySeq
<1>8. r[Len(r)] = Reply(d)[m]
  BY <1>1, <1>3
<1>9. r[1] = IF q = <<>> THEN Reply(d)[1] ELSE q[1]
  <2>1. CASE q = <<>>
    <3>1. n = 0 /\ 1 \in 1..m
      BY <1>1, <1>2, <2>1
    <3>2. r[n + 1] = Reply(d)[1]
      BY <1>3, <3>1
    <3>3. QED
      BY <2>1, <3>1, <3>2
  <2>2. CASE q # <<>>
    BY <1>2, <1>3, <2>2
  <2>3. QED
    BY <2>1, <2>2
<1>10. Chain(r) /\ Ended(r)
  BY <1>1, <1>5, <1>6, <1>8 DEF Chain, Ended
<1>11. QED
  BY <1>7, <1>9, <1>10 DEF r

\* Reading a chunk leaves a chain that goes on where the chunk ended.
LEMMA ChainRead ==
  ASSUME NEW q \in Seq(Chunk), Chain(q), q # <<>>
  PROVE  /\ Head(q) = q[1] /\ q[1] \in Chunk /\ q[1].part \in 1..Parts[q[1].cmd]
         /\ Tail(q) \in Seq(Chunk) /\ Chain(Tail(q))
         /\ Ended(q) => Ended(Tail(q))
         /\ IF Tail(q) = <<>> THEN Ended(q) => Complete(q[1])
                              ELSE Follows(q[1], Tail(q)[1])
<1> DEFINE n == Len(q)
           t == Tail(q)
<1>1. n \in Nat /\ n >= 1 /\ 1 \in 1..n
  BY EmptySeq
<1>2. /\ Head(q) = q[1] /\ t \in Seq(Chunk) /\ Len(t) = n - 1
      /\ \A i \in 1..n - 1 : t[i] = q[i + 1]
  BY HeadTailProperties
<1>3. t = <<>> <=> n = 1
  BY <1>1, <1>2, EmptySeq
<1>4. q[1] \in Chunk /\ q[1].part \in 1..Parts[q[1].cmd]
  BY <1>1, ElementOfSeq DEF Chain
<1> HIDE DEF n, t
<1>5. \A i \in 1..n - 1 : i + 1 \in 1..n /\ t[i] = q[i + 1]
  BY <1>1, <1>2
<1>6. Chain(t)
  <2>1. \A i \in 1..Len(t) : t[i].part \in 1..Parts[t[i].cmd]
    BY <1>2, <1>5 DEF Chain, n
  <2>2. ASSUME NEW i \in 1..Len(t), NEW j \in 1..Len(t), j = i + 1 PROVE Follows(t[i], t[j])
    <3>1. i + 1 \in 1..n /\ j + 1 \in 1..n /\ j + 1 = (i + 1) + 1
      BY <1>2, <1>5, <2>2
    <3>2. Follows(q[i + 1], q[j + 1])
      BY <3>1 DEF Chain, n
    <3>3. QED
      BY <1>2, <1>5, <3>2
  <2>3. QED
    BY <2>1, <2>2 DEF Chain
<1>7. Ended(q) => Ended(t)
  <2>1. CASE n = 1
    BY <1>3, <2>1 DEF Ended
  <2>2. CASE n # 1
    <3>1. n - 1 \in 1..n - 1 /\ (n - 1) + 1 = n
      BY <1>1, <2>2
    <3>2. t[Len(t)] = q[n]
      BY <1>2, <3>1
    <3>3. QED
      BY <3>2 DEF Ended, n
  <2>3. QED
    BY <2>1, <2>2
<1>8. IF t = <<>> THEN Ended(q) => Complete(q[1]) ELSE Follows(q[1], t[1])
  <2>1. CASE n = 1
    BY <1>3, <2>1 DEF Ended, n
  <2>2. CASE n # 1
    <3>1. 1 \in 1..n - 1 /\ 1 \in 1..n /\ 2 \in 1..n
      BY <1>1, <2>2
    <3>2. t[1] = q[2] /\ Follows(q[1], q[2])
      BY <1>2, <3>1 DEF Chain, n
    <3>3. QED
      BY <1>3, <2>2, <3>2
  <2>3. QED
    BY <2>1, <2>2
<1>9. QED
  BY <1>2, <1>4, <1>6, <1>7, <1>8 DEF t

\* The beginning of a chain is one.
LEMMA ChainCut ==
  ASSUME NEW q \in Seq(Chunk), Chain(q), NEW k \in 0..Len(q)
  PROVE  LET r == SubSeq(q, 1, k)
         IN  Chain(r) /\ (r # <<>> => q # <<>> /\ r[1] = q[1])
<1> DEFINE r == SubSeq(q, 1, k)
<1>1. Len(q) \in Nat /\ k \in Nat /\ k <= Len(q)
  OBVIOUS
<1>2. r \in Seq(Chunk) /\ Len(r) = k /\ \A i \in 1..k : i \in 1..Len(q) /\ r[i] = q[i]
  BY <1>1
<1> HIDE DEF r
<1>3. Chain(r)
  BY <1>2 DEF Chain
<1>4. r # <<>> => q # <<>> /\ r[1] = q[1]
  <2> SUFFICES ASSUME r # <<>> PROVE q # <<>> /\ r[1] = q[1]
    OBVIOUS
  <2>1. 1 \in 1..k /\ Len(q) # 0
    BY <1>1, <1>2, EmptySeq
  <2>2. QED
    BY <1>2, <2>1, EmptySeq
<1>5. QED
  BY <1>3, <1>4 DEF r

\* Nothing is a chain.
LEMMA EmptyChain == Chain(<<>>) /\ Ended(<<>>)
BY DEF Chain, Ended

-----------------------------------------------------------------------------
(***************************************************************************)
(* The invariant                                                           *)
(***************************************************************************)

\* At most one connection is being made or open.
LEMMA OneLive ==
  ASSUME OneChannel, Ends, NEW b \in Conns, NEW c \in Conns,
         cst[b] \in {"connecting", "open"}, cst[c] \in {"connecting", "open"}
  PROVE  b = c /\ ~destroyed
BY DEF OneChannel, Ends, Held

\* No handler of either end lets the two ends of a connection disagree.
LEMMA EndsStep == TypeOK /\ OneChannel /\ Ends /\ [Next]_vars => Ends'
<1> SUFFICES ASSUME TypeOK, OneChannel, Ends, [Next]_vars PROVE Ends'
  OBVIOUS
<1> USE DEF TypeOK, Ends
<1>0. ASSUME UNCHANGED <<cst, srv, s2c, todo, destroyed>> PROVE Ends'
  BY <1>0
<1>1. ASSUME NEW d \in Cmds, Dispatch(d) \/ EnsureConnected(d) \/ Timeout(d) \/ WriteError(d)
      PROVE  Ends'
  BY <1>0, <1>1 DEF Dispatch, EnsureConnected, Timeout, WriteError, serverVars
<1>2. ASSUME NEW c \in Conns, ConnectOk(c) PROVE Ends'
  BY <1>2 DEF ConnectOk, serverVars
<1>3. ASSUME NEW c \in Conns, ErrorEvent(c) PROVE Ends'
  BY <1>3 DEF ErrorEvent, serverVars
<1>4. ASSUME NEW c \in Conns, CloseEvent(c) PROVE Ends'
  BY <1>4 DEF CloseEvent, serverVars
<1>5. ASSUME NEW c \in Conns, DataChunk(c) \/ DataFrame(c) PROVE Ends'
  BY <1>5 DEF DataChunk, DataFrame, serverVars
<1>6. ASSUME NEW c \in Conns, Reconnect(c) PROVE Ends'
  BY <1>6 DEF Reconnect, serverVars
<1>7. CASE ReconnectAfterDestroy
  BY <1>0, <1>7 DEF ReconnectAfterDestroy, serverVars
<1>8. CASE Destroy
  <2>1. \A c \in Conns : cst[c] \in {"connecting", "open"} => c = sock
    BY <1>8 DEF Destroy, OneChannel, Held
  <2>2. QED
    BY <1>8, <2>1 DEF Destroy, serverVars
<1>9. ASSUME NEW S, srv' = Released(S), UNCHANGED <<cst, s2c, destroyed>>,
             \A c \in S : c \in Conns /\ srv[c] # "none",
             \A c \in todo' : c \in Conns /\ srv[c] = "client" /\ c \notin S
      PROVE  Ends'
  BY <1>9 DEF Released
<1>10. CASE PollAccept
  <2>1. \E Taken \in SUBSET {c \in Conns : srv[c] = "backlog"} : \E In \in SUBSET Taken :
          /\ srv' = [c \in Conns |-> IF c \in In THEN "client" ELSE Released(Taken \ In)[c]]
          /\ todo' = {c \in Conns : srv[c] = "client"} \cup In
    BY <1>10 DEF PollAccept
  <2>2. UNCHANGED <<cst, s2c, destroyed>>
    BY <1>10 DEF PollAccept, clientVars
  <2>3. QED
    BY <2>1, <2>2 DEF Released
<1>11. ASSUME NEW c \in Conns, ServeFrame(c) PROVE Ends'
  BY <1>11 DEF ServeFrame, clientVars
<1>12. CASE ServeDone
  BY <1>12 DEF ServeDone, clientVars
<1>13. ASSUME NEW c \in Conns, ServeClose(c) PROVE Ends'
  BY <1>9, <1>13 DEF ServeClose, clientVars
<1>14. CASE ServerStop
  <2>0. PICK c \in Conns : \E k \in 0..Len(s2c[c]) : s2c' = [s2c EXCEPT ![c] = SubSeq(@, 1, k)]
    BY <1>14 DEF ServerStop
  <2>1. PICK k \in 0..Len(s2c[c]) : s2c' = [s2c EXCEPT ![c] = SubSeq(@, 1, k)]
    BY <2>0
  <2>2. \A e \in Conns : s2c[e] = <<>> => s2c'[e] = <<>>
    <3> SUFFICES ASSUME s2c[c] = <<>> PROVE SubSeq(s2c[c], 1, k) = <<>>
      BY <2>1
    <3>1. k = 0
      BY <2>1, EmptySeq
    <3>2. QED
      BY <3>1, SubSeqEmpty
  <2>3. /\ srv' = Released({e \in Conns : srv[e] \in {"backlog", "client"}})
        /\ todo' = {} /\ UNCHANGED <<cst, destroyed>>
    BY <1>14 DEF ServerStop, clientVars
  <2>4. QED
    BY <2>2, <2>3 DEF Released
<1>15. CASE StartCommandServer
  BY <1>0, <1>15 DEF StartCommandServer, clientVars
<1>16. CASE UNCHANGED vars
  BY <1>0, <1>16 DEF vars, clientVars, serverVars
<1>17. QED
  BY <1>1, <1>2, <1>3, <1>4, <1>5, <1>6, <1>7, <1>8, <1>10, <1>11, <1>12, <1>13, <1>14, <1>15,
     <1>16 DEF Next, ClientNext, ServerNext

\* The server's end of a connection that is gone stays so while it matters.
LEMMA FramedStep == TypeOK /\ Ends /\ Framed /\ [Next]_vars => Framed'
<1> SUFFICES ASSUME TypeOK, Ends, Framed, [Next]_vars PROVE Framed'
  OBVIOUS
<1>0. ASSUME \A c \in Conns : /\ s2c'[c] = s2c[c] \/ s2c'[c] = <<>>
                              /\ srv[c] = "gone" => srv'[c] = "gone" \/ s2c'[c] = <<>>
      PROVE  Framed'
  BY <1>0, EmptyChain DEF Framed
<1>1. ASSUME UNCHANGED <<s2c, srv>> PROVE Framed'
  BY <1>1 DEF Framed
<1>2. ASSUME NEW d \in Cmds, Dispatch(d) \/ EnsureConnected(d) \/ Timeout(d) \/ WriteError(d)
      PROVE  Framed'
  BY <1>1, <1>2 DEF Dispatch, EnsureConnected, Timeout, WriteError
<1>3. ASSUME NEW c \in Conns, ConnectOk(c) PROVE Framed'
  BY <1>0, <1>3 DEF ConnectOk, TypeOK, Ends
<1>4. ASSUME NEW c \in Conns, ErrorEvent(c) PROVE Framed'
  BY <1>0, <1>4 DEF ErrorEvent, TypeOK
<1>5. ASSUME NEW c \in Conns, CloseEvent(c) PROVE Framed'
  BY <1>0, <1>5 DEF CloseEvent, TypeOK
<1>6. ASSUME NEW c \in Conns, DataChunk(c) \/ DataFrame(c) PROVE Framed'
  <2>1. s2c[c] # <<>> /\ s2c[c] \in Seq(Chunk) /\ srv' = srv
    BY <1>6 DEF DataChunk, DataFrame, TypeOK
  <2>2. s2c' = [s2c EXCEPT ![c] = Tail(@)] \/ s2c' = [s2c EXCEPT ![c] = <<>>]
    BY <1>6 DEF DataChunk, DataFrame
  <2>3. Chain(Tail(s2c[c])) /\ (Ended(s2c[c]) => Ended(Tail(s2c[c])))
    BY <2>1, ChainRead DEF Framed
  <2>4. QED
    BY <2>1, <2>2, <2>3, EmptyChain DEF Framed, TypeOK
<1>7. ASSUME NEW c \in Conns, Reconnect(c) PROVE Framed'
  BY <1>1, <1>7 DEF Reconnect
<1>8. CASE ReconnectAfterDestroy \/ ServeDone \/ StartCommandServer
  BY <1>1, <1>8 DEF ReconnectAfterDestroy, ServeDone, StartCommandServer
<1>9. CASE Destroy
  BY <1>0, <1>9 DEF Destroy
<1>10. CASE PollAccept
  <2>1. \A c \in Conns : srv[c] = "gone" => srv'[c] = "gone"
    BY <1>10 DEF PollAccept, Released
  <2>2. s2c' = s2c
    BY <1>10 DEF PollAccept
  <2>3. QED
    BY <1>0, <2>1, <2>2
<1>11. ASSUME NEW c \in Conns, ServeFrame(c) PROVE Framed'
  <2> DEFINE d == Head(c2s[c])
  <2>1. d \in Cmds /\ srv' = srv /\ srv[c] = "client"
    BY <1>11, HeadTailProperties DEF ServeFrame, TypeOK, Ends
  <2>2. s2c[c] \in Seq(Chunk) /\ Chain(s2c[c]) /\ Ended(s2c[c])
    BY <2>1 DEF Framed, TypeOK
  <2>3. Chain(s2c[c] \o Reply(d)) /\ Ended(s2c[c] \o Reply(d))
    BY <2>1, <2>2, ChainAppends
  <2>4. s2c' = [s2c EXCEPT ![c] = @ \o Reply(d)] \/ s2c' = s2c
    BY <1>11 DEF ServeFrame
  <2>5. QED
    BY <2>1, <2>3, <2>4 DEF Framed, TypeOK
<1>12. ASSUME NEW c \in Conns, ServeClose(c) PROVE Framed'
  BY <1>0, <1>12 DEF ServeClose, Released, Ends
<1>13. CASE ServerStop
  <2>1. PICK c \in Conns : \E k \in 0..Len(s2c[c]) : s2c' = [s2c EXCEPT ![c] = SubSeq(@, 1, k)]
    BY <1>13 DEF ServerStop
  <2>2. PICK k \in 0..Len(s2c[c]) : s2c' = [s2c EXCEPT ![c] = SubSeq(@, 1, k)]
    BY <2>1
  <2>3. Chain(SubSeq(s2c[c], 1, k)) /\ (SubSeq(s2c[c], 1, k) # <<>> => s2c[c] # <<>>)
    BY ChainCut DEF Framed, TypeOK
  <2>4. \A e \in Conns : srv[e] # "none" => srv'[e] = "gone" \/ cst[e] = "free"
    BY <1>13 DEF ServerStop, Released, TypeOK, ServerEnd
  <2>5. \A e \in Conns : s2c[e] # <<>> => srv'[e] = "gone"
    BY <2>4 DEF Ends
  <2>6. \A e \in Conns : Chain(s2c'[e]) /\ (s2c'[e] # <<>> => s2c[e] # <<>>)
    BY <2>2, <2>3 DEF Framed, TypeOK
  <2>7. QED
    BY <2>5, <2>6 DEF Framed, Ended
<1>14. CASE UNCHANGED vars
  BY <1>1, <1>14 DEF vars
<1>15. QED
  BY <1>2, <1>3, <1>4, <1>5, <1>6, <1>7, <1>8, <1>9, <1>10, <1>11, <1>12, <1>13, <1>14
  DEF Next, ClientNext, ServerNext

\* What a chunk that is read makes of the buffer.
LEMMA ChunkRead ==
  ASSUME TypeOK, OneChannel, Ends, Framed, Buffered, NEW c \in Conns, DataChunk(c)
  PROVE  Buffered'
<1> SUFFICES ASSUME ~stale PROVE Buffered'
  BY DEF DataChunk, history, Buffered
<1> DEFINE q == s2c[c]
           x == Head(q)
<1>1. /\ q \in Seq(Chunk) /\ q # <<>> /\ cst[c] = "open" /\ ~Complete(x)
      /\ recvBuf \in Seq(Chunk) /\ Len(recvBuf) \in Nat
  BY DEF DataChunk, TypeOK, Complete
<1>2. /\ x = q[1] /\ x \in Chunk
      /\ IF Tail(q) = <<>> THEN Ended(q) => Complete(x) ELSE Follows(x, Tail(q)[1])
  BY <1>1, ChainRead DEF Framed
<1>3. Begun /\ Continues(x)
  BY <1>1, <1>2 DEF Buffered
<1>4. /\ recvBuf' = Append(recvBuf, x) /\ recvBuf' # <<>>
      /\ Len(recvBuf') = Len(recvBuf) + 1
      /\ \A i \in 1..Len(recvBuf) : recvBuf'[i] = recvBuf[i]
      /\ recvBuf'[Len(recvBuf) + 1] = x
  BY <1>1, <1>2, AppendProperties DEF DataChunk
<1> HIDE DEF x
<1>5. recvBuf'[1].cmd = x.cmd /\ x.part = Len(recvBuf')
  <2>1. CASE recvBuf = <<>>
    BY <1>3, <1>4, <2>1, EmptySeq DEF Continues
  <2>2. CASE recvBuf # <<>>
    <3>1. 1 \in 1..Len(recvBuf)
      BY <1>1, <2>2, EmptySeq
    <3>2. QED
      BY <1>3, <1>4, <2>2, <3>1 DEF Continues
  <2>3. QED
    BY <2>1, <2>2
<1>6. Begun'
  <2> SUFFICES ASSUME NEW i \in 1..Len(recvBuf')
               PROVE  /\ recvBuf'[i].cmd = recvBuf'[1].cmd
                      /\ recvBuf'[i].part = i /\ ~Complete(recvBuf'[i])
    BY DEF Begun, Complete
  <2>1. CASE i \in 1..Len(recvBuf)
    <3>1. 1 \in 1..Len(recvBuf)
      BY <1>1, <2>1
    <3>2. QED
      BY <1>3, <1>4, <2>1, <3>1 DEF Begun
  <2>2. CASE i \notin 1..Len(recvBuf)
    <3>1. i = Len(recvBuf) + 1
      BY <1>1, <1>4, <2>2
    <3>2. QED
      BY <1>1, <1>4, <1>5, <3>1
  <2>3. QED
    BY <2>1, <2>2
<1>7. \A e \in Conns : e # c => cst'[e] \notin {"connecting", "open"}
  BY <1>1, OneLive DEF DataChunk, TypeOK
<1>8. cst'[c] # "connecting"
  BY <1>1 DEF DataChunk, TypeOK
<1>9. ASSUME cst'[c] = "open"
      PROVE  IF s2c'[c] = <<>> THEN srv'[c] = "gone" ELSE Continues(s2c[c][1])'
  <2>1. s2c'[c] = Tail(q) /\ srv' = srv
    BY <1>9 DEF DataChunk, TypeOK
  <2>2. CASE Tail(q) = <<>>
    BY <1>1, <1>2, <2>1, <2>2 DEF Framed
  <2>3. CASE Tail(q) # <<>>
    <3>1. Tail(q)[1].cmd = x.cmd /\ Tail(q)[1].part = x.part + 1
      BY <1>1, <1>2, <2>3 DEF Follows
    <3>2. QED
      BY <1>4, <1>5, <2>1, <2>3, <3>1 DEF Continues
  <2>4. QED
    BY <2>2, <2>3
<1>10. QED
  BY <1>6, <1>7, <1>8, <1>9 DEF Buffered

\* A chunk that completes a response: the buffer is empty, and what comes next
\* begins a response, whatever connection the buffer was of.
LEMMA FrameRead ==
  ASSUME TypeOK, OneChannel, Ends, Framed, NEW c \in Conns, DataFrame(c)
  PROVE  Buffered'
<1> DEFINE q == s2c[c]
<1>1. /\ q \in Seq(Chunk) /\ q # <<>> /\ cst[c] = "open" /\ Complete(Head(q))
      /\ recvBuf' = <<>> /\ UNCHANGED <<cst, srv>> /\ s2c' = [s2c EXCEPT ![c] = Tail(@)]
  BY DEF DataFrame, TypeOK, Complete
<1>2. Tail(q) # <<>> => Tail(q)[1].part = 1
  BY <1>1, ChainRead DEF Framed, Follows
<1>3. Begun'
  BY <1>1, EmptySeq DEF Begun
<1>4. \A e \in Conns : e # c => cst'[e] \notin {"connecting", "open"}
  BY <1>1, OneLive
<1>5. IF s2c'[c] = <<>> THEN TRUE ELSE s2c'[c][1].part = 1
  BY <1>1, <1>2 DEF TypeOK
<1>6. QED
  BY <1>1, <1>3, <1>4, <1>5 DEF Buffered, Continues

\* A response that is written goes on where the wire or the buffer ends.
LEMMA ServeGoesOn ==
  ASSUME TypeOK, Ends, Framed, Buffered, NEW c \in Conns, ServeFrame(c)
  PROVE  Buffered'
<1> SUFFICES ASSUME ~stale PROVE Buffered'
  BY DEF ServeFrame, history, Buffered
<1> DEFINE d == Head(c2s[c])
           q == s2c[c]
<1>1. /\ d \in Cmds /\ srv[c] = "client" /\ UNCHANGED <<cst, srv, recvBuf, stale>>
  BY HeadTailProperties DEF ServeFrame, TypeOK, Ends, clientVars, history
<1>2. q \in Seq(Chunk) /\ Chain(q) /\ Ended(q)
  BY <1>1 DEF Framed, TypeOK
<1>3. /\ q \o Reply(d) # <<>>
      /\ (q \o Reply(d))[1] = IF q = <<>> THEN Reply(d)[1] ELSE q[1]
      /\ Reply(d)[1].part = 1
  BY <1>1, <1>2, ChainAppends, ReplyChain
<1>4. Begun'
  BY <1>1 DEF Buffered, Begun
<1>5. \A e \in Conns : e # c => s2c'[e] = s2c[e]
  BY DEF ServeFrame, TypeOK
<1>6. cst[c] = "open" => s2c'[c] = q \o Reply(d)
  BY DEF ServeFrame, TypeOK
<1>7. cst[c] = "open" => s2c'[c] # <<>> /\ Continues(s2c[c][1])'
  <2> SUFFICES ASSUME cst[c] = "open" PROVE s2c'[c] # <<>> /\ Continues(s2c[c][1])'
    OBVIOUS
  <2>1. CASE q = <<>>
    BY <1>1, <1>3, <1>6, <2>1 DEF Buffered, Continues
  <2>2. CASE q # <<>>
    BY <1>1, <1>3, <1>6, <2>2 DEF Buffered, Continues
  <2>3. QED
    BY <2>1, <2>2
<1>8. ASSUME NEW e \in Conns, e # c, cst'[e] = "open"
      PROVE  IF s2c'[e] = <<>> THEN srv'[e] = "gone" \/ recvBuf' = <<>>
             ELSE Continues(s2c[e][1])'
  BY <1>1, <1>5, <1>8 DEF Buffered, Continues
<1>9. \A e \in Conns : cst'[e] = "connecting" => recvBuf' = <<>>
  BY <1>1 DEF Buffered
<1>10. QED
  BY <1>4, <1>7, <1>8, <1>9, <1>1 DEF Buffered

\* Every step leaves a buffer that the wire of its connection goes on from.
LEMMA BufferedStep ==
  TypeOK /\ OneChannel /\ Ends /\ Framed /\ Buffered /\ [Next]_vars => Buffered'
<1> SUFFICES ASSUME TypeOK, OneChannel, Ends, Framed, Buffered, [Next]_vars PROVE Buffered'
  OBVIOUS
<1>0. ASSUME UNCHANGED <<recvBuf, stale>>,
             \A c \in Conns :
               /\ cst'[c] = "connecting" => cst[c] = "connecting"
               /\ cst'[c] = "open" => /\ cst[c] = "open" /\ s2c'[c] = s2c[c]
                                      /\ srv[c] = "gone" => srv'[c] = "gone"
      PROVE  Buffered'
  <2>1. Begun => Begun'
    BY <1>0 DEF Begun, Complete
  <2>2. \A c \in Conns : s2c'[c] = s2c[c] => Continues(s2c[c][1])' = Continues(s2c[c][1])
    BY <1>0 DEF Continues
  <2>3. QED
    BY <1>0, <2>1, <2>2 DEF Buffered
<1>1. ASSUME UNCHANGED <<recvBuf, stale, cst, srv, s2c>> PROVE Buffered'
  BY <1>0, <1>1
<1>2. ASSUME NEW d \in Cmds, Dispatch(d) \/ EnsureConnected(d) \/ Timeout(d) \/ WriteError(d)
      PROVE  Buffered'
  BY <1>1, <1>2 DEF Dispatch, EnsureConnected, Timeout, WriteError, history
<1>3. ASSUME NEW c \in Conns, ConnectOk(c) PROVE Buffered'
  <2>1. /\ cst[c] = "connecting" /\ s2c[c] = <<>> /\ UNCHANGED <<recvBuf, stale, s2c>>
        /\ cst' = [cst EXCEPT ![c] = "open"]
    BY <1>3 DEF ConnectOk, Ends, history
  <2>2. ~stale => recvBuf = <<>> /\ recvBuf' = <<>>
    BY <2>1 DEF Buffered
  <2>3. \A e \in Conns : e # c => cst'[e] \notin {"connecting", "open"}
    BY <2>1, OneLive DEF TypeOK
  <2>4. cst'[c] = "open" /\ s2c'[c] = <<>>
    BY <2>1 DEF TypeOK
  <2>5. Begun => Begun'
    BY <2>1 DEF Begun, Complete
  <2>6. QED
    BY <2>1, <2>2, <2>3, <2>4, <2>5 DEF Buffered
<1>4. ASSUME NEW c \in Conns, ErrorEvent(c) PROVE Buffered'
  BY <1>0, <1>4 DEF ErrorEvent, history, TypeOK
<1>5. ASSUME NEW c \in Conns, CloseEvent(c) PROVE Buffered'
  BY <1>0, <1>5 DEF CloseEvent, history, TypeOK
<1>6. ASSUME NEW c \in Conns, DataChunk(c) PROVE Buffered'
  BY <1>6, ChunkRead
<1>7. ASSUME NEW c \in Conns, DataFrame(c) PROVE Buffered'
  BY <1>7, FrameRead
<1>8. ASSUME NEW c \in Conns, Reconnect(c) PROVE Buffered'
  <2>1. Held = {} /\ recvBuf' = recvBuf /\ stale' = (recvBuf # <<>>)
    BY <1>8 DEF Reconnect, OneChannel
  <2>2. \A e \in Conns : cst'[e] # "open"
    BY <1>8, <2>1 DEF Reconnect, Held, TypeOK
  <2>3. recvBuf' = <<>> => Begun'
    BY EmptySeq DEF Begun
  <2>4. QED
    BY <2>1, <2>2, <2>3 DEF Buffered
<1>9. CASE ReconnectAfterDestroy \/ ServeDone \/ StartCommandServer
  BY <1>1, <1>9 DEF ReconnectAfterDestroy, ServeDone, StartCommandServer, clientVars, history
<1>10. CASE Destroy
  BY <1>0, <1>10 DEF Destroy, history, TypeOK
<1>11. CASE PollAccept
  <2>1. \A c \in Conns : srv[c] = "gone" => srv'[c] = "gone"
    BY <1>11 DEF PollAccept, Released
  <2>2. UNCHANGED <<recvBuf, stale, cst, s2c>>
    BY <1>11 DEF PollAccept, clientVars, history
  <2>3. QED
    BY <1>0, <2>1, <2>2
<1>12. ASSUME NEW c \in Conns, ServeFrame(c) PROVE Buffered'
  BY <1>12, ServeGoesOn
<1>13. ASSUME NEW c \in Conns, ServeClose(c) PROVE Buffered'
  BY <1>0, <1>13 DEF ServeClose, Released, Ends, clientVars, history
<1>14. CASE ServerStop
  <2>1. PICK c \in Conns : \E k \in 0..Len(s2c[c]) : s2c' = [s2c EXCEPT ![c] = SubSeq(@, 1, k)]
    BY <1>14 DEF ServerStop
  <2>2. PICK k \in 0..Len(s2c[c]) : s2c' = [s2c EXCEPT ![c] = SubSeq(@, 1, k)]
    BY <2>1
  <2>3. \A e \in Conns : s2c'[e] # <<>> => s2c[e] # <<>> /\ s2c'[e][1] = s2c[e][1]
    BY <2>2, ChainCut DEF Framed, TypeOK
  <2>4. \A e \in Conns : cst[e] = "open" => srv'[e] = "gone"
    BY <1>14 DEF ServerStop, Released, Ends, TypeOK, ServerEnd
  <2>5. UNCHANGED <<recvBuf, stale, cst>>
    BY <1>14 DEF ServerStop, clientVars, history
  <2>6. Begun => Begun'
    BY <2>5 DEF Begun, Complete
  <2>7. \A e \in Conns : s2c'[e] # <<>> => Continues(s2c[e][1])' = Continues(s2c[e][1])
    BY <2>3, <2>5 DEF Continues
  <2>8. QED
    BY <2>3, <2>4, <2>5, <2>6, <2>7 DEF Buffered
<1>15. CASE UNCHANGED vars
  BY <1>1, <1>15 DEF vars, clientVars, history
<1>16. QED
  BY <1>2, <1>3, <1>4, <1>5, <1>6, <1>7, <1>8, <1>9, <1>10, <1>11, <1>12, <1>13, <1>14, <1>15
  DEF Next, ClientNext, ServerNext

-----------------------------------------------------------------------------
(***************************************************************************)
(* Replies resolve                                                         *)
(***************************************************************************)

\* What is buffered and the chunk that completes it are one response.
LEMMA WholeReply ==
  ASSUME TypeOK, Ends, Framed, Buffered, ~stale, NEW c \in Conns, DataFrame(c)
  PROVE  Append(recvBuf, Head(s2c[c])) = Reply(Head(s2c[c]).cmd)
<1> DEFINE q == s2c[c]
           x == Head(q)
           b == Append(recvBuf, x)
<1>1. /\ q \in Seq(Chunk) /\ q # <<>> /\ cst[c] = "open" /\ Complete(x)
      /\ recvBuf \in Seq(Chunk) /\ Len(recvBuf) \in Nat
  BY DEF DataFrame, TypeOK, Complete
<1>2. x = q[1] /\ x \in Chunk
  BY <1>1, ChainRead DEF Framed
<1>3. x.cmd \in Cmds /\ x.part \in Nat /\ x = [cmd |-> x.cmd, part |-> x.part]
  BY <1>2 DEF Chunk
<1>4. Begun /\ Continues(x)
  BY <1>1, <1>2 DEF Buffered
<1>5. /\ b \in Seq(Chunk) /\ Len(b) = Len(recvBuf) + 1
      /\ \A i \in 1..Len(recvBuf) : b[i] = recvBuf[i]
      /\ b[Len(recvBuf) + 1] = x
  BY <1>1, <1>2, AppendProperties
<1> HIDE DEF x, b
<1>6. x.part = Len(recvBuf) + 1 /\ \A i \in 1..Len(recvBuf) : recvBuf[i].cmd = x.cmd
  <2>1. CASE recvBuf = <<>>
    BY <1>4, <2>1, EmptySeq DEF Continues
  <2>2. CASE recvBuf # <<>>
    BY <1>4, <2>2 DEF Continues, Begun
  <2>3. QED
    BY <2>1, <2>2
<1>7. Len(b) = Parts[x.cmd]
  BY <1>1, <1>5, <1>6 DEF Complete
<1>8. /\ Reply(x.cmd) \in Seq(Chunk) /\ Len(Reply(x.cmd)) = Parts[x.cmd]
      /\ \A i \in 1..Parts[x.cmd] : Reply(x.cmd)[i] = [cmd |-> x.cmd, part |-> i]
  BY <1>3, ReplyChain DEF Reply
<1>9. ASSUME NEW i \in 1..Len(b) PROVE b[i] = Reply(x.cmd)[i]
  <2>1. CASE i \in 1..Len(recvBuf)
    <3>1. recvBuf[i] \in Chunk /\ recvBuf[i].cmd = x.cmd /\ recvBuf[i].part = i
      BY <1>1, <1>4, <1>6, <2>1, ElementOfSeq DEF Begun
    <3>2. recvBuf[i] = [cmd |-> x.cmd, part |-> i]
      BY <3>1 DEF Chunk
    <3>3. QED
      BY <1>5, <1>7, <1>8, <2>1, <3>2
  <2>2. CASE i \notin 1..Len(recvBuf)
    <3>1. i = Len(recvBuf) + 1
      BY <1>1, <1>5, <2>2
    <3>2. QED
      BY <1>3, <1>5, <1>6, <1>7, <1>8, <3>1
  <2>3. QED
    BY <2>1, <2>2
<1>10. b = Reply(x.cmd)
  BY <1>5, <1>7, <1>8, <1>9, SeqEqual
<1>11. QED
  BY <1>10 DEF b, x

\* A reply that arrives while its command is pending settles it, however it is
\* cut and whatever else arrives: only bytes of an earlier connection in recvBuf
\* can make dispatchFrame() drop it.
THEOREM RepliesResolve == Spec => ReplyResolves
<1> DEFINE A == \A d \in answered' \ answered : call'[d] \in {"ok", "failed"} \/ stale
<1>1. Init => OneChannel /\ Ends /\ Framed /\ Buffered
  <2> SUFFICES ASSUME Init PROVE OneChannel /\ Ends /\ Framed /\ Buffered
    OBVIOUS
  <2>1. OneChannel /\ Ends
    BY ChannelAssumption DEF Init, OneChannel, Held, Ends
  <2>2. Framed
    BY EmptyChain DEF Init, Framed
  <2>3. Buffered
    BY EmptySeq DEF Init, Buffered, Begun
  <2>4. QED
    BY <2>1, <2>2, <2>3
<1>2. TypeOK /\ Ends /\ Framed /\ Buffered /\ [Next]_vars => [A]_vars
  <2> SUFFICES ASSUME TypeOK, Ends, Framed, Buffered, Next, ~stale,
                      NEW d \in answered' \ answered
               PROVE  call'[d] \in {"ok", "failed"}
    OBVIOUS
  <2>1. ASSUME NEW c \in Conns, DataFrame(c) PROVE call'[d] \in {"ok", "failed"}
    <3>1. d = Head(s2c[c]).cmd /\ d \in pending
      BY <2>1 DEF DataFrame
    <3>2. Append(recvBuf, Head(s2c[c])) = Reply(d)
      BY <2>1, <3>1, WholeReply
    <3>3. call' = [call EXCEPT ![d] = IF d \in Known THEN "ok" ELSE "failed"]
      BY <2>1, <3>1, <3>2 DEF DataFrame, DispatchFrame
    <3>4. QED
      BY <3>1, <3>3 DEF TypeOK
  <2>2. ASSUME answered' = answered PROVE FALSE
    BY <2>2
  <2>3. ASSUME NEW e \in Cmds, Dispatch(e) \/ EnsureConnected(e) \/ Timeout(e) \/ WriteError(e)
        PROVE  FALSE
    BY <2>2, <2>3 DEF Dispatch, EnsureConnected, Timeout, WriteError, history
  <2>4. ASSUME NEW c \in Conns,
               ConnectOk(c) \/ ErrorEvent(c) \/ CloseEvent(c) \/ DataChunk(c) \/ Reconnect(c)
        PROVE  FALSE
    BY <2>2, <2>4 DEF ConnectOk, ErrorEvent, CloseEvent, DataChunk, Reconnect, history
  <2>5. CASE ReconnectAfterDestroy \/ Destroy \/ ServerNext
    BY <2>2, <2>5 DEF ReconnectAfterDestroy, Destroy, ServerNext, PollAccept, ServeFrame,
                      ServeDone, ServeClose, ServerStop, StartCommandServer, history
  <2>6. QED
    BY <2>1, <2>3, <2>4, <2>5 DEF Next, ClientNext
<1>3. QED
  BY <1>1, <1>2, OneChannelStep, EndsStep, FramedStep, BufferedStep, TypeCorrect, PTL
  DEF Spec, ReplyResolves
=============================================================================
