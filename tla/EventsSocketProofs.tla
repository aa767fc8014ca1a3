------------------------- MODULE EventsSocketProofs -------------------------
(***************************************************************************)
(* Proofs about EventsSocket, for every set of publishers and connections: *)
(* this.sock is live, and without a rival connection the shared buffer     *)
(* holds nothing but the beginning of a report of the newest one.          *)
(***************************************************************************)
EXTENDS EventsSocket, SequenceTheorems, TLAPS

\* A stream of whole frames of connection c: a first half is followed by its
\* second half, and a second half comes after its first.
Framed(c, s) ==
  \A i \in 1..Len(s) :
    /\ s[i].from = c
    /\ s[i].part = 1 => /\ s[i].val # None /\ i < Len(s)
                        /\ s[i + 1] = [s[i] EXCEPT !.part = 2]
    /\ s[i].part = 2 /\ s[i].val # None => i > 1 /\ s[i - 1] = [s[i] EXCEPT !.part = 1]

\* The buffer holds no newline; nothing waits on a connection the slot has
\* not got; what waits on one not yet accepted is whole; and what an
\* unrivalled connection has delivered and what still waits on it make one
\* stream.
Streams ==
  /\ \A i \in 1..Len(recvBuf) : recvBuf[i].part = 1
  /\ \A c \in Conns : srv[c] \in {"none", "destroyed"} => wire[c] = <<>>
  /\ \A c \in Conns : srv[c] = "queued" => Framed(c, wire[c])
  /\ ~overlap => \A c \in Open : (\A d \in Open : c = d) /\ Framed(c, recvBuf \o wire[c])

-----------------------------------------------------------------------------
(***************************************************************************)
(* Type correctness                                                        *)
(***************************************************************************)

\* What a publisher sends at a time is a sequence of halves.
LEMMA FrameTypes ==
  ASSUME NEW c \in Conns, NEW v \in States
  PROVE  /\ Report(c, v) \in Seq(Half) /\ Len(Report(c, v)) = 2
         /\ Snapshot(c) \in Seq(Half) /\ Len(Snapshot(c)) = 1
         /\ Snapshot(c) \o Report(c, v) \in Seq(Half)
<1>1. [from |-> c, val |-> v, part |-> 1] \in Half /\ [from |-> c, val |-> v, part |-> 2] \in Half
  BY DEF Half
<1>2. [from |-> c, val |-> None, part |-> 2] \in Half
  BY DEF Half
<1>3. Report(c, v) \in Seq(Half) /\ Len(Report(c, v)) = 2
  BY <1>1 DEF Report
<1>4. Snapshot(c) \in Seq(Half) /\ Len(Snapshot(c)) = 1
  BY <1>2 DEF Snapshot
<1>5. QED
  BY <1>3, <1>4, ConcatProperties

\* The owners of the halves in a buffer are publishers.
LEMMA ReportersType ==
  ASSUME TypeOK, NEW s \in Seq(Half)
  PROVE  Reporters(s) \in SUBSET Pubs
<1>1. ASSUME NEW i \in 1..Len(s) PROVE s[i].from \in Conns
  <2>1. s[i] \in Half
    OBVIOUS
  <2>2. QED
    BY <2>1 DEF Half
<1>2. QED
  BY <1>1 DEF Reporters, TypeOK

\* send() of well-typed frames keeps the types of what it assigns.
LEMMA DeliverType ==
  ASSUME TypeOK, NEW p \in Pubs, NEW f, \A c \in Conns : f[c] \in Seq(Half), Deliver(p, f)
  PROVE  /\ link' \in [Pubs -> Conns \cup {NoConn}]
         /\ owner' \in [Conns -> Pubs]
         /\ cli' \in [Conns -> {"none", "open", "reset", "closed"}]
         /\ srv' \in [Conns -> {"none", "queued", "open", "destroyed"}]
         /\ wire' \in [Conns -> Seq(Half)]
<1>1. PICK c \in Conns :
        /\ \/ /\ srv' = [srv EXCEPT ![c] = "queued"]
              /\ cli' = [cli EXCEPT ![c] = "open"]
              /\ owner' = [owner EXCEPT ![c] = p]
           \/ UNCHANGED <<srv, cli, owner>>
        /\ link' = [link EXCEPT ![p] = c]
        /\ wire' = [wire EXCEPT ![c] = @ \o f[c]]
  BY DEF Deliver
<1>2. wire[c] \o f[c] \in Seq(Half)
  BY ConcatProperties DEF TypeOK
<1>3. QED
  BY <1>1, <1>2 DEF TypeOK

\* So do the two ways in which send() fails.
LEMMA NoDeliveryType ==
  ASSUME TypeOK, NEW p \in Pubs, Vanish(p) \/ Fail(p)
  PROVE  /\ link' \in [Pubs -> Conns \cup {NoConn}]
         /\ owner' = owner /\ srv' = srv /\ wire' = wire
         /\ cli' \in [Conns -> {"none", "open", "reset", "closed"}]
<1>1. CASE Vanish(p)
  BY <1>1 DEF Vanish, TypeOK
<1>2. CASE Fail(p)
  <2>1. cli' \in [Conns -> {"none", "open", "reset", "closed"}]
    BY <1>2 DEF Fail, Abandon, TypeOK
  <2>2. QED
    BY <1>2, <2>1 DEF Fail, Abandon, TypeOK
<1>3. QED
  BY <1>1, <1>2

\* TypeOK is inductive by itself.
LEMMA TypeOKStep == TypeOK /\ [Next]_vars => TypeOK'
<1> SUFFICES ASSUME TypeOK, [Next]_vars PROVE TypeOK'
  OBVIOUS
<1> USE EventsAssumption
<1>0. <<>> \in Seq(Half)
  BY EmptySeq
<1>1. CASE Change
  BY <1>1 DEF Change, pubVars, TypeOK
<1>2. ASSUME NEW p \in Pubs, Publish(p) PROVE TypeOK'
  <2> DEFINE f == [c \in Conns |-> Report(c, cur)]
  <2>1. \A c \in Conns : f[c] \in Seq(Half)
    BY FrameTypes DEF TypeOK
  <2>5. /\ cur' \in States /\ up' \in BOOLEAN /\ sock' \in Conns \cup {NoConn}
        /\ recvBuf' \in Seq(Half) /\ view' \in States /\ overlap' \in BOOLEAN
        /\ lost' \in SUBSET Pubs /\ last' \in [Pubs -> States \cup {None}]
    <3>1. UNCHANGED <<cur, up, sock, recvBuf, view, overlap>>
      BY <1>2 DEF Publish
    <3>2. lost' \in {lost, lost \ {p}, lost \cup {p}} /\ last' \in {last, [last EXCEPT ![p] = cur]}
      BY <1>2 DEF Publish
    <3>3. QED
      BY <3>1, <3>2 DEF TypeOK
  <2>2. CASE Deliver(p, f)
    <3> HIDE DEF f
    <3>1. QED
      BY <2>1, <2>2, <2>5, DeliverType DEF TypeOK
  <2>3. CASE Vanish(p) \/ Fail(p)
    BY <2>3, <2>5, NoDeliveryType DEF TypeOK
  <2>4. QED
    BY <1>2, <2>2, <2>3 DEF Publish
<1>3. ASSUME NEW p \in Pubs, Tick(p) PROVE TypeOK'
  <2> DEFINE f == [c \in Conns |-> IF last[p] # cur THEN Snapshot(c) \o Report(c, cur) ELSE Snapshot(c)]
  <2>1. \A c \in Conns : f[c] \in Seq(Half)
    BY FrameTypes DEF TypeOK
  <2>2. CASE Deliver(p, f)
    <3> HIDE DEF f
    <3>1. QED
      BY <1>3, <2>1, <2>2, DeliverType DEF Tick, TypeOK
  <2>3. CASE Vanish(p) \/ Fail(p)
    BY <1>3, <2>3, NoDeliveryType DEF Tick, TypeOK
  <2>4. QED
    BY <1>3, <2>2, <2>3 DEF Tick
<1>4. ASSUME NEW p \in Pubs, Restart(p) PROVE TypeOK'
  <2>1. Fresh(p) \in States \cup {None}
    BY DEF Fresh
  <2>2. QED
    BY <1>4, <2>1 DEF Restart, Abandon, TypeOK
<1>5. ASSUME NEW c \in Conns, Accept(c) PROVE TypeOK'
  <2>1. lost' \in SUBSET Pubs
    BY <1>5, ReportersType DEF Accept, TypeOK
  <2>2. QED
    BY <1>0, <1>5, <2>1 DEF Accept, pubVars, TypeOK
<1>6. ASSUME NEW c \in Conns, DataHalf(c) PROVE TypeOK'
  <2>1. Head(wire[c]) \in Half /\ Tail(wire[c]) \in Seq(Half)
    BY <1>6, HeadTailProperties DEF DataHalf, TypeOK
  <2>2. Append(recvBuf, Head(wire[c])) \in Seq(Half)
    BY <2>1 DEF TypeOK
  <2>3. Reporters(Append(recvBuf, Head(wire[c]))) \in SUBSET Pubs
    BY <2>2, ReportersType
  <2>4. wire' \in [Conns -> Seq(Half)]
    BY <1>6, <2>1 DEF DataHalf, TypeOK
  <2>5. recvBuf' \in Seq(Half) /\ lost' \in SUBSET Pubs
    BY <1>0, <1>6, <2>2, <2>3 DEF DataHalf, TypeOK
  <2>6. QED
    BY <1>6, <2>4, <2>5 DEF DataHalf, pubVars, TypeOK
<1>7. ASSUME NEW c \in Conns, DataFrame(c) PROVE TypeOK'
  <2> DEFINE v == Head(wire[c]).val
             buf == Append(recvBuf, Head(wire[c]))
  <2>1. Head(wire[c]) \in Half /\ Tail(wire[c]) \in Seq(Half)
    BY <1>7, HeadTailProperties DEF DataFrame, TypeOK
  <2>2. buf \in Seq(Half) /\ Reporters(buf) \in SUBSET Pubs
    <3>1. buf \in Seq(Half)
      BY <2>1 DEF TypeOK
    <3> HIDE DEF buf
    <3>2. QED
      BY <3>1, ReportersType
  <2>3. wire' \in [Conns -> Seq(Half)]
    BY <1>7, <2>1 DEF DataFrame, TypeOK
  <2>4. ASSUME buf = Report(c, v) PROVE v \in States
    <3>1. buf[1] \in Half /\ buf[1].part = 1 /\ buf[1].val = v
      <4>1. Len(Report(c, v)) = 2 /\ Report(c, v)[1] = [from |-> c, val |-> v, part |-> 1]
        BY DEF Report
      <4> HIDE DEF buf
      <4>2. QED
        BY <2>2, <2>4, <4>1
    <3> HIDE DEF buf
    <3>2. QED
      BY <3>1 DEF Half
  <2>5. view' \in States /\ lost' \in SUBSET Pubs
    BY <1>7, <2>2, <2>4 DEF DataFrame, TypeOK
  <2>6. QED
    BY <1>0, <1>7, <2>3, <2>5 DEF DataFrame, pubVars, TypeOK
<1>8. ASSUME NEW c \in Conns, Close(c) PROVE TypeOK'
  BY <1>8 DEF Close, TypeOK
<1>9. CASE Crash
  BY <1>0, <1>9 DEF Crash, TypeOK
<1>10. CASE Start
  BY <1>10 DEF Start, pubVars, TypeOK
<1>11. CASE UNCHANGED vars
  BY <1>11 DEF vars, pubVars, TypeOK
<1>12. QED
  BY <1>1, <1>2, <1>3, <1>4, <1>5, <1>6, <1>7, <1>8, <1>9, <1>10, <1>11 DEF Next

\* Every reachable state is well typed: what the connector is told is always
\* a report, never a frame of another schema.
THEOREM TypeCorrect == Spec => []TypeOK
<1>1. Init => TypeOK
  <2> SUFFICES ASSUME Init PROVE TypeOK
    OBVIOUS
  <2>1. \A p \in Pubs : Fresh(p) \in States \cup {None}
    BY EventsAssumption DEF Fresh
  <2>2. <<>> \in Seq(Half)
    BY EmptySeq
  <2>3. QED
    BY <2>1, <2>2, EventsAssumption DEF Init, TypeOK
<1>2. QED
  BY <1>1, TypeOKStep, PTL DEF Spec
-----------------------------------------------------------------------------
(***************************************************************************)
(* The current connection                                                  *)
(***************************************************************************)

\* A send opens at most a connection nobody has, and closes none.
LEMMA DeliverOpens ==
  ASSUME TypeOK, NEW p \in Pubs, NEW f, Deliver(p, f)
  PROVE  \E c \in Conns :
           /\ \/ srv[c] = "none" /\ srv' = [srv EXCEPT ![c] = "queued"]
              \/ srv[c] \in {"queued", "open"} /\ srv' = srv
           /\ wire' = [wire EXCEPT ![c] = @ \o f[c]]
  BY DEF Deliver, Free, Alive

\* Whatever a publisher does, the slot's end of a connection that was not
\* queued stays as it is.
LEMMA PublishersOpen ==
  ASSUME TypeOK, NEW p \in Pubs, Publish(p) \/ Tick(p) \/ Restart(p)
  PROVE  /\ UNCHANGED <<sock, recvBuf, overlap>>
         /\ \/ UNCHANGED <<srv, wire>>
            \/ \E c \in Conns, v \in States :
                 /\ \/ srv[c] = "none" /\ srv' = [srv EXCEPT ![c] = "queued"]
                    \/ srv[c] \in {"queued", "open"} /\ srv' = srv
                 /\ \E s \in {Report(c, v), Snapshot(c), Snapshot(c) \o Report(c, v)} :
                      wire' = [wire EXCEPT ![c] = @ \o s]
<1>0. cur \in States
  BY DEF TypeOK
<1>1. CASE Publish(p)
  <2> DEFINE f == [c \in Conns |-> Report(c, cur)]
  <2>1. CASE Deliver(p, f)
    <3>1. \A c \in Conns : f[c] = Report(c, cur)
      OBVIOUS
    <3> HIDE DEF f
    <3>2. UNCHANGED <<sock, recvBuf, overlap>>
      BY <1>1 DEF Publish
    <3>3. PICK c \in Conns : /\ \/ srv[c] = "none" /\ srv' = [srv EXCEPT ![c] = "queued"]
                                \/ srv[c] \in {"queued", "open"} /\ srv' = srv
                             /\ wire' = [wire EXCEPT ![c] = @ \o f[c]]
      BY <2>1, DeliverOpens
    <3>4. f[c] \in {Report(c, cur), Snapshot(c), Snapshot(c) \o Report(c, cur)}
      BY <3>1
    <3>5. QED
      BY <1>0, <3>2, <3>3, <3>4
  <2>2. CASE Vanish(p) \/ Fail(p)
    BY <1>1, <2>2 DEF Publish, Vanish, Fail
  <2>3. QED
    BY <1>1, <2>1, <2>2 DEF Publish
<1>2. CASE Tick(p)
  <2> DEFINE f == [c \in Conns |-> IF last[p] # cur THEN Snapshot(c) \o Report(c, cur) ELSE Snapshot(c)]
  <2>1. CASE Deliver(p, f)
    <3>1. \A c \in Conns : f[c] \in {Report(c, cur), Snapshot(c), Snapshot(c) \o Report(c, cur)}
      OBVIOUS
    <3> HIDE DEF f
    <3>2. UNCHANGED <<sock, recvBuf, overlap>>
      BY <1>2 DEF Tick
    <3>3. PICK c \in Conns : /\ \/ srv[c] = "none" /\ srv' = [srv EXCEPT ![c] = "queued"]
                                \/ srv[c] \in {"queued", "open"} /\ srv' = srv
                             /\ wire' = [wire EXCEPT ![c] = @ \o f[c]]
      BY <2>1, DeliverOpens
    <3>4. f[c] \in {Report(c, cur), Snapshot(c), Snapshot(c) \o Report(c, cur)}
      BY <3>1
    <3>5. QED
      BY <1>0, <3>2, <3>3, <3>4
  <2>2. CASE Vanish(p) \/ Fail(p)
    BY <1>2, <2>2 DEF Tick, Vanish, Fail
  <2>3. QED
    BY <1>2, <2>1, <2>2 DEF Tick
<1>3. CASE Restart(p)
  BY <1>3 DEF Restart
<1>4. QED
  BY <1>1, <1>2, <1>3

\* CurrentIsOpen is inductive with TypeOK.
LEMMA CurrentStep == TypeOK /\ CurrentIsOpen /\ [Next]_vars => CurrentIsOpen'
<1> SUFFICES ASSUME TypeOK, CurrentIsOpen, [Next]_vars PROVE CurrentIsOpen'
  OBVIOUS
<1> USE DEF CurrentIsOpen
<1>1. ASSUME NEW p \in Pubs, Publish(p) \/ Tick(p) \/ Restart(p) PROVE CurrentIsOpen'
  BY <1>1, PublishersOpen DEF TypeOK
<1>2. ASSUME NEW c \in Conns, Accept(c) PROVE CurrentIsOpen'
  BY <1>2 DEF Accept, TypeOK
<1>3. ASSUME NEW c \in Conns, DataHalf(c) \/ DataFrame(c) PROVE CurrentIsOpen'
  BY <1>3 DEF DataHalf, DataFrame
<1>4. ASSUME NEW c \in Conns, Close(c) PROVE CurrentIsOpen'
  BY <1>4 DEF Close
<1>5. CASE Change \/ Start \/ Crash \/ UNCHANGED vars
  BY <1>5 DEF Change, Start, Crash, vars
<1>6. QED
  BY <1>1, <1>2, <1>3, <1>4, <1>5 DEF Next

\* isConnected() is true only of a live connection.
THEOREM CurrentAlive == Spec => []CurrentIsOpen
<1>1. Init => CurrentIsOpen
  BY DEF Init, CurrentIsOpen
<1>2. QED
  BY <1>1, CurrentStep, TypeCorrect, PTL DEF Spec

-----------------------------------------------------------------------------
(***************************************************************************)
(* The shared buffer                                                       *)
(***************************************************************************)

\* What a publisher sends at a time is framed.
LEMMA SentFramed ==
  ASSUME NEW c \in Conns, NEW v \in States
  PROVE  Framed(c, Report(c, v)) /\ Framed(c, Snapshot(c)) /\ Framed(c, <<>>)
<1>1. v # None
  BY EventsAssumption
<1>2. Framed(c, Report(c, v))
  <2> DEFINE s == Report(c, v)
  <2>1. Len(s) = 2 /\ s[1] = [from |-> c, val |-> v, part |-> 1]
                   /\ s[2] = [from |-> c, val |-> v, part |-> 2]
    BY DEF Report
  <2>2. s[2] = [s[1] EXCEPT !.part = 2] /\ s[1] = [s[2] EXCEPT !.part = 1]
    BY <2>1
  <2> HIDE DEF s
  <2>3. ASSUME NEW i \in 1..Len(s)
        PROVE  i = 1 \/ i = 2
    BY <2>1
  <2>4. QED
    BY <1>1, <2>1, <2>2, <2>3 DEF Framed, s
<1>3. Framed(c, Snapshot(c))
  <2> DEFINE s == Snapshot(c)
  <2>1. Len(s) = 1 /\ s[1] = [from |-> c, val |-> None, part |-> 2]
    BY DEF Snapshot
  <2> HIDE DEF s
  <2>2. QED
    BY <2>1 DEF Framed, s
<1>4. Framed(c, <<>>)
  BY DEF Framed
<1>5. QED
  BY <1>2, <1>3, <1>4

\* One framed stream after another is framed.
LEMMA FramedGlue ==
  ASSUME NEW c \in Conns, NEW s, NEW t, NEW u, NEW m \in Nat, NEW n \in Nat,
         Len(s) = m, Len(t) = n, Len(u) = m + n,
         \A i \in 1..m : u[i] = s[i], \A i \in 1..n : u[m + i] = t[i],
         Framed(c, s), Framed(c, t)
  PROVE  Framed(c, u)
<1>1. ASSUME NEW i \in 1..(m + n)
      PROVE  /\ u[i].from = c
             /\ u[i].part = 1 => /\ u[i].val # None /\ i < m + n
                                /\ u[i + 1] = [u[i] EXCEPT !.part = 2]
             /\ u[i].part = 2 /\ u[i].val # None => i > 1 /\ u[i - 1] = [u[i] EXCEPT !.part = 1]
  <2>1. CASE i <= m
    <3>1. i \in 1..m /\ u[i] = s[i] /\ (i < m => u[i + 1] = s[i + 1]) /\ (i > 1 => u[i - 1] = s[i - 1])
      BY <2>1
    <3>2. i < m => i < m + n
      OBVIOUS
    <3>3. /\ s[i].from = c
          /\ s[i].part = 1 => s[i].val # None /\ i < m /\ s[i + 1] = [s[i] EXCEPT !.part = 2]
          /\ s[i].part = 2 /\ s[i].val # None => i > 1 /\ s[i - 1] = [s[i] EXCEPT !.part = 1]
      BY <3>1 DEF Framed
    <3>4. QED
      BY <3>1, <3>2, <3>3
  <2>2. CASE i > m
    <3> DEFINE j == i - m
    <3>1. j \in 1..n /\ i = m + j
      BY <2>2
    <3>2. u[i] = t[j] /\ (j < n => u[i + 1] = t[j + 1]) /\ (j > 1 => u[i - 1] = t[j - 1])
      <4>1. j < n => j + 1 \in 1..n /\ m + (j + 1) = i + 1
        BY <3>1
      <4>2. j > 1 => j - 1 \in 1..n /\ m + (j - 1) = i - 1
        BY <3>1
      <4> HIDE DEF j
      <4>3. QED
        BY <3>1, <4>1, <4>2
    <3>3. (j < n <=> i < m + n) /\ (j > 1 => i > 1)
      BY <3>1
    <3> HIDE DEF j
    <3>4. QED
      BY <3>1, <3>2, <3>3 DEF Framed
  <2>3. QED
    BY <2>1, <2>2
<1>2. QED
  BY <1>1 DEF Framed

\* FramedGlue for concatenation.
LEMMA FramedConcat ==
  ASSUME NEW c \in Conns, NEW s \in Seq(Half), NEW t \in Seq(Half), Framed(c, s), Framed(c, t)
  PROVE  Framed(c, s \o t)
<1>1. Len(s) \in Nat /\ Len(t) \in Nat /\ Len(s \o t) = Len(s) + Len(t)
  BY ConcatProperties
<1>2. (\A i \in 1..Len(s) : (s \o t)[i] = s[i]) /\ \A i \in 1..Len(t) : (s \o t)[Len(s) + i] = t[i]
  BY <1>1, ConcatProperties
<1>3. QED
  BY <1>1, <1>2, FramedGlue

\* What comes after a newline is framed.
LEMMA AfterNewline ==
  ASSUME NEW c \in Conns, NEW s \in Seq(Half), NEW t \in Seq(Half), t # <<>>,
         Framed(c, s \o t), t[1].part = 2
  PROVE  Framed(c, Tail(t))
<1>1. Len(s \o t) = Len(s) + Len(t) /\ Len(s) \in Nat /\ Len(t) \in Nat
  BY ConcatProperties
<1>2. Tail(t) \in Seq(Half) /\ Len(Tail(t)) = Len(t) - 1
      /\ \A i \in 1..Len(Tail(t)) : Tail(t)[i] = t[i + 1]
  BY HeadTailProperties
<1>3. \A j \in 1..Len(t) : (s \o t)[j + Len(s)] = t[j]
  BY <1>1, ConcatProperties
<1>4. ASSUME NEW i \in 1..Len(Tail(t))
      PROVE  /\ Tail(t)[i].from = c
             /\ Tail(t)[i].part = 1 => /\ Tail(t)[i].val # None /\ i < Len(Tail(t))
                                       /\ Tail(t)[i + 1] = [Tail(t)[i] EXCEPT !.part = 2]
             /\ Tail(t)[i].part = 2 /\ Tail(t)[i].val # None
                  => i > 1 /\ Tail(t)[i - 1] = [Tail(t)[i] EXCEPT !.part = 1]
  <2> DEFINE k == i + 1 + Len(s)
  <2>1. k \in 1..Len(s \o t) /\ (s \o t)[k] = Tail(t)[i]
    BY <1>1, <1>2, <1>3
  <2>2. i < Len(Tail(t)) <=> k < Len(s \o t)
    BY <1>1, <1>2
  <2>3. i < Len(Tail(t)) => (s \o t)[k + 1] = Tail(t)[i + 1]
    BY <1>1, <1>2, <1>3
  <2>4. (s \o t)[k - 1] = t[i] /\ (i > 1 => t[i] = Tail(t)[i - 1])
    BY <1>1, <1>2, <1>3
  <2>5. Tail(t)[i] \in Half
    BY <1>2
  <2>6. /\ Tail(t)[i].from = c
        /\ Tail(t)[i].part = 1 => /\ Tail(t)[i].val # None /\ k < Len(s \o t)
                                  /\ (s \o t)[k + 1] = [Tail(t)[i] EXCEPT !.part = 2]
        /\ Tail(t)[i].part = 2 /\ Tail(t)[i].val # None
             => k > 1 /\ (s \o t)[k - 1] = [Tail(t)[i] EXCEPT !.part = 1]
    <3> DEFINE st == s \o t
    <3> HIDE DEF k, st
    <3>1. k \in 1..Len(st) /\ st[k] = Tail(t)[i] /\ Framed(c, st)
      BY <2>1 DEF st
    <3>2. QED
      BY <3>1 DEF Framed, st
  <2>7. [Tail(t)[i] EXCEPT !.part = 1].part = 1
    BY <2>5 DEF Half
  <2>8. Tail(t)[i].part = 2 /\ Tail(t)[i].val # None => i > 1
    <3> SUFFICES ASSUME Tail(t)[i].part = 2, Tail(t)[i].val # None, i = 1 PROVE FALSE
      OBVIOUS
    <3>1. (s \o t)[k - 1].part = 1
      BY <2>6, <2>7
    <3> HIDE DEF k
    <3>2. QED
      BY <2>4, <3>1
  <2>9. QED
    BY <2>2, <2>3, <2>4, <2>6, <2>8
<1>5. QED
  BY <1>4 DEF Framed

\* Reading a half moves it from the connection to the buffer.
LEMMA ReadHalf ==
  ASSUME NEW s \in Seq(Half), NEW t \in Seq(Half), t # <<>>
  PROVE  Append(s, Head(t)) \o Tail(t) = s \o t
  BY HeadTailProperties, ConcatProperties, AppendProperties

\* Streams is inductive with TypeOK and CurrentIsOpen.
LEMMA StreamsStep ==
  TypeOK /\ CurrentIsOpen /\ Streams /\ [Next]_vars => Streams'
<1> SUFFICES ASSUME TypeOK, CurrentIsOpen, Streams, [Next]_vars PROVE Streams'
  OBVIOUS
<1>1. ASSUME NEW p \in Pubs, Publish(p) \/ Tick(p) \/ Restart(p) PROVE Streams'
  <2>1. UNCHANGED <<sock, recvBuf, overlap>>
    BY <1>1, PublishersOpen
  <2>2. CASE UNCHANGED <<srv, wire>>
    BY <2>1, <2>2 DEF Streams, Open
  <2>3. ASSUME NEW c \in Conns, NEW v \in States,
               \/ srv[c] = "none" /\ srv' = [srv EXCEPT ![c] = "queued"]
               \/ srv[c] \in {"queued", "open"} /\ srv' = srv,
               NEW s \in {Report(c, v), Snapshot(c), Snapshot(c) \o Report(c, v)},
               wire' = [wire EXCEPT ![c] = @ \o s]
        PROVE  Streams'
    <3>1. s \in Seq(Half) /\ Framed(c, s)
      BY SentFramed, FramedConcat, FrameTypes
    <3>2. wire'[c] = wire[c] \o s /\ \A d \in Conns \ {c} : wire'[d] = wire[d] /\ srv'[d] = srv[d]
      BY <2>3 DEF TypeOK
    <3>3. /\ wire[c] \in Seq(Half) /\ recvBuf \in Seq(Half)
          /\ recvBuf \o (wire[c] \o s) = (recvBuf \o wire[c]) \o s
          /\ recvBuf \o wire[c] \in Seq(Half)
      BY <3>1, ConcatAssociative, ConcatProperties DEF TypeOK
    <3>4. srv'[c] = "queued" => Framed(c, wire'[c])
      <4>1. CASE srv[c] = "none"
        BY <3>1, <3>2, <3>3, <4>1, SentFramed, FramedConcat DEF Streams
      <4>2. CASE srv[c] = "queued"
        BY <3>1, <3>2, <3>3, <4>2, FramedConcat DEF Streams
      <4>3. QED
        BY <2>3, <4>1, <4>2
    <3>5. Open' = Open
      BY <2>3 DEF Open, TypeOK
    <3>6. ~overlap /\ c \in Open => Framed(c, recvBuf \o wire'[c])
      BY <3>1, <3>2, <3>3, FramedConcat DEF Streams
    <3>7. srv'[c] \notin {"none", "destroyed"}
      BY <2>3 DEF TypeOK
    <3>8. \A d \in Open : d \in Conns
      BY DEF Open
    <3>9. QED
      BY <2>1, <3>2, <3>4, <3>5, <3>6, <3>7, <3>8 DEF Streams
  <2>4. QED
    BY <1>1, <2>2, <2>3, PublishersOpen
<1>2. ASSUME NEW c \in Conns, Accept(c) PROVE Streams'
  <2>1. /\ srv[c] = "queued" /\ recvBuf' = <<>> /\ c # sock
        /\ srv' = [e \in Conns |-> IF e = c THEN "open" ELSE IF e = sock THEN "destroyed" ELSE srv[e]]
        /\ wire' = [e \in Conns |-> IF e = sock THEN <<>> ELSE wire[e]]
        /\ overlap' = \E e \in Conns \ {sock} : srv[e] = "open"
    BY <1>2, EventsAssumption DEF Accept, CurrentIsOpen
  <2>2. ~overlap' => Open' = {c}
    BY <2>1 DEF Open
  <2>3. Framed(c, recvBuf' \o wire'[c])
    <3>1. recvBuf' \o wire'[c] = wire[c]
      BY <2>1, ConcatEmptySeq DEF TypeOK
    <3>2. QED
      BY <2>1, <3>1 DEF Streams
  <2>4. \A i \in 1..Len(recvBuf') : recvBuf'[i].part = 1
    BY <2>1
  <2>5. QED
    BY <2>1, <2>2, <2>3, <2>4 DEF Streams, TypeOK
<1>3. ASSUME NEW c \in Conns, DataHalf(c) PROVE Streams'
  <2> DEFINE buf == Append(recvBuf, Head(wire[c]))
  <2>1. /\ srv[c] = "open" /\ wire[c] # <<>> /\ Head(wire[c]).part = 1 /\ Head(wire[c]) = wire[c][1]
        /\ wire[c] \in Seq(Half) /\ recvBuf \in Seq(Half)
        /\ wire' = [wire EXCEPT ![c] = Tail(@)] /\ UNCHANGED <<srv, sock, overlap>>
        /\ recvBuf' = IF Len(buf) > BufMax THEN <<>> ELSE buf
    BY <1>3 DEF DataHalf, TypeOK
  <2>2. \A i \in 1..Len(recvBuf') : recvBuf'[i].part = 1
    <3>1. \A i \in 1..Len(buf) : buf[i].part = 1
      BY <2>1, AppendProperties DEF Streams
    <3> HIDE DEF buf
    <3>2. QED
      BY <2>1, <3>1
  <2>3. ASSUME ~overlap PROVE (\A d \in Open : c = d) /\ Framed(c, recvBuf' \o wire'[c])
    <3>1. c \in Open /\ (\A d \in Open : c = d) /\ Framed(c, recvBuf \o wire[c])
      BY <2>1, <2>3 DEF Streams, Open
    <3>2. recvBuf = <<>>
      <4> SUFFICES ASSUME recvBuf # <<>> PROVE FALSE
        OBVIOUS
      <4> DEFINE n == Len(recvBuf)
      <4>1. n \in Nat /\ n >= 1 /\ recvBuf[n].part = 1
        BY <2>1, LenProperties, EmptySeq DEF Streams
      <4>2. /\ Len(recvBuf \o wire[c]) >= n + 1 /\ (recvBuf \o wire[c])[n] = recvBuf[n]
            /\ (recvBuf \o wire[c])[n + 1] = wire[c][1]
        BY <2>1, <4>1, ConcatProperties
      <4>3. recvBuf[n] \in Half
        BY <2>1, <4>1
      <4> HIDE DEF n
      <4>4. wire[c][1] = [recvBuf[n] EXCEPT !.part = 2]
        <5>1. n \in 1..Len(recvBuf \o wire[c])
          BY <2>1, <4>1, <4>2, ConcatProperties
        <5>2. QED
          BY <3>1, <4>1, <4>2, <5>1 DEF Framed
      <4>5. wire[c][1].part = 2
        BY <4>3, <4>4 DEF Half
      <4>6. QED
        BY <2>1, <4>5
    <3>3. Len(buf) = 1
      BY <2>1, <3>2
    <3>4. recvBuf' = buf
      BY <2>1, <3>3, EventsAssumption
    <3>5. wire'[c] = Tail(wire[c])
      BY <2>1 DEF TypeOK
    <3>6. QED
      BY <2>1, <3>1, <3>4, <3>5, ReadHalf
  <2>4. \A d \in Conns \ {c} : wire'[d] = wire[d]
    BY <2>1 DEF TypeOK
  <2>5. QED
    BY <2>1, <2>2, <2>3, <2>4 DEF Streams, Open
<1>4. ASSUME NEW c \in Conns, DataFrame(c) PROVE Streams'
  <2>1. /\ srv[c] = "open" /\ wire[c] # <<>> /\ Head(wire[c]).part = 2 /\ Head(wire[c]) = wire[c][1]
        /\ wire[c] \in Seq(Half) /\ recvBuf \in Seq(Half) /\ Tail(wire[c]) \in Seq(Half)
        /\ wire' = [wire EXCEPT ![c] = Tail(@)] /\ UNCHANGED <<srv, sock, overlap>>
        /\ recvBuf' = <<>>
    BY <1>4, HeadTailProperties DEF DataFrame, TypeOK
  <2>2. wire'[c] = Tail(wire[c]) /\ \A d \in Conns \ {c} : wire'[d] = wire[d]
    BY <2>1 DEF TypeOK
  <2>3. ASSUME ~overlap PROVE (\A d \in Open : c = d) /\ Framed(c, recvBuf' \o wire'[c])
    <3>1. c \in Open /\ (\A d \in Open : c = d) /\ Framed(c, recvBuf \o wire[c])
      BY <2>1, <2>3 DEF Streams, Open
    <3>2. Framed(c, Tail(wire[c]))
      BY <2>1, <3>1, AfterNewline
    <3>3. recvBuf' \o wire'[c] = Tail(wire[c])
      BY <2>1, <2>2, ConcatEmptySeq
    <3>4. QED
      BY <3>1, <3>2, <3>3
  <2>4. QED
    BY <2>1, <2>2, <2>3 DEF Streams, Open
<1>5. ASSUME NEW c \in Conns, Close(c) PROVE Streams'
  BY <1>5 DEF Close, Streams, Open, TypeOK
<1>6. CASE Crash
  BY <1>6 DEF Crash, Streams, Open, Framed
<1>7. CASE Change \/ Start \/ UNCHANGED vars
  BY <1>7 DEF Change, Start, vars, Streams, Open
<1>8. QED
  BY <1>1, <1>2, <1>3, <1>4, <1>5, <1>6, <1>7 DEF Next

\* The buffer of a stream holds the beginning of one report at most.
LEMMA StreamsBuffer == TypeOK /\ Streams => OneBuffer
<1> SUFFICES ASSUME TypeOK, Streams, ~overlap, NEW c \in Open, recvBuf # <<>>
             PROVE  \E v \in States : recvBuf = <<Report(c, v)[1]>>
  BY DEF OneBuffer, Streams
<1> DEFINE h == recvBuf[1]
           n == Len(recvBuf)
<1>1. c \in Conns /\ Framed(c, recvBuf \o wire[c]) /\ wire[c] \in Seq(Half) /\ recvBuf \in Seq(Half)
  BY DEF Streams, Open, TypeOK
<1>2. n \in Nat /\ n >= 1 /\ h \in Half /\ h.part = 1
  BY <1>1, LenProperties, EmptySeq DEF Streams
<1> DEFINE u == recvBuf \o wire[c]
<1>3. u[1] = h /\ (n > 1 => u[2] = recvBuf[2]) /\ 1 \in 1..Len(u)
  BY <1>1, <1>2, ConcatProperties
<1>4. h.from = c /\ h.val # None /\ u[1 + 1] = [h EXCEPT !.part = 2]
  <2>1. Framed(c, u)
    BY <1>1
  <2> HIDE DEF h, n, u
  <2>2. QED
    BY <1>2, <1>3, <2>1 DEF Framed
<1>5. u[2].part = 2
  <2>1. u[2] = [h EXCEPT !.part = 2]
    <3> HIDE DEF h, u
    <3>1. QED
      BY <1>4
  <2> HIDE DEF h, u
  <2>2. QED
    BY <1>2, <2>1 DEF Half
<1>6. n = 1
  <2>1. ASSUME n > 1 PROVE FALSE
    <3>1. recvBuf[2].part = 1
      BY <1>2, <2>1 DEF Streams
    <3> HIDE DEF u, n
    <3>2. QED
      BY <1>3, <1>5, <2>1, <3>1
  <2> HIDE DEF n
  <2>2. QED
    BY <1>2, <2>1
<1>7. h.val \in States /\ h = [from |-> c, val |-> h.val, part |-> 1]
  <2> HIDE DEF h, u
  <2>1. QED
    BY <1>2, <1>4 DEF Half
<1>8. recvBuf = <<h>>
  BY <1>1, <1>6
<1>9. Report(c, h.val)[1] = h
  <2> HIDE DEF h
  <2>1. QED
    BY <1>7 DEF Report
<1>10. QED
  BY <1>7, <1>8, <1>9

\* While the newest connection has no live rival, the shared buffer is a
\* per-connection buffer.
THEOREM BufferIsOwned == Spec => []OneBuffer
<1>1. Init => CurrentIsOpen /\ Streams
  BY DEF Init, CurrentIsOpen, Streams, Open, Framed
<1>2. QED
  BY <1>1, CurrentStep, StreamsStep, StreamsBuffer, TypeCorrect, PTL DEF Spec

-----------------------------------------------------------------------------
(***************************************************************************)
(* What the slot was told last                                             *)
(***************************************************************************)

Carries(s) == \E i \in 1..Len(s) : s[i].val # None

\* The halves of s are c's, and a first half is followed by its second.
Paired(c, s) ==
  \A i \in 1..Len(s) :
    /\ s[i].from = c
    /\ s[i].part = 1 => i < Len(s) /\ s[i + 1] = [s[i] EXCEPT !.part = 2]

\* If s carries a report, the last one says v.
Says(s, v) ==
  \A i \in 1..Len(s) :
    s[i].val \in {None, v} \/ \E j \in 1..Len(s) : i < j /\ s[j].val # None

\* A publisher's socket is one it opened and has not closed.
LinkOwned ==
  \A p \in Pubs :
    link[p] # NoConn => owner[link[p]] = p /\ cli[link[p]] \in {"open", "reset"}

\* A publisher has halves under way on the connection it uses, and no other.
WireOwned == \A c \in Conns : wire[c] # <<>> => link[owner[c]] = c

WirePaired == \A c \in Conns : Paired(c, wire[c])

\* The second half of what is in the buffer comes next on its connection.
HalfRead ==
  \A i \in 1..Len(recvBuf) :
    /\ wire[recvBuf[i].from] # <<>>
    /\ wire[recvBuf[i].from][1] = [recvBuf[i] EXCEPT !.part = 2]

\* Of what a publisher has under way the last report is what it believes the
\* slot to know, unless something it reported later was lost.
LastSaid == \A c \in Conns : owner[c] \in lost \/ Says(wire[c], last[owner[c]])

\* What the slot knows it has from a publisher, which still believes that it
\* knows it, or has another report under way, or lost one, or starts anew.
Source ==
  \E q \in Pubs :
    \/ q \in lost
    \/ last[q] = view \/ last[q] = None
    \/ \E c \in Conns : owner[c] = q /\ Carries(wire[c])

Provenance == LinkOwned /\ WireOwned /\ WirePaired /\ HalfRead /\ LastSaid /\ Source

-----------------------------------------------------------------------------

\* What a publisher adds to its connection.
LEMMA AppendedKeeps ==
  ASSUME NEW c \in Conns, NEW s \in Seq(Half), NEW t \in Seq(Half), NEW v \in States
  PROVE  /\ Paired(c, s) /\ Paired(c, t) => Paired(c, s \o t)
         /\ Carries(s) \/ Carries(t) => Carries(s \o t)
         /\ Says(t, v) /\ (Says(s, v) \/ Carries(t)) => Says(s \o t, v)
         /\ s # <<>> => s \o t # <<>> /\ (s \o t)[1] = s[1]
<1> DEFINE m == Len(s)
           n == Len(t)
           u == s \o t
<1>1. m \in Nat /\ n \in Nat /\ Len(u) = m + n
  BY ConcatProperties
<1>2. (\A i \in 1..m : u[i] = s[i]) /\ \A i \in 1..n : u[m + i] = t[i]
  BY <1>1, ConcatProperties
<1>3. s # <<>> => m # 0
  BY EmptySeq
<1> HIDE DEF u
<1>4. ASSUME NEW k \in 1..(m + n)
      PROVE  k \in 1..m \/ (k - m \in 1..n /\ k = m + (k - m))
  BY <1>1
<1>5. ASSUME Paired(c, s), Paired(c, t) PROVE Paired(c, u)
  <2> SUFFICES ASSUME NEW k \in 1..(m + n)
               PROVE  /\ u[k].from = c
                      /\ u[k].part = 1 => k < m + n /\ u[k + 1] = [u[k] EXCEPT !.part = 2]
    BY <1>1 DEF Paired
  <2>1. CASE k \in 1..m
    <3>1. s[k].from = c /\ (s[k].part = 1 => k < m /\ s[k + 1] = [s[k] EXCEPT !.part = 2])
      BY <1>5, <2>1 DEF Paired
    <3>2. k < m => k + 1 \in 1..m /\ k < m + n
      BY <1>1, <2>1
    <3>3. QED
      BY <1>2, <2>1, <3>1, <3>2
  <2>2. CASE k - m \in 1..n /\ k = m + (k - m)
    <3> DEFINE j == k - m
    <3>1. j \in 1..n /\ k = m + j /\ (j < n => j + 1 \in 1..n /\ m + (j + 1) = k + 1 /\ k < m + n)
      BY <1>1, <2>2
    <3> HIDE DEF j
    <3>2. t[j].from = c /\ (t[j].part = 1 => j < n /\ t[j + 1] = [t[j] EXCEPT !.part = 2])
      BY <1>5, <3>1 DEF Paired
    <3>3. QED
      BY <1>2, <3>1, <3>2
  <2>3. QED
    BY <1>4, <2>1, <2>2
<1>6. ASSUME Carries(s) \/ Carries(t) PROVE Carries(u)
  <2>1. CASE Carries(s)
    BY <1>1, <1>2, <2>1 DEF Carries
  <2>2. CASE Carries(t)
    <3>1. PICK i \in 1..n : t[i].val # None
      BY <2>2 DEF Carries
    <3>2. m + i \in 1..Len(u) /\ u[m + i].val # None
      BY <1>1, <1>2, <3>1
    <3>3. QED
      BY <3>2 DEF Carries
  <2>3. QED
    BY <1>6, <2>1, <2>2
<1>7. ASSUME Says(t, v), Says(s, v) \/ Carries(t) PROVE Says(u, v)
  <2> SUFFICES ASSUME NEW k \in 1..(m + n), u[k].val \notin {None, v}
               PROVE  \E j \in 1..(m + n) : k < j /\ u[j].val # None
    BY <1>1 DEF Says
  <2>1. CASE k \in 1..m /\ Carries(t)
    <3>1. PICK i \in 1..n : t[i].val # None
      BY <2>1 DEF Carries
    <3>2. m + i \in 1..(m + n) /\ k < m + i /\ u[m + i].val # None
      BY <1>1, <1>2, <2>1, <3>1
    <3>3. QED
      BY <3>2
  <2>2. CASE k \in 1..m /\ Says(s, v)
    <3>1. PICK j \in 1..m : k < j /\ s[j].val # None
      BY <1>2, <2>2 DEF Says
    <3>2. QED
      BY <1>1, <1>2, <3>1
  <2>3. CASE k - m \in 1..n /\ k = m + (k - m)
    <3>1. t[k - m].val \notin {None, v}
      <4> DEFINE i == k - m
      <4>1. i \in 1..n /\ k = m + i
        BY <2>3
      <4> HIDE DEF i
      <4>2. t[i].val \notin {None, v}
        BY <1>2, <4>1
      <4>3. QED
        BY <4>2 DEF i
    <3>2. PICK j \in 1..n : k - m < j /\ t[j].val # None
      BY <1>7, <2>3, <3>1 DEF Says
    <3>3. m + j \in 1..(m + n) /\ k < m + j /\ u[m + j].val # None
      BY <1>1, <1>2, <3>2
    <3>4. QED
      BY <3>3
  <2>4. QED
    BY <1>4, <1>7, <2>1, <2>2, <2>3
<1>8. ASSUME s # <<>> PROVE u # <<>> /\ u[1] = s[1]
  BY <1>1, <1>2, <1>3, <1>8
<1>9. QED
  BY <1>5, <1>6, <1>7, <1>8 DEF u

\* What is left of a connection when its first half has been read.
LEMMA ReadKeeps ==
  ASSUME NEW c \in Conns, NEW s \in Seq(Half), s # <<>>, NEW v
  PROVE  /\ Paired(c, s) => Paired(c, Tail(s))
         /\ Says(s, v) => Says(Tail(s), v)
         /\ Carries(s) => Carries(Tail(s)) \/ s[1].val # None
         /\ Says(s, v) /\ s[1].val # None /\ s[1].val # v => Carries(Tail(s))
         /\ Paired(c, s) /\ s[1].part = 1
              => /\ Carries(Tail(s)) /\ Tail(s) # <<>>
                 /\ Tail(s)[1] = [s[1] EXCEPT !.part = 2]
<1> DEFINE n == Len(s)
           t == Tail(s)
<1>1. n \in Nat /\ n >= 1 /\ t \in Seq(Half) /\ Len(t) = n - 1 /\ \A i \in 1..(n - 1) : t[i] = s[i + 1]
  BY HeadTailProperties, EmptySeq
<1> HIDE DEF n, t
<1>2. \A k \in 1..n : k = 1 \/ (k - 1 \in 1..(n - 1) /\ t[k - 1] = s[k])
  BY <1>1
<1>3. ASSUME Paired(c, s) PROVE Paired(c, t)
  <2> SUFFICES ASSUME NEW i \in 1..(n - 1)
               PROVE  /\ t[i].from = c
                      /\ t[i].part = 1 => i < n - 1 /\ t[i + 1] = [t[i] EXCEPT !.part = 2]
    BY <1>1 DEF Paired
  <2>1. i + 1 \in 1..n /\ t[i] = s[i + 1]
        /\ (i + 1 < n => i < n - 1 /\ t[i + 1] = s[i + 2] /\ (i + 1) + 1 = i + 2)
    BY <1>1
  <2>2. /\ s[i + 1].from = c
        /\ s[i + 1].part = 1 => i + 1 < n /\ s[(i + 1) + 1] = [s[i + 1] EXCEPT !.part = 2]
    BY <1>3, <2>1 DEF Paired, n
  <2>3. QED
    BY <2>1, <2>2
<1>4. ASSUME Says(s, v) PROVE Says(t, v)
  <2> SUFFICES ASSUME NEW i \in 1..(n - 1), t[i].val \notin {None, v}
               PROVE  \E j \in 1..(n - 1) : i < j /\ t[j].val # None
    BY <1>1 DEF Says
  <2>1. i + 1 \in 1..n /\ s[i + 1].val \notin {None, v}
    BY <1>1
  <2>2. PICK k \in 1..n : i + 1 < k /\ s[k].val # None
    BY <1>4, <2>1 DEF Says, n
  <2>3. k - 1 \in 1..(n - 1) /\ i < k - 1 /\ t[k - 1] = s[k]
    BY <1>1, <1>2, <2>2
  <2>4. QED
    BY <2>2, <2>3
<1>5. ASSUME Carries(s), s[1].val = None PROVE Carries(t)
  <2>1. PICK k \in 1..n : s[k].val # None
    BY <1>5 DEF Carries, n
  <2>2. k - 1 \in 1..Len(t) /\ t[k - 1].val # None
    BY <1>1, <1>2, <1>5, <2>1
  <2>3. QED
    BY <2>2 DEF Carries
<1>6. ASSUME Says(s, v), s[1].val # None, s[1].val # v PROVE Carries(t)
  <2>1. PICK k \in 1..n : 1 < k /\ s[k].val # None
    BY <1>1, <1>6 DEF Says, n
  <2>2. k - 1 \in 1..Len(t) /\ t[k - 1].val # None
    BY <1>1, <1>2, <2>1
  <2>3. QED
    BY <2>2 DEF Carries
<1>7. ASSUME Paired(c, s), s[1].part = 1
      PROVE  Carries(t) /\ t # <<>> /\ t[1] = [s[1] EXCEPT !.part = 2]
  <2>1. 1 \in 1..n /\ s[1] \in Half
    BY <1>1 DEF n
  <2>2. 1 < n /\ s[1 + 1] = [s[1] EXCEPT !.part = 2]
    BY <1>7, <2>1 DEF Paired, n
  <2>3. 1 \in 1..Len(t) /\ t[1] = [s[1] EXCEPT !.part = 2]
    BY <1>1, <2>2
  <2>4. s[1].val \in States /\ s[1].val # None
    BY <1>7, <2>1, EventsAssumption DEF Half
  <2>5. t[1].val # None
    BY <2>1, <2>3, <2>4 DEF Half
  <2>6. t # <<>>
    <3>1. Len(t) # 0
      BY <1>1, <2>2
    <3>2. QED
      BY <3>1, EmptySeq
  <2>7. QED
    BY <2>3, <2>5, <2>6 DEF Carries
<1>8. QED
  BY <1>3, <1>4, <1>5, <1>6, <1>7 DEF t

-----------------------------------------------------------------------------

\* What Publish() and Tick() do when the frame leaves, and when it does not.
Sends(p, c, s) ==
  /\ \/ /\ link[p] = NoConn /\ Free(c)
        /\ srv' = [srv EXCEPT ![c] = "queued"]
        /\ cli' = [cli EXCEPT ![c] = "open"]
        /\ owner' = [owner EXCEPT ![c] = p]
     \/ link[p] = c /\ UNCHANGED <<srv, cli, owner>>
  /\ link' = [link EXCEPT ![p] = c]
  /\ wire' = [wire EXCEPT ![c] = @ \o s]
  /\ last' = [last EXCEPT ![p] = cur]
  /\ \/ s = Snapshot(c) /\ last[p] = cur /\ lost' = lost
     \/ s \in {Report(c, cur), Snapshot(c) \o Report(c, cur)} /\ lost' = lost \ {p}

Misses(p) ==
  /\ UNCHANGED <<owner, srv, wire>>
  /\ link[p] # NoConn /\ ~Alive(link[p])
  /\ \/ link' = link /\ cli' = [cli EXCEPT ![link[p]] = "reset"]
     \/ Abandon(p)
  /\ lost' \in {lost, lost \cup {p}}
  /\ \/ last' = last
     \/ last' = [last EXCEPT ![p] = cur] /\ p \in lost'

\* What a publisher does is to send into its own connection, or to miss.
LEMMA PublisherSteps ==
  ASSUME TypeOK, NEW p \in Pubs, Publish(p) \/ Tick(p)
  PROVE  /\ UNCHANGED <<cur, sock, recvBuf, view>>
         /\ \/ \E c \in Conns :
                 \E s \in {Report(c, cur), Snapshot(c), Snapshot(c) \o Report(c, cur)} : Sends(p, c, s)
            \/ Misses(p)
<1>0. UNCHANGED <<cur, sock, recvBuf, view>>
  BY DEF Publish, Tick
<1>1. ASSUME NEW f, Deliver(p, f)
      PROVE  \E c \in Conns :
               /\ \/ /\ link[p] = NoConn /\ Free(c)
                     /\ srv' = [srv EXCEPT ![c] = "queued"]
                     /\ cli' = [cli EXCEPT ![c] = "open"]
                     /\ owner' = [owner EXCEPT ![c] = p]
                  \/ link[p] = c /\ UNCHANGED <<srv, cli, owner>>
               /\ link' = [link EXCEPT ![p] = c]
               /\ wire' = [wire EXCEPT ![c] = @ \o f[c]]
  BY <1>1 DEF Deliver
<1>2. CASE Publish(p)
  <2> DEFINE f == [c \in Conns |-> Report(c, cur)]
  <2>1. CASE Deliver(p, f) /\ lost' = lost \ {p} /\ last' = [last EXCEPT ![p] = cur]
    <3>1. \A c \in Conns : f[c] = Report(c, cur)
      OBVIOUS
    <3> HIDE DEF f
    <3>2. PICK c \in Conns :
               /\ \/ /\ link[p] = NoConn /\ Free(c)
                     /\ srv' = [srv EXCEPT ![c] = "queued"]
                     /\ cli' = [cli EXCEPT ![c] = "open"]
                     /\ owner' = [owner EXCEPT ![c] = p]
                  \/ link[p] = c /\ UNCHANGED <<srv, cli, owner>>
               /\ link' = [link EXCEPT ![p] = c]
               /\ wire' = [wire EXCEPT ![c] = @ \o f[c]]
      BY <1>1, <2>1
    <3>3. Sends(p, c, Report(c, cur))
      BY <2>1, <3>1, <3>2 DEF Sends
    <3>4. QED
      BY <1>0, <3>3
  <2>2. CASE Vanish(p) /\ lost' = lost \cup {p} /\ last' = [last EXCEPT ![p] = cur]
    BY <1>0, <2>2 DEF Vanish, Misses
  <2>3. CASE Fail(p) /\ UNCHANGED <<last, lost>>
    BY <1>0, <2>3 DEF Fail, Misses
  <2>4. QED
    BY <1>2, <2>1, <2>2, <2>3 DEF Publish
<1>3. CASE Tick(p)
  <2> DEFINE f == [c \in Conns |-> IF last[p] # cur THEN Snapshot(c) \o Report(c, cur)
                                                     ELSE Snapshot(c)]
  <2>0. last' = [last EXCEPT ![p] = cur] /\ (last[p] = cur => last' = last)
    BY <1>3 DEF Tick, TypeOK
  <2>1. CASE Deliver(p, f) /\ lost' = IF last[p] # cur THEN lost \ {p} ELSE lost
    <3>1. \A c \in Conns : f[c] = IF last[p] # cur THEN Snapshot(c) \o Report(c, cur)
                                                    ELSE Snapshot(c)
      OBVIOUS
    <3> HIDE DEF f
    <3>2. PICK c \in Conns :
               /\ \/ /\ link[p] = NoConn /\ Free(c)
                     /\ srv' = [srv EXCEPT ![c] = "queued"]
                     /\ cli' = [cli EXCEPT ![c] = "open"]
                     /\ owner' = [owner EXCEPT ![c] = p]
                  \/ link[p] = c /\ UNCHANGED <<srv, cli, owner>>
               /\ link' = [link EXCEPT ![p] = c]
               /\ wire' = [wire EXCEPT ![c] = @ \o f[c]]
      BY <1>1, <2>1
    <3>3. Sends(p, c, f[c])
      BY <2>0, <2>1, <3>1, <3>2 DEF Sends
    <3>4. f[c] \in {Report(c, cur), Snapshot(c), Snapshot(c) \o Report(c, cur)}
      BY <3>1
    <3>5. QED
      BY <1>0, <3>3, <3>4
  <2>2. CASE (Vanish(p) \/ Fail(p)) /\ lost' = IF last[p] # cur THEN lost \cup {p} ELSE lost
    <3>1. last' = last \/ (last' = [last EXCEPT ![p] = cur] /\ p \in lost')
      BY <2>0, <2>2
    <3>2. QED
      BY <1>0, <2>2, <3>1 DEF Vanish, Fail, Misses
  <2>3. QED
    BY <1>3, <2>1, <2>2 DEF Tick
<1>4. QED
  BY <1>2, <1>3

\* The frames a publisher sends.
LEMMA SentFrames ==
  ASSUME NEW c \in Conns, NEW v \in States,
         NEW s \in {Report(c, v), Snapshot(c), Snapshot(c) \o Report(c, v)}
  PROVE  /\ s \in Seq(Half) /\ Paired(c, s) /\ Says(s, v)
         /\ s \in {Report(c, v), Snapshot(c) \o Report(c, v)} => Carries(s)
<1>0. v # None
  BY EventsAssumption
<1>1. LET r == Report(c, v) IN r \in Seq(Half) /\ Paired(c, r) /\ Says(r, v) /\ Carries(r)
  <2> DEFINE r == Report(c, v)
  <2>1. Len(r) = 2 /\ r[1] = [from |-> c, val |-> v, part |-> 1]
                   /\ r[2] = [from |-> c, val |-> v, part |-> 2]
    BY DEF Report
  <2>2. r \in Seq(Half) /\ r[2] = [r[1] EXCEPT !.part = 2]
    BY <2>1, FrameTypes
  <2> HIDE DEF r
  <2>3. \A i \in 1..Len(r) : i = 1 \/ i = 2
    BY <2>1
  <2>4. Paired(c, r) /\ Says(r, v) /\ Carries(r)
    BY <1>0, <2>1, <2>2, <2>3 DEF Paired, Says, Carries
  <2>5. QED
    BY <2>2, <2>4 DEF r
<1>2. LET r == Snapshot(c) IN r \in Seq(Half) /\ Paired(c, r) /\ Says(r, v)
  <2> DEFINE r == Snapshot(c)
  <2>1. Len(r) = 1 /\ r[1] = [from |-> c, val |-> None, part |-> 2] /\ r \in Seq(Half)
    BY FrameTypes DEF Snapshot
  <2> HIDE DEF r
  <2>2. Paired(c, r) /\ Says(r, v)
    BY <2>1 DEF Paired, Says
  <2>3. QED
    BY <2>1, <2>2 DEF r
<1>3. LET r == Snapshot(c) \o Report(c, v) IN
        r \in Seq(Half) /\ Paired(c, r) /\ Says(r, v) /\ Carries(r)
  BY <1>1, <1>2, FrameTypes, AppendedKeeps
<1>4. QED
  BY <1>1, <1>2, <1>3

\* Nothing under way says anything, and what carries something is there.
LEMMA NothingSaid ==
  /\ \A c \in Conns : \A v : Paired(c, <<>>) /\ Says(<<>>, v)
  /\ ~Carries(<<>>)
BY DEF Paired, Says, Carries

\* A report or snapshot that is sent carries the present state.
LEMMA SendKeeps ==
  ASSUME TypeOK, Streams, Provenance, NEW p \in Pubs, NEW c \in Conns,
         NEW s \in {Report(c, cur), Snapshot(c), Snapshot(c) \o Report(c, cur)},
         Sends(p, c, s), UNCHANGED <<cur, sock, recvBuf, view>>
  PROVE  Provenance'
<1> USE EventsAssumption
<1>1. /\ wire'[c] = wire[c] \o s /\ wire[c] \in Seq(Half)
      /\ \A d \in Conns \ {c} : wire'[d] = wire[d] /\ owner'[d] = owner[d] /\ cli'[d] = cli[d]
      /\ link'[p] = c /\ last'[p] = cur /\ cur \in States
      /\ link[p] # c => link[p] = NoConn
      /\ \A q \in Pubs \ {p} : /\ link'[q] = link[q] /\ last'[q] = last[q]
                               /\ q \in lost' <=> q \in lost
      /\ c # NoConn
  BY DEF Sends, TypeOK
<1>2. /\ owner'[c] = p
      /\ wire[c] = <<>> \/ owner[c] = p
      /\ cli'[c] \in {"open", "reset"}
      /\ \A q \in Pubs \ {p} : link[q] # c
  <2>1. CASE link[p] = NoConn /\ Free(c) /\ cli' = [cli EXCEPT ![c] = "open"]
             /\ owner' = [owner EXCEPT ![c] = p]
    BY <1>1, <2>1 DEF Free, Streams, Provenance, LinkOwned, TypeOK
  <2>2. CASE link[p] = c /\ UNCHANGED <<srv, cli, owner>>
    BY <1>1, <2>2 DEF Provenance, LinkOwned
  <2>3. QED
    BY <2>1, <2>2 DEF Sends
<1>3. \A d \in Conns \ {c} : wire[d] # <<>> => owner[d] # p
  BY <1>1 DEF Provenance, WireOwned, TypeOK
<1>4. /\ s \in Seq(Half) /\ Paired(c, s) /\ Says(s, cur)
      /\ s \in {Report(c, cur), Snapshot(c) \o Report(c, cur)} => Carries(s)
  BY <1>1, SentFrames
<1>5. /\ Paired(c, wire[c]) => Paired(c, wire'[c])
      /\ Carries(wire[c]) \/ Carries(s) => Carries(wire'[c])
      /\ Says(wire[c], cur) \/ Carries(s) => Says(wire'[c], cur)
      /\ wire[c] # <<>> => wire'[c] # <<>> /\ wire'[c][1] = wire[c][1]
  BY <1>1, <1>4, AppendedKeeps
<1>6. \/ s = Snapshot(c) /\ last[p] = cur /\ (p \in lost' <=> p \in lost)
      \/ Carries(s)
  BY <1>4 DEF Sends
<1>7. LinkOwned'
  <2> SUFFICES ASSUME NEW q \in Pubs, link'[q] # NoConn
               PROVE  owner'[link'[q]] = q /\ cli'[link'[q]] \in {"open", "reset"}
    BY DEF LinkOwned
  <2>1. CASE q = p
    BY <1>1, <1>2, <2>1
  <2>2. CASE q # p
    <3>1. link'[q] = link[q] /\ owner[link[q]] = q /\ cli[link[q]] \in {"open", "reset"}
          /\ link[q] \in Conns \ {c}
      BY <1>1, <1>2, <2>2 DEF Provenance, LinkOwned, TypeOK
    <3>2. QED
      BY <1>1, <3>1
  <2>3. QED
    BY <2>1, <2>2
<1>8. WireOwned'
  <2> SUFFICES ASSUME NEW d \in Conns, wire'[d] # <<>> PROVE link'[owner'[d]] = d
    BY DEF WireOwned
  <2>1. CASE d = c
    BY <1>1, <1>2, <2>1
  <2>2. CASE d # c
    <3>1. wire[d] # <<>> /\ owner[d] \in Pubs \ {p} /\ owner'[d] = owner[d]
      BY <1>1, <1>3, <2>2 DEF TypeOK
    <3>2. QED
      BY <1>1, <3>1 DEF Provenance, WireOwned
  <2>3. QED
    BY <2>1, <2>2
<1>9. WirePaired'
  BY <1>1, <1>5 DEF Provenance, WirePaired
<1>10. HalfRead'
  <2> SUFFICES ASSUME NEW i \in 1..Len(recvBuf)
               PROVE  /\ wire'[recvBuf[i].from] # <<>>
                      /\ wire'[recvBuf[i].from][1] = [recvBuf[i] EXCEPT !.part = 2]
    BY DEF HalfRead
  <2>1. recvBuf[i] \in Half
    BY DEF TypeOK
  <2>2. recvBuf[i].from \in Conns
    BY <2>1 DEF Half
  <2>3. QED
    BY <1>1, <1>5, <2>2 DEF Provenance, HalfRead
<1>11. LastSaid'
  <2> SUFFICES ASSUME NEW d \in Conns PROVE owner'[d] \in lost' \/ Says(wire'[d], last'[owner'[d]])
    BY DEF LastSaid
  <2>1. CASE d = c
    <3>1. CASE Carries(s)
      BY <1>1, <1>2, <1>5, <2>1, <3>1
    <3>2. CASE last[p] = cur /\ (p \in lost' <=> p \in lost)
      <4>1. p \in lost \/ Says(wire[c], cur)
        <5>1. CASE wire[c] = <<>>
          BY <5>1, NothingSaid
        <5>2. CASE owner[c] = p
          BY <3>2, <5>2 DEF Provenance, LastSaid
        <5>3. QED
          BY <1>2, <5>1, <5>2
      <4>2. QED
        <5>1. owner'[d] = p /\ last'[p] = cur /\ (p \in lost => p \in lost')
          BY <1>1, <1>2, <2>1, <3>2
        <5>2. Says(wire[c], cur) => Says(wire'[d], cur)
          BY <1>5, <2>1
        <5>3. QED
          BY <4>1, <5>1, <5>2
    <3>3. QED
      BY <1>6, <3>1, <3>2
  <2>2. CASE d # c
    <3>1. CASE wire[d] = <<>>
      BY <1>1, <2>2, <3>1, NothingSaid
    <3>2. CASE wire[d] # <<>>
      <4>1. owner[d] \in Pubs \ {p}
        BY <1>3, <2>2, <3>2 DEF TypeOK
      <4>2. QED
        BY <1>1, <2>2, <4>1 DEF Provenance, LastSaid
    <3>3. QED
      BY <3>1, <3>2
  <2>3. QED
    BY <2>1, <2>2
<1>12. Source'
  <2>1. PICK q \in Pubs : \/ q \in lost
                          \/ last[q] = view \/ last[q] = None
                          \/ \E d \in Conns : owner[d] = q /\ Carries(wire[d])
    BY DEF Provenance, Source
  <2>2. CASE q = p /\ Carries(s)
    BY <1>2, <1>5, <2>2 DEF Source
  <2>3. CASE ~(q = p /\ Carries(s))
    <3>1. last'[q] = last[q] /\ (q \in lost' <=> q \in lost)
      BY <1>1, <1>6, <2>3
    <3>2. ASSUME NEW d \in Conns, owner[d] = q, Carries(wire[d])
          PROVE  owner'[d] = q /\ Carries(wire'[d])
      <4>1. wire[d] # <<>>
        BY <3>2, NothingSaid
      <4>2. QED
        BY <1>1, <1>2, <1>5, <3>2, <4>1
    <3>3. QED
      BY <2>1, <3>1, <3>2 DEF Source
  <2>4. QED
    BY <2>2, <2>3
<1>13. QED
  BY <1>7, <1>8, <1>9, <1>10, <1>11, <1>12 DEF Provenance

\* A report that could not be sent is not remembered, or counted among the lost.
LEMMA MissKeeps ==
  ASSUME TypeOK, Streams, Provenance, NEW p \in Pubs, Misses(p),
         UNCHANGED <<cur, sock, recvBuf, view>>
  PROVE  Provenance'
<1> USE EventsAssumption
<1> DEFINE c == link[p]
<1>1. /\ UNCHANGED <<owner, srv, wire, recvBuf, view>>
      /\ c \in Conns /\ owner[c] = p /\ wire[c] = <<>>
      /\ \A q \in Pubs \ {p} : link'[q] = link[q] /\ last'[q] = last[q] /\ (q \in lost' <=> q \in lost)
      /\ link'[p] = NoConn \/ (link' = link /\ cli'[c] = "reset")
      /\ \A d \in Conns \ {c} : cli'[d] = cli[d]
      /\ lost \subseteq lost' /\ (p \in lost' \/ last' = last)
  BY DEF Misses, Abandon, Alive, Streams, Provenance, LinkOwned, TypeOK
<1>2. \A d \in Conns : wire[d] # <<>> => owner[d] \in Pubs \ {p}
  BY <1>1 DEF Provenance, WireOwned, TypeOK
<1>3. LinkOwned'
  <2> SUFFICES ASSUME NEW q \in Pubs, link'[q] # NoConn
               PROVE  owner[link'[q]] = q /\ cli'[link'[q]] \in {"open", "reset"}
    BY <1>1 DEF LinkOwned
  <2>1. CASE q = p
    BY <1>1, <2>1
  <2>2. CASE q # p
    <3>1. link'[q] = link[q] /\ owner[link[q]] = q /\ cli[link[q]] \in {"open", "reset"}
          /\ link[q] \in Conns /\ link[q] # c
      BY <1>1, <2>2 DEF Provenance, LinkOwned, TypeOK
    <3>2. QED
      BY <1>1, <3>1
  <2>3. QED
    BY <2>1, <2>2
<1>4. WireOwned'
  BY <1>1, <1>2 DEF Provenance, WireOwned
<1>5. WirePaired' /\ HalfRead'
  BY <1>1 DEF Provenance, WirePaired, HalfRead
<1>6. LastSaid'
  <2> SUFFICES ASSUME NEW d \in Conns PROVE owner[d] \in lost' \/ Says(wire[d], last'[owner[d]])
    BY <1>1 DEF LastSaid
  <2>1. CASE wire[d] = <<>>
    BY <2>1, NothingSaid
  <2>2. CASE wire[d] # <<>>
    BY <1>1, <1>2, <2>2 DEF Provenance, LastSaid
  <2>3. QED
    BY <2>1, <2>2
<1>7. Source'
  BY <1>1 DEF Provenance, Source
<1>8. QED
  BY <1>3, <1>4, <1>5, <1>6, <1>7 DEF Provenance

\* A publisher that starts anew: a login that SlotService had reported, and
\* will not report again when it is over, counts as lost.
LEMMA RestartKeeps ==
  ASSUME TypeOK, Provenance, NEW p \in Pubs, Restart(p)
  PROVE  Provenance'
<1> USE EventsAssumption
<1>1. /\ UNCHANGED <<owner, wire, recvBuf, view>>
      /\ link[p] # NoConn => wire[link[p]] = <<>>
      /\ \A q \in Pubs \ {p} : link'[q] = link[q] /\ last'[q] = last[q]
      /\ link'[p] = NoConn /\ lost \subseteq lost'
      /\ \A d \in Conns : d # link[p] => cli'[d] = cli[d]
      /\ last'[p] = last[p] \/ last'[p] = None \/ p \in lost'
  <2>1. /\ link' = [link EXCEPT ![p] = NoConn] /\ last' = [last EXCEPT ![p] = Fresh(p)]
        /\ cli' = [d \in Conns |-> IF d = link[p]
                                   THEN (IF srv[d] = "none" THEN "none" ELSE "closed") ELSE cli[d]]
        /\ lost' = IF p \in Mql /\ last[p] # Out THEN lost \cup {p} ELSE lost
    BY DEF Restart, Abandon
  <2>2. last'[p] = last[p] \/ last'[p] = None \/ p \in lost'
    BY <2>1 DEF Fresh, TypeOK, Pubs
  <2>3. QED
    BY <2>1, <2>2 DEF Restart, TypeOK
<1>2. \A d \in Conns : wire[d] # <<>> => owner[d] \in Pubs \ {p}
  <2> SUFFICES ASSUME NEW d \in Conns, wire[d] # <<>>, owner[d] = p PROVE FALSE
    BY DEF TypeOK
  <2>1. link[p] = d
    BY DEF Provenance, WireOwned
  <2>2. QED
    BY <1>1, <2>1
<1>3. LinkOwned'
  <2> SUFFICES ASSUME NEW q \in Pubs, link'[q] # NoConn
               PROVE  owner[link'[q]] = q /\ cli'[link'[q]] \in {"open", "reset"}
    BY <1>1 DEF LinkOwned
  <2>1. q # p /\ link'[q] = link[q] /\ link[q] \in Conns
        /\ owner[link[q]] = q /\ cli[link[q]] \in {"open", "reset"}
    BY <1>1 DEF Provenance, LinkOwned, TypeOK
  <2>2. link[q] # link[p]
    BY <2>1 DEF Provenance, LinkOwned
  <2>3. QED
    BY <1>1, <2>1, <2>2
<1>4. WireOwned'
  BY <1>1, <1>2 DEF Provenance, WireOwned
<1>5. WirePaired' /\ HalfRead'
  BY <1>1 DEF Provenance, WirePaired, HalfRead
<1>6. LastSaid'
  <2> SUFFICES ASSUME NEW d \in Conns PROVE owner[d] \in lost' \/ Says(wire[d], last'[owner[d]])
    BY <1>1 DEF LastSaid
  <2>1. CASE wire[d] = <<>>
    BY <2>1, NothingSaid
  <2>2. CASE wire[d] # <<>>
    BY <1>1, <1>2, <2>2 DEF Provenance, LastSaid
  <2>3. QED
    BY <2>1, <2>2
<1>7. Source'
  BY <1>1 DEF Provenance, Source
<1>8. QED
  BY <1>3, <1>4, <1>5, <1>6, <1>7 DEF Provenance

\* Who had a report among the halves that are dropped is known to have lost it.
LEMMA DroppedIsLost ==
  ASSUME NEW c \in Conns, NEW s, Paired(c, s), Carries(s)
  PROVE  owner[c] \in Reporters(s)
BY DEF Paired, Carries, Reporters

\* Replacing a connection loses what it had not delivered.
LEMMA AcceptKeeps ==
  ASSUME TypeOK, Provenance, NEW c \in Conns, Accept(c)
  PROVE  Provenance'
<1>1. /\ UNCHANGED <<link, last, owner, cli, view>>
      /\ recvBuf' = <<>> /\ lost \subseteq lost'
      /\ \A d \in Conns : wire'[d] = wire[d] \/ (d = sock /\ wire'[d] = <<>>)
      /\ sock \in Conns => Reporters(wire[sock]) \subseteq lost'
  BY EventsAssumption DEF Accept, pubVars
<1>2. LinkOwned' /\ WireOwned' /\ HalfRead'
  BY <1>1 DEF Provenance, LinkOwned, WireOwned, HalfRead
<1>3. WirePaired' /\ LastSaid'
  BY <1>1, NothingSaid DEF Provenance, WirePaired, LastSaid
<1>4. Source'
  <2>1. PICK q \in Pubs : \/ q \in lost
                          \/ last[q] = view \/ last[q] = None
                          \/ \E d \in Conns : owner[d] = q /\ Carries(wire[d])
    BY DEF Provenance, Source
  <2>2. ASSUME NEW d \in Conns, owner[d] = q, Carries(wire[d])
        PROVE  q \in lost' \/ Carries(wire'[d])
    BY <1>1, <2>2, DroppedIsLost DEF Provenance, WirePaired
  <2>3. QED
    BY <1>1, <2>1, <2>2 DEF Source
<1>5. QED
  BY <1>2, <1>3, <1>4 DEF Provenance

\* The first half of a frame is kept until its second half comes.
LEMMA DataHalfKeeps ==
  ASSUME TypeOK, Provenance, NEW c \in Conns, DataHalf(c)
  PROVE  Provenance'
<1> DEFINE h == wire[c][1]
<1>1. /\ wire[c] \in Seq(Half) /\ wire[c] # <<>> /\ h \in Half /\ h.part = 1 /\ h.from = c
      /\ Paired(c, wire[c]) /\ Head(wire[c]) = h
      /\ UNCHANGED <<link, last, owner, cli, view>> /\ lost \subseteq lost'
      /\ wire'[c] = Tail(wire[c]) /\ \A d \in Conns \ {c} : wire'[d] = wire[d]
      /\ recvBuf' = <<>> \/ recvBuf' = Append(recvBuf, h)
  <2>1. wire[c] \in Seq(Half) /\ wire[c] # <<>> /\ Head(wire[c]) = wire[c][1]
    BY DEF DataHalf, TypeOK
  <2>2. 1 \in 1..Len(wire[c]) /\ h \in Half
    BY <2>1, EmptySeq, LenProperties
  <2>3. Paired(c, wire[c]) /\ h.from = c
    BY <2>2 DEF Provenance, WirePaired, Paired
  <2>4. QED
    BY <2>1, <2>2, <2>3 DEF DataHalf, pubVars, TypeOK
<1>2. /\ Paired(c, wire'[c]) /\ Carries(wire'[c]) /\ wire'[c] # <<>>
      /\ wire'[c][1] = [h EXCEPT !.part = 2]
      /\ \A v : Says(wire[c], v) => Says(wire'[c], v)
  BY <1>1, ReadKeeps
<1> HIDE DEF h
<1>3. LinkOwned' /\ WireOwned' /\ WirePaired' /\ LastSaid'
  BY <1>1, <1>2 DEF Provenance, LinkOwned, WireOwned, WirePaired, LastSaid
<1>4. HalfRead'
  <2>1. CASE recvBuf' = <<>>
    BY <2>1 DEF HalfRead
  <2>2. CASE recvBuf' = Append(recvBuf, h)
    <3>1. recvBuf \in Seq(Half) /\ Len(recvBuf) \in Nat /\ Len(recvBuf') = Len(recvBuf) + 1
          /\ recvBuf'[Len(recvBuf) + 1] = h /\ \A i \in 1..Len(recvBuf) : recvBuf'[i] = recvBuf[i]
      BY <1>1, <2>2, AppendProperties DEF TypeOK
    <3>2. ASSUME NEW i \in 1..Len(recvBuf)
          PROVE  /\ wire'[recvBuf[i].from] # <<>>
                 /\ wire'[recvBuf[i].from][1] = [recvBuf[i] EXCEPT !.part = 2]
      <4>1. recvBuf[i] \in Half /\ wire[recvBuf[i].from] # <<>>
            /\ wire[recvBuf[i].from][1] = [recvBuf[i] EXCEPT !.part = 2]
        BY <3>1 DEF Provenance, HalfRead
      <4>2. recvBuf[i].from \in Conns /\ [recvBuf[i] EXCEPT !.part = 2].part = 2
        BY <4>1 DEF Half
      <4>3. recvBuf[i].from # c
        <5> SUFFICES ASSUME recvBuf[i].from = c PROVE FALSE
          OBVIOUS
        <5>1. wire[c][1] = [recvBuf[i] EXCEPT !.part = 2]
          BY <4>1
        <5>2. wire[c][1].part = 2
          BY <4>2, <5>1
        <5>3. QED
          BY <1>1, <5>2 DEF h
      <4>4. QED
        BY <1>1, <4>1, <4>2, <4>3
    <3>3. \A i \in 1..(Len(recvBuf) + 1) : i \in 1..Len(recvBuf) \/ i = Len(recvBuf) + 1
      BY <3>1
    <3>4. QED
      <4> SUFFICES ASSUME NEW i \in 1..(Len(recvBuf) + 1)
                   PROVE  /\ wire'[recvBuf'[i].from] # <<>>
                          /\ wire'[recvBuf'[i].from][1] = [recvBuf'[i] EXCEPT !.part = 2]
        BY <3>1 DEF HalfRead
      <4>1. CASE i \in 1..Len(recvBuf)
        BY <3>1, <3>2, <4>1
      <4>2. CASE i = Len(recvBuf) + 1
        BY <1>1, <1>2, <3>1, <4>2
      <4>3. QED
        BY <3>3, <4>1, <4>2
  <2>3. QED
    BY <1>1, <2>1, <2>2
<1>5. Source'
  <2>1. \A d \in Conns : Carries(wire[d]) => Carries(wire'[d])
    BY <1>1, <1>2
  <2>2. QED
    BY <1>1, <2>1 DEF Provenance, Source
<1>6. QED
  BY <1>3, <1>4, <1>5 DEF Provenance

\* A frame read to its end is the view from now on, or is dropped.
LEMMA DataFrameKeeps ==
  ASSUME TypeOK, Streams, Provenance, NEW c \in Conns, DataFrame(c)
  PROVE  Provenance'
<1> DEFINE h == wire[c][1]
           buf == Append(recvBuf, h)
<1>1. /\ wire[c] \in Seq(Half) /\ wire[c] # <<>> /\ h \in Half /\ h.from = c
      /\ Paired(c, wire[c])
      /\ UNCHANGED <<link, last, owner, cli>> /\ lost \subseteq lost'
      /\ wire'[c] = Tail(wire[c]) /\ \A d \in Conns \ {c} : wire'[d] = wire[d]
      /\ recvBuf' = <<>>
      /\ \/ buf = Report(c, h.val) /\ view' = h.val
         \/ Reporters(buf) \subseteq lost' /\ view' = view
  <2>1. wire[c] \in Seq(Half) /\ wire[c] # <<>> /\ Head(wire[c]) = wire[c][1]
    BY DEF DataFrame, TypeOK
  <2>2. 1 \in 1..Len(wire[c]) /\ h \in Half
    BY <2>1, EmptySeq, LenProperties
  <2>3. Paired(c, wire[c]) /\ h.from = c
    BY <2>2 DEF Provenance, WirePaired, Paired
  <2>4. QED
    BY <2>1, <2>2, <2>3 DEF DataFrame, pubVars, TypeOK
<1>2. /\ Paired(c, wire'[c])
      /\ \A v : Says(wire[c], v) => Says(wire'[c], v)
      /\ Carries(wire[c]) => Carries(wire'[c]) \/ h.val # None
      /\ \A v : Says(wire[c], v) /\ h.val # None /\ h.val # v => Carries(wire'[c])
  <2>1. ASSUME NEW v
        PROVE  /\ Paired(c, wire'[c])
               /\ Says(wire[c], v) => Says(wire'[c], v)
               /\ Carries(wire[c]) => Carries(wire'[c]) \/ h.val # None
               /\ Says(wire[c], v) /\ h.val # None /\ h.val # v => Carries(wire'[c])
    <3>1. /\ Paired(c, wire[c]) => Paired(c, Tail(wire[c]))
          /\ Says(wire[c], v) => Says(Tail(wire[c]), v)
          /\ Carries(wire[c]) => Carries(Tail(wire[c])) \/ wire[c][1].val # None
          /\ Says(wire[c], v) /\ wire[c][1].val # None /\ wire[c][1].val # v
               => Carries(Tail(wire[c]))
      <4>1. wire[c] \in Seq(Half) /\ wire[c] # <<>>
        BY <1>1
      <4>2. QED
        BY <4>1, ReadKeeps, Zenon
    <3>2. QED
      BY <1>1, <3>1
  <2>2. QED
    BY <2>1
<1>3. LinkOwned' /\ WireOwned' /\ HalfRead' /\ WirePaired' /\ LastSaid'
  <2>1. WirePaired' /\ LastSaid'
    BY <1>1, <1>2 DEF Provenance, WirePaired, LastSaid
  <2>2. wire'[c] # <<>> => wire[c] # <<>>
    BY <1>1
  <2>3. LinkOwned' /\ WireOwned' /\ HalfRead'
    BY <1>1, <2>2 DEF Provenance, LinkOwned, WireOwned, HalfRead
  <2>4. QED
    BY <2>1, <2>3
<1>4. buf \in Seq(Half) /\ Len(buf) = Len(recvBuf) + 1 /\ Len(recvBuf) \in Nat
      /\ buf[Len(recvBuf) + 1] = h
  BY <1>1, AppendProperties DEF TypeOK
<1>5. buf = Report(c, h.val) => h.val # None
  <2> SUFFICES ASSUME buf = Report(c, h.val) PROVE h.val \in States
    BY EventsAssumption
  <2> DEFINE v == h.val
  <2>1. Len(Report(c, v)) = 2 /\ Report(c, v)[1] = [from |-> c, val |-> v, part |-> 1]
    BY DEF Report
  <2> HIDE DEF v, buf, h
  <2>2. buf[1] \in Half /\ buf[1] = [from |-> c, val |-> v, part |-> 1]
    BY <1>4, <2>1 DEF v
  <2>3. v \in States
    BY <2>2 DEF Half
  <2>4. QED
    BY <2>3 DEF v
<1> HIDE DEF h, buf
<1>6. CASE buf = Report(c, h.val) /\ view' = h.val
  <2>1. owner[c] \in Pubs /\ (owner[c] \in lost \/ Says(wire[c], last[owner[c]]))
    BY DEF TypeOK, Provenance, LastSaid
  <2>2. owner[c] \in lost' \/ last'[owner[c]] = view' \/ Carries(wire'[c])
    BY <1>1, <1>2, <1>5, <1>6, <2>1
  <2>3. Source'
    BY <1>1, <2>1, <2>2 DEF Source
  <2>4. QED
    BY <1>3, <2>3 DEF Provenance
<1>7. CASE Reporters(buf) \subseteq lost' /\ view' = view
  <2>1. h.val # None => owner[c] \in lost'
    BY <1>1, <1>4, <1>7 DEF Reporters
  <2>2. \A d \in Conns : Carries(wire[d]) => Carries(wire'[d]) \/ owner[d] \in lost'
    BY <1>1, <1>2, <2>1
  <2>3. Source'
    BY <1>1, <1>7, <2>2 DEF Provenance, Source
  <2>4. QED
    BY <1>3, <2>3 DEF Provenance
<1>8. QED
  BY <1>1, <1>6, <1>7

\* A close says nothing of what was reported.
LEMMA CloseKeeps ==
  ASSUME TypeOK, Provenance, NEW c \in Conns, Close(c)
  PROVE  Provenance'
<1>1. /\ UNCHANGED <<link, last, owner, wire, recvBuf, view, lost>>
      /\ \A d \in Conns : cli[d] \in {"open", "reset"} => cli'[d] = cli[d]
  BY DEF Close, TypeOK
<1>2. LinkOwned'
  <2> SUFFICES ASSUME NEW p \in Pubs, link[p] # NoConn
               PROVE  owner[link[p]] = p /\ cli'[link[p]] \in {"open", "reset"}
    BY <1>1 DEF LinkOwned
  <2>1. link[p] \in Conns /\ owner[link[p]] = p /\ cli[link[p]] \in {"open", "reset"}
    BY DEF Provenance, LinkOwned, TypeOK
  <2>2. QED
    BY <1>1, <2>1
<1>3. QED
  BY <1>1, <1>2 DEF Provenance, WireOwned, WirePaired, HalfRead, LastSaid, Source

\* The slot forgets; what it starts from is what those publishers believe who
\* have not lost a report with it.
LEMMA CrashKeeps ==
  ASSUME TypeOK, Provenance, Crash
  PROVE  Provenance'
<1>1. /\ UNCHANGED <<link, last, owner>> /\ view' = Out /\ recvBuf' = <<>>
      /\ \A d \in Conns : wire'[d] = <<>> /\ (cli[d] \in {"open", "reset"} => cli'[d] = cli[d])
      /\ \A q \in Pubs : last[q] \in {None, Out} \/ q \in lost'
  BY DEF Crash, TypeOK
<1>2. LinkOwned'
  <2> SUFFICES ASSUME NEW p \in Pubs, link[p] # NoConn
               PROVE  owner[link[p]] = p /\ cli'[link[p]] \in {"open", "reset"}
    BY <1>1 DEF LinkOwned
  <2>1. link[p] \in Conns /\ owner[link[p]] = p /\ cli[link[p]] \in {"open", "reset"}
    BY DEF Provenance, LinkOwned, TypeOK
  <2>2. QED
    BY <1>1, <2>1
<1>3. WireOwned' /\ WirePaired' /\ HalfRead' /\ LastSaid'
  BY <1>1, NothingSaid DEF WireOwned, WirePaired, HalfRead, LastSaid
<1>4. Source'
  BY <1>1 DEF Provenance, Source
<1>5. QED
  BY <1>2, <1>3, <1>4 DEF Provenance

\* No step leaves a view, a wire or a buffer without a publisher who said it.
LEMMA ProvenanceStep == TypeOK /\ Streams /\ Provenance /\ [Next]_vars => Provenance'
<1> SUFFICES ASSUME TypeOK, Streams, Provenance, [Next]_vars PROVE Provenance'
  OBVIOUS
<1>1. ASSUME UNCHANGED <<pubVars, wire, recvBuf, view, lost>> PROVE Provenance'
  BY <1>1 DEF pubVars, Provenance, LinkOwned, WireOwned, WirePaired, HalfRead, LastSaid, Source
<1>2. CASE Change \/ Start \/ UNCHANGED vars
  BY <1>1, <1>2 DEF Change, Start, vars
<1>3. ASSUME NEW p \in Pubs, Publish(p) \/ Tick(p) PROVE Provenance'
  BY <1>3, PublisherSteps, SendKeeps, MissKeeps
<1>4. ASSUME NEW p \in Pubs, Restart(p) PROVE Provenance'
  BY <1>4, RestartKeeps
<1>5. ASSUME NEW c \in Conns, Accept(c) PROVE Provenance'
  BY <1>5, AcceptKeeps
<1>6. ASSUME NEW c \in Conns, DataHalf(c) PROVE Provenance'
  BY <1>6, DataHalfKeeps
<1>7. ASSUME NEW c \in Conns, DataFrame(c) PROVE Provenance'
  BY <1>7, DataFrameKeeps
<1>8. ASSUME NEW c \in Conns, Close(c) PROVE Provenance'
  BY <1>8, CloseKeeps
<1>9. CASE Crash
  BY <1>9, CrashKeeps
<1>10. QED
  BY <1>2, <1>3, <1>4, <1>5, <1>6, <1>7, <1>8, <1>9 DEF Next

\* At first nothing was said and nothing is known.
LEMMA InitProvenance == Init => Provenance
<1> SUFFICES ASSUME Init PROVE Provenance
  OBVIOUS
<1>1. PICK p \in Pubs : owner = [c \in Conns |-> p]
  BY DEF Init
<1>2. last[p] \in {None, Out} /\ view = Out
  BY DEF Init, Fresh
<1>3. Source
  BY <1>2 DEF Source
<1>4. LinkOwned /\ HalfRead
  BY DEF Init, LinkOwned, HalfRead
<1>5. \A c \in Conns : wire[c] = <<>>
  BY DEF Init
<1>6. WireOwned /\ WirePaired /\ LastSaid
  BY <1>5, NothingSaid DEF WireOwned, WirePaired, LastSaid
<1>7. QED
  BY <1>3, <1>4, <1>6 DEF Provenance

\* With all said and nothing lost, the slot knows what the terminal says: the
\* comment in app.ts, "multiple publishers, fine", holds as far as reports that
\* overtake each other are concerned, for any number of publishers that die and
\* start anew.
THEOREM SlotIsInformed == Spec => []Informed
<1>1. ASSUME TypeOK, Provenance PROVE Informed
  <2> SUFFICES ASSUME lost = {}, \A c \in Conns : Reporters(wire[c]) = {},
                      \A p \in Pubs : last[p] = cur
               PROVE  view = cur
    BY DEF Informed
  <2>1. PICK q \in Pubs : \/ last[q] = view \/ last[q] = None
                          \/ \E c \in Conns : owner[c] = q /\ Carries(wire[c])
    BY <1>1 DEF Provenance, Source
  <2>2. last[q] # None
    BY <1>1, EventsAssumption DEF TypeOK
  <2>3. \A c \in Conns : ~Carries(wire[c])
    BY <1>1, DroppedIsLost DEF Provenance, WirePaired
  <2>4. QED
    BY <2>1, <2>2, <2>3
<1>2. Init => CurrentIsOpen /\ Streams
  BY DEF Init, CurrentIsOpen, Streams, Open, Framed
<1>3. QED
  BY <1>1, <1>2, InitProvenance, ProvenanceStep, CurrentStep, StreamsStep, TypeCorrect, PTL
  DEF Spec
=============================================================================
