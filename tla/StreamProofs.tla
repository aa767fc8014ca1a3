---------------------------- MODULE StreamProofs ----------------------------
(***************************************************************************)
(* Proofs about Stream, for every set of clients and accounts and any      *)
(* number of events: streams are complete and in order, none waits with    *)
(* something to yield, and none outlives its socket.                       *)
(***************************************************************************)
EXTENDS Stream, SequenceTheorems, TLAPS

\* How the phase of a generator, its listener, its timer, its socket and what
\* it holds go together.
Phases ==
  \A s \in Clients :
    /\ s \in listeners <=> phase[s] \in {"awaiting", "running"}
    /\ s \in pinging => phase[s] # "none"
    /\ ws[s] = "closed" => phase[s] \in {"none", "ended"}
    /\ phase[s] # "running" => held[s] = <<>>
    /\ phase[s] = "awaiting" => queue[s] = <<>>

StreamInv == TypeOK /\ Phases /\ InOrder

-----------------------------------------------------------------------------
(***************************************************************************)
(* Sequences                                                               *)
(***************************************************************************)

\* ConcatAssociative for sequences of events.
LEMMA EventsAssociate ==
  ASSUME NEW x \in Seq(Nat), NEW y \in Seq(Nat), NEW z \in Seq(Nat)
  PROVE  (x \o y) \o z = x \o (y \o z)
<1>1. \A S : \A s, t, u \in Seq(S) : (s \o t) \o u = s \o (t \o u)
  BY ConcatAssociative, Zenon
<1>2. QED
  BY <1>1, SMTT(20)

\* An event given to a generator that waits extends what it has sent.
LEMMA HandOver ==
  ASSUME NEW x \in Seq(Nat), NEW n \in Nat
  PROVE  Append(x \o <<>> \o <<>>, n) = x \o <<n>> \o <<>>
<1>1. x \o <<>> = x
  BY ConcatEmptySeq
<1>2. <<n>> \in Seq(Nat) /\ x \o <<n>> \in Seq(Nat)
  BY ConcatProperties
<1>3. x \o <<n>> \o <<>> = x \o <<n>>
  BY <1>2, ConcatEmptySeq
<1>4. QED
  BY <1>1, <1>3, AppendIsConcat

\* An event that is queued extends what will be sent.
LEMMA Enqueue ==
  ASSUME NEW x \in Seq(Nat), NEW h \in Seq(Nat), NEW q \in Seq(Nat), NEW n \in Nat
  PROVE  Append(x \o h \o q, n) = x \o h \o Append(q, n)
<1>1. x \o h \in Seq(Nat)
  BY ConcatProperties
<1>2. x \o h \o q \in Seq(Nat) /\ <<n>> \in Seq(Nat)
  BY <1>1, ConcatProperties
<1>3. Append(x \o h \o q, n) = (x \o h \o q) \o <<n>>
  BY <1>2, AppendIsConcat
<1>4. (x \o h \o q) \o <<n>> = (x \o h) \o (q \o <<n>>)
  BY <1>1, <1>2, EventsAssociate, Zenon
<1>5. q \o <<n>> = Append(q, n)
  BY AppendIsConcat
<1>6. QED
  BY <1>3, <1>4, <1>5

\* Taking the head of the queue in hand changes nothing of the whole.
LEMMA TakeHead ==
  ASSUME NEW y \in Seq(Nat), NEW q \in Seq(Nat), q # <<>>
  PROVE  /\ Head(q) \in Nat /\ Tail(q) \in Seq(Nat)
         /\ y \o q = y \o <<Head(q)>> \o Tail(q)
<1>1. Head(q) \in Nat /\ Tail(q) \in Seq(Nat)
  OBVIOUS
<1>2. <<Head(q)>> \in Seq(Nat)
  BY <1>1
<1>3. <<Head(q)>> \o Tail(q) = q
  <2>1. Len(q) > 0 /\ Len(Tail(q)) = Len(q) - 1
    OBVIOUS
  <2>2. DOMAIN (<<Head(q)>> \o Tail(q)) = DOMAIN q
    BY <2>1
  <2>3. \A i \in 1..Len(q) : (<<Head(q)>> \o Tail(q))[i] = q[i]
    BY <2>1
  <2>4. <<Head(q)>> \o Tail(q) \in Seq(Nat) /\ Len(<<Head(q)>> \o Tail(q)) = Len(q)
    BY <1>1, <1>2, <2>1, ConcatProperties
  <2>5. QED
    BY <2>3, <2>4, SeqEqual
<1>4. y \o (<<Head(q)>> \o Tail(q)) = (y \o <<Head(q)>>) \o Tail(q)
  BY <1>1, <1>2, EventsAssociate, Zenon
<1>5. QED
  BY <1>1, <1>3, <1>4

-----------------------------------------------------------------------------
(***************************************************************************)
(* Every action keeps the invariant                                        *)
(***************************************************************************)

\* Nothing streams at first.
LEMMA InitInv == Init => StreamInv
<1> SUFFICES ASSUME Init PROVE StreamInv
  OBVIOUS
<1>1. <<>> \in Seq(Nat)
  OBVIOUS
<1>2. TypeOK
  <2>1. /\ held \in [Clients -> Seq(Nat)] /\ queue \in [Clients -> Seq(Nat)]
        /\ heard \in [Clients -> Seq(Nat)] /\ sent \in [Clients -> Seq(Nat)]
    BY <1>1 DEF Init
  <2>2. /\ ws \in [Clients -> {"open", "closing", "closed"}]
        /\ phase \in [Clients -> {"none", "awaiting", "running", "ended"}]
        /\ ref \in [Clients -> Refs \cup {NoRef}]
    BY DEF Init
  <2>3. count \in 0..MaxEvents /\ listeners = {} /\ pinging = {}
    BY StreamAssumption DEF Init
  <2>4. QED
    BY <2>1, <2>2, <2>3 DEF TypeOK
<1>3. Phases /\ InOrder
  BY DEF Init, Phases, InOrder
<1>4. QED
  BY <1>2, <1>3 DEF StreamInv

\* A new stream starts from nothing.
LEMMA OpenInv ==
  ASSUME StreamInv, NEW s \in Clients, Open(s)
  PROVE  StreamInv'
<1> USE DEF StreamInv
<1>1. TypeOK'
  BY DEF Open, TypeOK
<1>2. Phases'
  BY DEF Open, TypeOK, Phases
<1>3. InOrder'
  <2>1. ASSUME NEW r \in listeners', r # s PROVE (heard[r] = sent[r] \o held[r] \o queue[r])'
    BY <2>1 DEF Open, InOrder, TypeOK
  <2>2. (heard[s] = sent[s] \o held[s] \o queue[s])'
    <3>1. heard'[s] = <<>> /\ sent'[s] = <<>> /\ held'[s] = <<>> /\ queue'[s] = <<>>
      BY DEF Open, TypeOK, Phases
    <3>2. <<>> \o <<>> \o <<>> = <<>>
      OBVIOUS
    <3>3. QED
      BY <3>1, <3>2
  <2>3. QED
    BY <2>1, <2>2 DEF InOrder
<1>4. QED
  BY <1>1, <1>2, <1>3

\* What the socket does touches neither the queue nor what was sent.
LEMMA SocketInv ==
  ASSUME StreamInv, NEW s \in Clients, Closing(s) \/ Close(s)
  PROVE  StreamInv'
<1>1. CASE Closing(s)
  BY <1>1 DEF StreamInv, Closing, TypeOK, Phases, InOrder
<1>2. CASE Close(s)
  <2>1. TypeOK'
    BY <1>2 DEF StreamInv, Close, TypeOK
  <2>2. Phases'
    BY <1>2 DEF StreamInv, Close, Quiet, TypeOK, Phases
  <2>3. InOrder'
    BY <1>2 DEF StreamInv, Close, InOrder
  <2>4. QED
    BY <2>1, <2>2, <2>3 DEF StreamInv
<1>3. QED
  BY <1>1, <1>2

\* An event is handed over or queued, and goes to the streams of its account.
LEMMA EmitInv ==
  ASSUME StreamInv, NEW r \in Refs, Emit(r)
  PROVE  StreamInv'
<1> DEFINE n == count + 1
           To == {s \in listeners : ref[s] = r}
<1>1. n \in Nat /\ n \in 0..MaxEvents
  BY StreamAssumption DEF StreamInv, Emit, TypeOK
<1>2. /\ UNCHANGED <<ws, ref, listeners, pinging, sent>>
      /\ count' = n
      /\ held' = [s \in Clients |->
                    IF s \in To /\ phase[s] = "awaiting" THEN <<n>> ELSE held[s]]
      /\ phase' = [s \in Clients |-> IF s \in To THEN "running" ELSE phase[s]]
      /\ queue' = [s \in Clients |->
                     IF s \in To /\ phase[s] # "awaiting" THEN Append(queue[s], n) ELSE queue[s]]
      /\ heard' = [s \in Clients |-> IF s \in To THEN Append(heard[s], n) ELSE heard[s]]
  BY DEF Emit
<1> HIDE DEF n
<1>3. TypeOK'
  <2>1. <<n>> \in Seq(Nat)
    BY <1>1
  <2>2. held' \in [Clients -> Seq(Nat)]
    BY <1>2, <2>1 DEF StreamInv, TypeOK
  <2>3. \A s \in Clients : Append(queue[s], n) \in Seq(Nat) /\ Append(heard[s], n) \in Seq(Nat)
    BY <1>1 DEF StreamInv, TypeOK
  <2>4. queue' \in [Clients -> Seq(Nat)] /\ heard' \in [Clients -> Seq(Nat)]
    BY <1>2, <2>3 DEF StreamInv, TypeOK
  <2>5. QED
    BY <1>1, <1>2, <2>2, <2>4 DEF StreamInv, TypeOK
<1>4. Phases'
  BY <1>2 DEF StreamInv, TypeOK, Phases
<1>5. InOrder'
  <2> SUFFICES ASSUME NEW s \in listeners
               PROVE  heard'[s] = sent[s] \o held'[s] \o queue'[s]
    BY <1>2 DEF InOrder
  <2>1. /\ s \in Clients
        /\ sent[s] \in Seq(Nat) /\ held[s] \in Seq(Nat) /\ queue[s] \in Seq(Nat)
        /\ heard[s] = sent[s] \o held[s] \o queue[s]
    BY DEF StreamInv, TypeOK, InOrder
  <2>2. CASE s \in To /\ phase[s] = "awaiting"
    <3>1. held[s] = <<>> /\ queue[s] = <<>>
      BY <2>1, <2>2 DEF StreamInv, Phases
    <3>2. heard'[s] = Append(heard[s], n) /\ held'[s] = <<n>> /\ queue'[s] = <<>>
      BY <1>2, <2>1, <2>2, <3>1
    <3>3. Append(sent[s] \o <<>> \o <<>>, n) = sent[s] \o <<n>> \o <<>>
      BY <1>1, <2>1, HandOver
    <3>4. QED
      BY <2>1, <3>1, <3>2, <3>3
  <2>3. CASE s \in To /\ phase[s] # "awaiting"
    <3>1. /\ heard'[s] = Append(heard[s], n) /\ held'[s] = held[s]
          /\ queue'[s] = Append(queue[s], n)
      BY <1>2, <2>1, <2>3
    <3>2. Append(sent[s] \o held[s] \o queue[s], n) = sent[s] \o held[s] \o Append(queue[s], n)
      BY <1>1, <2>1, Enqueue
    <3>3. QED
      BY <2>1, <3>1, <3>2
  <2>4. CASE s \notin To
    BY <1>2, <2>1, <2>4
  <2>5. QED
    BY <2>2, <2>3, <2>4
<1>6. QED
  BY <1>3, <1>4, <1>5 DEF StreamInv

\* What is in hand is sent, and the head of the queue taken in hand.
LEMMA ResumeInv ==
  ASSUME StreamInv, NEW s \in Clients, Resume(s)
  PROVE  StreamInv'
<1>1. /\ UNCHANGED <<ws, ref, listeners, pinging, count, heard>>
      /\ phase[s] = "running" /\ ws[s] = "open"
      /\ sent' = [sent EXCEPT ![s] = @ \o held[s]]
  BY DEF Resume
<1>2. /\ sent[s] \in Seq(Nat) /\ held[s] \in Seq(Nat) /\ queue[s] \in Seq(Nat)
      /\ sent[s] \o held[s] \in Seq(Nat)
      /\ s \in listeners
      /\ heard[s] = sent[s] \o held[s] \o queue[s]
  <2>1. sent[s] \in Seq(Nat) /\ held[s] \in Seq(Nat) /\ queue[s] \in Seq(Nat)
    BY DEF StreamInv, TypeOK
  <2>2. s \in listeners /\ heard[s] = sent[s] \o held[s] \o queue[s]
    BY <1>1 DEF StreamInv, Phases, InOrder
  <2>3. QED
    BY <2>1, <2>2, ConcatProperties
<1>3. sent' \in [Clients -> Seq(Nat)] /\ sent'[s] = sent[s] \o held[s]
  BY <1>1, <1>2 DEF StreamInv, TypeOK
<1>4. CASE queue[s] = <<>>
  <2>1. /\ phase' = [phase EXCEPT ![s] = "awaiting"]
        /\ held' = [held EXCEPT ![s] = <<>>]
        /\ queue' = queue
    BY <1>4 DEF Resume
  <2>2. TypeOK'
    BY <1>1, <1>3, <2>1 DEF StreamInv, TypeOK
  <2>3. Phases'
    BY <1>1, <1>4, <2>1 DEF StreamInv, TypeOK, Phases
  <2>4. heard[s] = sent'[s] \o <<>> \o queue[s]
    BY <1>2, <1>3, ConcatEmptySeq
  <2>5. InOrder'
    BY <1>1, <2>1, <2>4 DEF StreamInv, TypeOK, InOrder
  <2>6. QED
    BY <2>2, <2>3, <2>5 DEF StreamInv
<1>5. CASE queue[s] # <<>>
  <2>1. /\ held' = [held EXCEPT ![s] = <<Head(queue[s])>>]
        /\ queue' = [queue EXCEPT ![s] = Tail(@)]
        /\ phase' = phase
    BY <1>5 DEF Resume
  <2>2. /\ Head(queue[s]) \in Nat /\ Tail(queue[s]) \in Seq(Nat)
        /\ sent[s] \o held[s] \o queue[s]
             = sent[s] \o held[s] \o <<Head(queue[s])>> \o Tail(queue[s])
    BY <1>2, <1>5, TakeHead
  <2>3. TypeOK'
    BY <1>1, <1>3, <2>1, <2>2 DEF StreamInv, TypeOK
  <2>4. Phases'
    BY <1>1, <2>1 DEF StreamInv, TypeOK, Phases
  <2>5. held'[s] = <<Head(queue[s])>> /\ queue'[s] = Tail(queue[s])
    BY <2>1 DEF StreamInv, TypeOK
  <2>6. heard[s] = sent'[s] \o held'[s] \o queue'[s]
    BY <1>2, <1>3, <2>2, <2>5
  <2>7. InOrder'
    BY <1>1, <2>1, <2>6 DEF StreamInv, TypeOK, InOrder
  <2>8. QED
    BY <2>3, <2>4, <2>7 DEF StreamInv
<1>6. QED
  BY <1>4, <1>5

\* A stream that is over leaves nothing behind.
LEMMA FinishInv ==
  ASSUME StreamInv, NEW s \in Clients, Finish(s)
  PROVE  StreamInv'
<1>1. TypeOK'
  BY DEF StreamInv, Finish, TypeOK
<1>2. Phases'
  BY DEF StreamInv, Finish, TypeOK, Phases
<1>3. InOrder'
  BY DEF StreamInv, Finish, TypeOK, InOrder
<1>4. QED
  BY <1>1, <1>2, <1>3 DEF StreamInv

-----------------------------------------------------------------------------

\* The invariant holds whatever clients and broker do.
LEMMA Invariant == Spec => []StreamInv
<1>1. StreamInv /\ UNCHANGED vars => StreamInv'
  BY DEF StreamInv, TypeOK, Phases, InOrder, vars, streamVars
<1>2. StreamInv /\ Next => StreamInv'
  BY OpenInv, SocketInv, EmitInv, ResumeInv, FinishInv DEF Next
<1>3. QED
  BY InitInv, <1>1, <1>2, PTL DEF Spec

\* Every variable keeps its type; no stream is without an account.
THEOREM TypeCorrect == Spec => []TypeOK
<1>1. StreamInv => TypeOK
  BY DEF StreamInv
<1>2. QED
  BY Invariant, <1>1, PTL

\* What a stream was sent, holds and has queued is all its account's events
\* since it opened, once each and in order.
THEOREM CompleteAndInOrder == Spec => []InOrder
<1>1. StreamInv => InOrder
  BY DEF StreamInv
<1>2. QED
  BY Invariant, <1>1, PTL

\* No generator waits while it has an event to yield.
THEOREM NoEventStranded == Spec => []NoLostWakeup
<1>1. StreamInv => NoLostWakeup
  <2> SUFFICES ASSUME StreamInv, NEW s \in Clients, phase[s] = "awaiting"
               PROVE  held[s] \o queue[s] = <<>>
    BY DEF NoLostWakeup
  <2>1. held[s] = <<>> /\ queue[s] = <<>>
    BY DEF StreamInv, Phases
  <2>2. <<>> \o <<>> = <<>>
    OBVIOUS
  <2>3. QED
    BY <2>1, <2>2
<1>2. QED
  BY Invariant, <1>1, PTL

\* A closed connection leaves neither a listener nor a timer.
THEOREM NothingLeaks == Spec => []NoLeak
<1>1. StreamInv => NoLeak
  BY DEF StreamInv, Phases, NoLeak, Quiet
<1>2. QED
  BY Invariant, <1>1, PTL

-----------------------------------------------------------------------------
(***************************************************************************)
(* What a client was sent, also when its stream is over                    *)
(***************************************************************************)

\* Later events have larger numbers: none comes twice, none out of order.
Ascending(q) == \A i, j \in 1..Len(q) : i < j => q[i] < q[j]

\* A client is sent no event twice, nor an event after a later one.
SentOnce == \A s \in Clients : Ascending(sent[s])

\* q begins with p.
Begins(p, q) == Len(p) <= Len(q) /\ \A i \in 1..Len(p) : p[i] = q[i]

\* What a stream heard was emitted in this order, and what the client was
\* sent is the beginning of it.
History ==
  \A s \in Clients :
    /\ Ascending(heard[s])
    /\ \A i \in 1..Len(heard[s]) : heard[s][i] <= count
    /\ Begins(sent[s], heard[s])

\* Appending a number above all others keeps a sequence ascending.
LEMMA AppendAscends ==
  ASSUME NEW q \in Seq(Nat), NEW c \in Nat,
         Ascending(q), \A i \in 1..Len(q) : q[i] <= c
  PROVE  /\ Ascending(Append(q, c + 1))
         /\ \A i \in 1..Len(Append(q, c + 1)) : Append(q, c + 1)[i] <= c + 1
         /\ Begins(q, Append(q, c + 1))
<1> DEFINE r == Append(q, c + 1)
<1>1. /\ Len(r) = Len(q) + 1 /\ Len(q) \in Nat
      /\ r[Len(q) + 1] = c + 1
      /\ \A i \in 1..Len(q) : r[i] = q[i] /\ q[i] \in Nat
  OBVIOUS
<1> HIDE DEF r
<1>2. \A i \in 1..Len(r) : r[i] <= c + 1
  BY <1>1
<1>3. ASSUME NEW i \in 1..Len(r), NEW j \in 1..Len(r), i < j PROVE r[i] < r[j]
  BY <1>1, <1>3 DEF Ascending
<1>4. Begins(q, r)
  BY <1>1 DEF Begins
<1>5. QED
  BY <1>2, <1>3, <1>4 DEF r, Ascending

\* What comes first in a concatenation is its beginning.
LEMMA ConcatBegins ==
  ASSUME NEW p \in Seq(Nat), NEW q \in Seq(Nat)
  PROVE  Begins(p, p \o q)
  BY DEF Begins

\* Beginnings of beginnings are beginnings.
LEMMA BeginsTransitive ==
  ASSUME NEW p \in Seq(Nat), NEW q \in Seq(Nat), NEW r \in Seq(Nat),
         Begins(p, q), Begins(q, r)
  PROVE  Begins(p, r)
  BY DEF Begins

\* The beginning of an ascending sequence ascends.
LEMMA BeginningAscends ==
  ASSUME NEW p \in Seq(Nat), NEW q \in Seq(Nat), Begins(p, q), Ascending(q)
  PROVE  Ascending(p)
  BY DEF Begins, Ascending

\* No action changes what was sent but by going on with what was heard.
LEMMA HistoryStep ==
  ASSUME StreamInv, History, [Next]_vars
  PROVE  History'
<1>1. /\ count \in Nat
      /\ \A s \in Clients : sent[s] \in Seq(Nat) /\ heard[s] \in Seq(Nat)
  BY StreamAssumption DEF StreamInv, TypeOK
<1>2. ASSUME NEW s \in Clients, Open(s) PROVE History'
  <2>1. /\ count' = count
        /\ heard' = [heard EXCEPT ![s] = <<>>] /\ sent' = [sent EXCEPT ![s] = <<>>]
    BY <1>2 DEF Open
  <2>2. heard'[s] = <<>> /\ sent'[s] = <<>>
    BY <2>1 DEF StreamInv, TypeOK
  <2>3. \A r \in Clients : r # s => heard'[r] = heard[r] /\ sent'[r] = sent[r]
    BY <2>1 DEF StreamInv, TypeOK
  <2>4. QED
    BY <2>1, <2>2, <2>3 DEF History, Ascending, Begins
<1>3. ASSUME NEW r \in Refs, Emit(r) PROVE History'
  <2> SUFFICES ASSUME NEW s \in Clients
               PROVE  /\ Ascending(heard'[s])
                      /\ \A i \in 1..Len(heard'[s]) : heard'[s][i] <= count'
                      /\ Begins(sent'[s], heard'[s])
    BY DEF History, Ascending, Begins
  <2>1. /\ count' = count + 1 /\ sent'[s] = sent[s]
        /\ heard'[s] = heard[s] \/ heard'[s] = Append(heard[s], count + 1)
    BY <1>3 DEF Emit
  <2>2. /\ Ascending(heard[s]) /\ \A i \in 1..Len(heard[s]) : heard[s][i] <= count
        /\ Begins(sent[s], heard[s])
    BY DEF History
  <2>3. CASE heard'[s] = heard[s]
    <3>1. \A i \in 1..Len(heard[s]) : heard[s][i] \in Nat
      BY <1>1
    <3>2. \A i \in 1..Len(heard[s]) : heard[s][i] <= count + 1
      BY <1>1, <2>2, <3>1
    <3>3. QED
      BY <2>1, <2>2, <2>3, <3>2
  <2>4. CASE heard'[s] = Append(heard[s], count + 1)
    <3>1. /\ Ascending(heard'[s]) /\ \A i \in 1..Len(heard'[s]) : heard'[s][i] <= count + 1
          /\ Begins(heard[s], heard'[s])
      BY <1>1, <2>2, <2>4, AppendAscends
    <3>2. heard'[s] \in Seq(Nat)
      BY <1>1, <2>4
    <3>3. Begins(sent[s], heard'[s])
      BY <1>1, <2>2, <3>1, <3>2, BeginsTransitive
    <3>4. QED
      BY <2>1, <3>1, <3>3
  <2>5. QED
    BY <2>1, <2>3, <2>4
<1>4. ASSUME NEW s \in Clients, Resume(s) PROVE History'
  <2>1. UNCHANGED <<count, heard>> /\ sent' = [sent EXCEPT ![s] = @ \o held[s]]
    BY <1>4 DEF Resume
  <2>2. /\ held[s] \in Seq(Nat) /\ queue[s] \in Seq(Nat) /\ sent[s] \o held[s] \in Seq(Nat)
        /\ heard[s] = sent[s] \o held[s] \o queue[s]
    <3>1. held[s] \in Seq(Nat) /\ queue[s] \in Seq(Nat) /\ sent[s] \in Seq(Nat)
      BY DEF StreamInv, TypeOK
    <3>2. s \in listeners
      BY <1>4 DEF StreamInv, Phases, Resume
    <3>3. QED
      BY <3>1, <3>2, ConcatProperties DEF StreamInv, InOrder
  <2>3. Begins(sent[s] \o held[s], heard[s])
    BY <2>2, ConcatBegins
  <2>4. /\ sent'[s] = sent[s] \o held[s]
        /\ \A r \in Clients : r # s => sent'[r] = sent[r]
    BY <2>1 DEF StreamInv, TypeOK
  <2>5. Begins(sent'[s], heard[s])
    BY <2>3, <2>4
  <2>6. \A r \in Clients : Begins(sent'[r], heard[r])
    BY <2>4, <2>5 DEF History
  <2>7. \A r \in Clients : Begins(sent[r], heard[r])'
    BY <2>1, <2>6 DEF Begins
  <2>8. \A r \in Clients : Ascending(heard[r])' /\ (\A i \in 1..Len(heard[r]) : heard[r][i] <= count)'
    BY <2>1 DEF History, Ascending
  <2>9. QED
    BY <2>7, <2>8 DEF History
<1>5. ASSUME NEW s \in Clients, Closing(s) \/ Close(s) \/ Finish(s) PROVE History'
  BY <1>5 DEF Closing, Close, Finish, History, Begins, Ascending
<1>6. CASE UNCHANGED vars
  BY <1>6 DEF vars, History, Begins, Ascending
<1>7. QED
  BY <1>2, <1>3, <1>4, <1>5, <1>6 DEF Next

\* Whether a stream goes on, has broken off or is over: its client was sent
\* events in the order of the broker and none of them twice.
THEOREM NoEventTwice == Spec => []SentOnce
<1>1. Init => History
  <2> SUFFICES ASSUME Init, NEW s \in Clients
               PROVE  /\ Ascending(heard[s])
                      /\ \A i \in 1..Len(heard[s]) : heard[s][i] <= count
                      /\ Begins(sent[s], heard[s])
    BY DEF History
  <2>1. heard[s] = <<>> /\ sent[s] = <<>>
    BY DEF Init
  <2>2. QED
    BY <2>1 DEF Ascending, Begins
<1>2. History /\ StreamInv => SentOnce
  <2> SUFFICES ASSUME History, StreamInv, NEW s \in Clients PROVE Ascending(sent[s])
    BY DEF SentOnce
  <2>1. sent[s] \in Seq(Nat) /\ heard[s] \in Seq(Nat)
    BY DEF StreamInv, TypeOK
  <2>2. QED
    BY <2>1, BeginningAscends DEF History
<1>3. StreamInv /\ History /\ [Next]_vars => History'
  BY HistoryStep
<1>4. QED
  BY Invariant, <1>1, <1>2, <1>3, PTL DEF Spec
=============================================================================
