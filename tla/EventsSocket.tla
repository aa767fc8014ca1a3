---------------------------- MODULE EventsSocket ----------------------------
(***************************************************************************)
(* The events socket of a slot: Mt5TcpServer, which listens on 7778, and   *)
(* the processes that report the account to it.  Every publisher is a      *)
(* process of its own with one outbound connection.  The Python publishers *)
(* report when the account differs from what they last sent; SlotService   *)
(* reports when the terminal connects or disconnects, and pushes a state   *)
(* snapshot, which the slot does not understand, at every tick.            *)
(*                                                                         *)
(* A report is read in two halves, the second of which ends in the newline. *)
(* Of the account only what view holds matters here: logged in or out.     *)
(***************************************************************************)
EXTENDS Integers, Sequences, FiniteSets

CONSTANTS
  Python,      \* the publishers that compare with what they last sent
  Mql,         \* those that tick like SlotService
  Conns,       \* identifiers of TCP connections
  NoConn,      \* no socket
  States,      \* what there is to report
  Out,         \* the state a connector starts from
  None,        \* nothing reported yet
  MayDie,      \* whether processes die and are started again
  BufMax,      \* RECV_BUF_MAX, in halves
  WireMax      \* bound: what a socket takes before its publisher's next turn

Pubs == Python \cup Mql

ASSUME EventsAssumption ==
  /\ Python \cap Mql = {}
  /\ NoConn \notin Conns
  /\ Out \in States
  /\ None \notin States
  /\ MayDie \in BOOLEAN
  /\ BufMax \in Nat \ {0}
  /\ WireMax \in Nat

VARIABLES
  cur,         \* what the terminal would answer now
  up,          \* the slot process is listening
  link,        \* link[p]: the socket of publisher p
  last,        \* last[p]: what p believes the slot knows
  owner,       \* owner[c]: the publisher that opened c
  cli,         \* cli[c]: the publisher's end of c
  srv,         \* srv[c]: the slot's end of c
  wire,        \* wire[c]: halves sent on c and not yet read
  sock,        \* this.sock
  recvBuf,     \* this.recvBuf
  view,        \* what the connector was last told
  overlap,     \* history: the newest connection was not alone when accepted
  lost         \* history: publishers whose last report was dropped or forgotten

pubVars == <<link, last, owner, cli>>
vars == <<cur, up, pubVars, srv, wire, sock, recvBuf, view, overlap, lost>>

Half == [from : Conns, val : States, part : {1, 2}] \cup [from : Conns, val : {None}, part : {2}]

\* A report, and a frame the slot drops: SlotService's "state" snapshot.
Report(c, v) == <<[from |-> c, val |-> v, part |-> 1], [from |-> c, val |-> v, part |-> 2]>>
Snapshot(c) == <<[from |-> c, val |-> None, part |-> 2]>>

Alive(c) == srv[c] \in {"queued", "open"}
Free(c) == srv[c] = "none" /\ cli[c] = "none"

\* The publishers whose report is among the halves of s.
Reporters(s) == {owner[s[i].from] : i \in {j \in 1..Len(s) : s[j].val # None}}

TypeOK ==
  /\ cur \in States
  /\ up \in BOOLEAN
  /\ link \in [Pubs -> Conns \cup {NoConn}]
  /\ last \in [Pubs -> States \cup {None}]
  /\ owner \in [Conns -> Pubs]
  /\ cli \in [Conns -> {"none", "open", "reset", "closed"}]
  /\ srv \in [Conns -> {"none", "queued", "open", "destroyed"}]
  /\ wire \in [Conns -> Seq(Half)]
  /\ sock \in Conns \cup {NoConn}
  /\ recvBuf \in Seq(Half)
  /\ view \in States
  /\ overlap \in BOOLEAN
  /\ lost \in SUBSET Pubs

\* The account publisher starts knowing nothing, SlotService with
\* g_lastConnected = false.
Fresh(p) == IF p \in Python THEN None ELSE Out

Init ==
  /\ cur \in States
  /\ up \in BOOLEAN
  /\ link = [p \in Pubs |-> NoConn]
  /\ last = [p \in Pubs |-> Fresh(p)]
  /\ owner \in {[c \in Conns |-> p] : p \in Pubs}
  /\ cli = [c \in Conns |-> "none"]
  /\ srv = [c \in Conns |-> "none"]
  /\ wire = [c \in Conns |-> <<>>]
  /\ sock = NoConn
  /\ recvBuf = <<>>
  /\ view = Out
  /\ overlap = FALSE
  /\ lost = {}

-----------------------------------------------------------------------------
(***************************************************************************)
(* The publishers                                                          *)
(***************************************************************************)

\* The account changes in the terminal.
Change ==
  /\ cur' \in States \ {cur}
  /\ UNCHANGED <<up, pubVars, srv, wire, sock, recvBuf, view, overlap, lost>>

\* The publisher closes its socket, or is gone and the system closes it.
Abandon(p) ==
  /\ link' = [link EXCEPT ![p] = NoConn]
  /\ cli' = [c \in Conns |->
               IF c = link[p] THEN (IF srv[c] = "none" THEN "none" ELSE "closed") ELSE cli[c]]

\* send() on a new connection or on one the slot still has.  A new one is made
\* a poll after the old one failed: its 'close' has been emitted by then.
Deliver(p, frames) ==
  \E c \in Conns :
    /\ \/ /\ link[p] = NoConn /\ up /\ Free(c)
          /\ \A e \in Conns : owner[e] = p => srv[e] # "destroyed"
          /\ srv' = [srv EXCEPT ![c] = "queued"]
          /\ cli' = [cli EXCEPT ![c] = "open"]
          /\ owner' = [owner EXCEPT ![c] = p]
       \/ /\ link[p] = c /\ Alive(c)
          /\ Len(wire[c]) < WireMax
          /\ UNCHANGED <<srv, cli, owner>>
    /\ link' = [link EXCEPT ![p] = c]
    /\ wire' = [wire EXCEPT ![c] = @ \o frames[c]]

\* send() on a connection the slot has closed: the first one is accepted by
\* the system and answered with a reset.
Vanish(p) ==
  /\ link[p] # NoConn /\ ~Alive(link[p]) /\ cli[link[p]] = "open"
  /\ cli' = [cli EXCEPT ![link[p]] = "reset"]
  /\ UNCHANGED <<link, owner, srv, wire>>

\* send() fails and the publisher drops its socket.
Fail(p) ==
  /\ link[p] # NoConn /\ ~Alive(link[p])
  /\ Abandon(p)
  /\ UNCHANGED <<owner, srv, wire>>

\* Deviation: what could not be sent is remembered as sent.
PublishForgets(p) ==
  LET frames == [c \in Conns |-> Report(c, cur)] IN
  /\ p \in Python /\ last[p] # cur
  /\ \/ Deliver(p, frames) /\ lost' = lost \ {p}
     \/ Vanish(p) /\ lost' = lost \cup {p}
     \/ Fail(p) /\ UNCHANGED lost
  /\ last' = [last EXCEPT ![p] = cur]
  /\ UNCHANGED <<cur, up, sock, recvBuf, view, overlap>>

\* loop() of the Python publishers: one poll that has something to report.
Publish(p) ==
  LET frames == [c \in Conns |-> Report(c, cur)] IN
  /\ p \in Python /\ last[p] # cur
  /\ \/ /\ Deliver(p, frames) /\ lost' = lost \ {p}
        /\ last' = [last EXCEPT ![p] = cur]
     \/ /\ Vanish(p) /\ lost' = lost \cup {p}
        /\ last' = [last EXCEPT ![p] = cur]
     \/ Fail(p) /\ UNCHANGED <<last, lost>>
  /\ UNCHANGED <<cur, up, sock, recvBuf, view, overlap>>

\* OnTimer() of SlotService: connect if need be, push the snapshot, and the
\* account when the connection flipped.  g_lastConnected is set before the
\* frame is sent and nobody looks at what SendFrame() returns.
Tick(p) ==
  LET flipped == last[p] # cur
      frames == [c \in Conns |-> IF flipped THEN Snapshot(c) \o Report(c, cur) ELSE Snapshot(c)]
  IN
  /\ p \in Mql
  /\ \/ Deliver(p, frames) /\ lost' = IF flipped THEN lost \ {p} ELSE lost
     \/ (Vanish(p) \/ Fail(p)) /\ lost' = IF flipped THEN lost \cup {p} ELSE lost
  /\ last' = [last EXCEPT ![p] = cur]
  /\ UNCHANGED <<cur, up, sock, recvBuf, view, overlap>>

\* A publisher dies and its supervisor starts it again.  That takes longer
\* than the slot takes to read what was on the loopback and to close.  A
\* SlotService that had reported a login starts from "not connected" and will
\* not report that the terminal is out.
Restart(p) ==
  /\ MayDie
  /\ link[p] # NoConn => wire[link[p]] = <<>> /\ srv[link[p]] # "queued"
  /\ \A c \in Conns : owner[c] = p => cli[c] # "closed"
  /\ Abandon(p)
  /\ last' = [last EXCEPT ![p] = Fresh(p)]
  /\ lost' = IF p \in Mql /\ last[p] # Out THEN lost \cup {p} ELSE lost
  /\ UNCHANGED <<cur, up, owner, srv, wire, sock, recvBuf, view, overlap>>

-----------------------------------------------------------------------------
(***************************************************************************)
(* Mt5TcpServer                                                            *)
(***************************************************************************)

\* Deviation: the buffer is not emptied for the new connection.
AcceptKeepsBuffer(c) ==
  /\ up /\ srv[c] = "queued"
  /\ sock' = c
  /\ srv' = [e \in Conns |-> IF e = c THEN "open" ELSE IF e = sock THEN "destroyed" ELSE srv[e]]
  /\ wire' = [e \in Conns |-> IF e = sock THEN <<>> ELSE wire[e]]
  /\ overlap' = \E e \in Conns \ {sock} : srv[e] = "open"
  /\ lost' = lost \cup (IF sock = NoConn THEN {} ELSE Reporters(wire[sock])) \cup Reporters(recvBuf)
  /\ UNCHANGED <<cur, up, pubVars, recvBuf, view>>

\* Deviation: the previous connection is left alone.
AcceptKeepsPrevious(c) ==
  /\ up /\ srv[c] = "queued"
  /\ sock' = c
  /\ recvBuf' = <<>>
  /\ srv' = [srv EXCEPT ![c] = "open"]
  /\ overlap' = \E e \in Conns \ {sock} : srv[e] = "open"
  /\ lost' = lost \cup Reporters(recvBuf)
  /\ UNCHANGED <<cur, up, pubVars, wire, view>>

\* handleConnection(): destroy the socket of the previous connection, of
\* which nothing more is read, and start with an empty buffer.
Accept(c) ==
  /\ up /\ srv[c] = "queued"
  /\ sock' = c
  /\ recvBuf' = <<>>
  /\ srv' = [e \in Conns |-> IF e = c THEN "open" ELSE IF e = sock THEN "destroyed" ELSE srv[e]]
  /\ wire' = [e \in Conns |-> IF e = sock THEN <<>> ELSE wire[e]]
  /\ overlap' = \E e \in Conns \ {sock} : srv[e] = "open"
  /\ lost' = lost \cup (IF sock = NoConn THEN {} ELSE Reporters(wire[sock])) \cup Reporters(recvBuf)
  /\ UNCHANGED <<cur, up, pubVars, view>>

\* onData() for the first half of a report: every connection appends to the
\* one buffer, which is dropped when it grows over the limit.
DataHalf(c) ==
  LET buf == Append(recvBuf, Head(wire[c])) IN
  /\ srv[c] = "open" /\ wire[c] # <<>> /\ Head(wire[c]).part = 1
  /\ wire' = [wire EXCEPT ![c] = Tail(@)]
  /\ IF Len(buf) > BufMax
     THEN recvBuf' = <<>> /\ lost' = lost \cup Reporters(buf)
     ELSE recvBuf' = buf /\ UNCHANGED lost
  /\ UNCHANGED <<cur, up, pubVars, srv, sock, view, overlap>>

\* Deviation: the frame is handled without looking at its schema.
DataFrameUnchecked(c) ==
  LET v == Head(wire[c]).val
      buf == Append(recvBuf, Head(wire[c]))
  IN
  /\ srv[c] = "open" /\ wire[c] # <<>> /\ Head(wire[c]).part = 2
  /\ wire' = [wire EXCEPT ![c] = Tail(@)]
  /\ recvBuf' = <<>>
  /\ IF buf = Report(c, v) \/ buf = Snapshot(c)
     THEN view' = v /\ UNCHANGED lost
     ELSE lost' = lost \cup Reporters(buf) /\ UNCHANGED view
  /\ UNCHANGED <<cur, up, pubVars, srv, sock, overlap>>

\* onData() for the newline: what is buffered is a report, or is dropped as a
\* bad frame or for its schema.
DataFrame(c) ==
  LET v == Head(wire[c]).val
      buf == Append(recvBuf, Head(wire[c]))
  IN
  /\ srv[c] = "open" /\ wire[c] # <<>> /\ Head(wire[c]).part = 2
  /\ wire' = [wire EXCEPT ![c] = Tail(@)]
  /\ recvBuf' = <<>>
  /\ IF buf = Report(c, v)
     THEN view' = v /\ UNCHANGED lost
     ELSE lost' = lost \cup Reporters(buf) /\ UNCHANGED view
  /\ UNCHANGED <<cur, up, pubVars, srv, sock, overlap>>

\* onClose(): of the current connection or of one that was replaced.
Close(c) ==
  /\ srv[c] = "destroyed" \/ (srv[c] = "open" /\ cli[c] = "closed" /\ wire[c] = <<>>)
  /\ sock' = NoConn
  /\ srv' = [srv EXCEPT ![c] = "none"]
  /\ cli' = [cli EXCEPT ![c] = IF @ = "closed" THEN "none" ELSE @]
  /\ UNCHANGED <<cur, up, link, last, owner, wire, recvBuf, view, overlap, lost>>

\* The slot process dies: it forgets what it was told.
Crash ==
  /\ MayDie
  /\ up
  /\ up' = FALSE
  /\ sock' = NoConn
  /\ recvBuf' = <<>>
  /\ view' = Out
  /\ overlap' = FALSE
  /\ srv' = [c \in Conns |-> "none"]
  /\ cli' = [c \in Conns |-> IF cli[c] = "closed" THEN "none" ELSE cli[c]]
  /\ wire' = [c \in Conns |-> <<>>]
  /\ lost' = lost \cup {p \in Pubs : last[p] \notin {None, Out}}
  /\ UNCHANGED <<cur, link, last, owner>>

\* start(): the listener is bound.
Start ==
  /\ ~up
  /\ up' = TRUE
  /\ UNCHANGED <<cur, pubVars, srv, wire, sock, recvBuf, view, overlap, lost>>

-----------------------------------------------------------------------------

Next ==
  \/ Change
  \/ \E p \in Pubs : Publish(p) \/ Tick(p) \/ Restart(p)
  \/ \E c \in Conns : Accept(c) \/ DataHalf(c) \/ DataFrame(c) \/ Close(c)
  \/ Crash
  \/ Start

Spec == Init /\ [][Next]_vars

(***************************************************************************)
(* Fairness: the publishers poll for ever, and the slot's event loop takes *)
(* what is ready on its sockets.  Nothing obliges the account to change or *)
(* a process to die, and the supervisor's part is left to the properties.  *)
(***************************************************************************)
Fairness ==
  /\ \A p \in Pubs : WF_vars(Publish(p)) /\ WF_vars(Tick(p))
  /\ \A c \in Conns : WF_vars(Accept(c)) /\ WF_vars(DataHalf(c)) /\ WF_vars(DataFrame(c)) /\ WF_vars(Close(c))

FairSpec == Spec /\ Fairness

-----------------------------------------------------------------------------
(***************************************************************************)
(* Properties                                                              *)
(***************************************************************************)

Open == {c \in Conns : srv[c] = "open"}

\* this.sock, when there is one, is a live connection: no isConnected() is
\* true of a dead one, and a new connection replaces the one it should.
CurrentIsOpen == sock # NoConn => srv[sock] = "open"

\* The one buffer serves one connection at a time, as long as the newest
\* connection had no live rival: what it holds is the first half of a report
\* of that connection, and a report read to its end is never spliced.
OneBuffer ==
  ~overlap =>
    /\ \A c, d \in Open : c = d
    /\ \A c \in Open : \/ recvBuf = <<>>
                       \/ \E v \in States : recvBuf = <<Report(c, v)[1]>>

\* When no report is on its way, none was dropped or forgotten and every
\* publisher believes that the slot knows the present state, the slot does know
\* it: however reports overtook each other, and whoever died in between.
Informed ==
  /\ lost = {}
  /\ \A c \in Conns : Reporters(wire[c]) = {}
  /\ \A p \in Pubs : last[p] = cur
  => view = cur

\* Reports overtake each other on two connections and are repeated, but when
\* nothing is dropped on the way the slot ends up knowing what the terminal
\* says.
CatchesUp ==
  \A v \in States : <>[](cur = v /\ up /\ lost = {}) => <>[](view = v)

\* The comment in app.ts: "multiple publishers, fine", they only push.
ReportsArrive ==
  \A v \in States : <>[](cur = v /\ up) => <>[](view = v)

\* The plan of the server: "single connection enforced (kick prior on new)".
SingleConnection == \A c, d \in Open : c = d
=============================================================================
