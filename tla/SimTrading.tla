----------------------------- MODULE SimTrading -----------------------------
(***************************************************************************)
(* The simulated connector: a record of one account that connect()         *)
(* replaces, market and limit orders whose fills come later from timers,   *)
(* and the netting of fills into a position - of one instrument, for       *)
(* instruments do not meet.  A timer holds the record its order was placed *)
(* on, which need not be the one positions() reads when it fires.          *)
(*                                                                         *)
(* The ledger nets fills in another way, positionsFor(), by two running    *)
(* sums; lots and sumPx are these sums over the fills announced since the  *)
(* login, each with the side of its order, so that the two can be          *)
(* compared.  All state is in memory: a restart is the initial state.      *)
(***************************************************************************)
EXTENDS Integers

CONSTANTS
  Qtys,        \* volumes, in multiples of a lot step
  Prices,      \* prices of fills
  MaxOrders,   \* bound on calls of openTrade() and closeTrade()
  MaxLogins    \* bound on calls of connect()

ASSUME SimAssumption ==
  /\ Qtys \subseteq Nat \ {0} /\ Prices \subseteq Nat
  /\ MaxOrders \in Nat /\ MaxLogins \in Nat

VARIABLES
  logins,      \* how many records there were; the newest has this number
  account,     \* the record in this.accounts, or 0
  positions,   \* positions[g]: the position in record g
  order,       \* what became of each call, numbered as they are made
  lots, sumPx, \* the sums of positionsFor() over the fills since the login
  stray,       \* history: what of lots went into a record no longer held
  added        \* history: no fill since the login was against its position

vars == <<logins, account, positions, order, lots, sumPx, stray, added>>

Orders == 1..MaxOrders
Records == 1..MaxLogins
Flat == [side |-> "flat", qty |-> 0, num |-> 0, den |-> 1]

Stage == {"none", "refused", "parked", "filled"}
\* full: a close that was given no volume.  alone (history): its record has seen
\* no fill since the order was placed.
NoOrder == [stage |-> "none", gen |-> 0, sign |-> 1, qty |-> 0, type |-> "market",
            full |-> FALSE, alone |-> FALSE]

Init ==
  /\ logins = 0
  /\ account = 0
  /\ positions = [g \in Records |-> Flat]
  /\ order = [o \in Orders |-> NoOrder]
  /\ lots = 0 /\ sumPx = 0 /\ stray = 0 /\ added = TRUE

-----------------------------------------------------------------------------
(***************************************************************************)
(* Netting                                                                 *)
(***************************************************************************)

Abs(n) == IF n < 0 THEN -n ELSE n
SideOf(n) == IF n > 0 THEN "long" ELSE "short"
Signed(p) == IF p.side = "long" THEN p.qty ELSE 0 - p.qty

\* Its average price is a fraction num / den.
Opened(net, qty, price) == [side |-> SideOf(net), qty |-> qty, num |-> price, den |-> 1]
Averaged(p, qty, weight, price) ==
  [side |-> p.side, qty |-> qty,
   num |-> p.num * p.qty + price * weight * p.den, den |-> p.den * (p.qty + weight)]

\* Deviation: the volume keeps the sign of the sum.
NettedSigned(p, sign, qty, price) ==
  LET net == Signed(p) + sign * qty IN
  IF p # Flat /\ net = 0 THEN Flat
  ELSE IF p # Flat /\ SideOf(net) = p.side
  THEN Averaged(p, net, qty, price)
  ELSE Opened(net, net, price)

\* Deviation: what is left after crossing zero is the volume of the fill.
NettedWhole(p, sign, qty, price) ==
  LET net == Signed(p) + sign * qty IN
  IF p # Flat /\ net = 0 THEN Flat
  ELSE IF p # Flat /\ SideOf(net) = p.side
  THEN Averaged(p, Abs(net), qty, price)
  ELSE Opened(net, qty, price)

\* Deviation: a fill is weighted by the volume that is left.
NettedSkewed(p, sign, qty, price) ==
  LET net == Signed(p) + sign * qty IN
  IF p # Flat /\ net = 0 THEN Flat
  ELSE IF p # Flat /\ SideOf(net) = p.side
  THEN Averaged(p, Abs(net), Abs(net), price)
  ELSE Opened(net, Abs(net), price)

\* What a fill makes of a position.  A fill that leaves the side as it was is
\* averaged in, also when it reduces.
Netted(p, sign, qty, price) ==
  LET net == Signed(p) + sign * qty IN
  IF p # Flat /\ net = 0 THEN Flat
  ELSE IF p # Flat /\ SideOf(net) = p.side
  THEN Averaged(p, Abs(net), qty, price)
  ELSE Opened(net, Abs(net), price)

\* positionsFor(): the signed sum of the prices over the net volume.
PositionsFor ==
  IF lots = 0 THEN Flat
  ELSE [side |-> SideOf(lots), qty |-> Abs(lots),
        num |-> IF lots > 0 THEN sumPx ELSE -sumPx, den |-> Abs(lots)]

\* positions(): of the record held, if there is one.
Reported == IF account = 0 THEN Flat ELSE positions[account]

-----------------------------------------------------------------------------
(***************************************************************************)
(* Calls                                                                   *)
(***************************************************************************)

\* A new record, whatever the old one holds and has under way.
Connect ==
  /\ logins < MaxLogins
  /\ logins' = logins + 1
  /\ account' = logins + 1
  /\ lots' = 0 /\ sumPx' = 0 /\ stray' = 0 /\ added' = TRUE
  /\ UNCHANGED <<positions, order>>

Disconnect ==
  /\ account # 0
  /\ account' = 0
  /\ UNCHANGED <<logins, positions, order, lots, sumPx, stray, added>>

Parked == {o \in Orders : order[o].stage = "parked"}
IsNext(o) == \A p \in Orders : order[p].stage = "none" <=> p >= o

Park(o, sign, qty, type, full) ==
  /\ order' = [order EXCEPT ![o] =
                 [stage |-> "parked", gen |-> account, sign |-> sign, qty |-> qty,
                  type |-> type, full |-> full, alone |-> TRUE]]
  /\ UNCHANGED <<logins, account, positions, lots, sumPx, stray, added>>

Reject(o) ==
  /\ order' = [order EXCEPT ![o].stage = "refused"]
  /\ UNCHANGED <<logins, account, positions, lots, sumPx, stray, added>>

\* Streams are told "pending" as the order is parked.
OpenTrade(o) ==
  /\ IsNext(o)
  /\ \/ account = 0 /\ Reject(o)
     \/ /\ account # 0
        /\ \E sign \in {1, -1}, qty \in Qtys, type \in {"market", "limit"} :
             Park(o, sign, qty, type, FALSE)

\* Deviation: a close is an order of the position's own direction.
CloseTradeSameSide(o) ==
  /\ IsNext(o)
  /\ IF Reported = Flat
     THEN Reject(o)
     ELSE LET sign == IF Reported.side = "long" THEN 1 ELSE -1 IN
          \/ Park(o, sign, Reported.qty, "market", TRUE)
          \/ \E qty \in Qtys : Park(o, sign, qty, "market", FALSE)

\* The position is read and an order against it is placed in one turn.
CloseTrade(o) ==
  /\ IsNext(o)
  /\ IF Reported = Flat
     THEN Reject(o)
     ELSE LET sign == IF Reported.side = "long" THEN -1 ELSE 1 IN
          \/ Park(o, sign, Reported.qty, "market", TRUE)
          \/ \E qty \in Qtys : Park(o, sign, qty, "market", FALSE)

\* Timers of one delay fire in the order they were set, and one set after a
\* longer one may overtake it: a market order, a limit order.
Due(o) ==
  \A p \in Parked : p < o => order[p].type = "limit" /\ order[o].type = "market"

\* A fill enters record g and is announced: the sums of the ledger grow.
Enter(o, g, price) ==
  LET q == order[o].sign * order[o].qty IN
  /\ positions' = [positions EXCEPT ![g] = Netted(@, order[o].sign, order[o].qty, price)]
  /\ order' = [p \in Orders |->
                 IF p = o THEN [NoOrder EXCEPT !.stage = "filled"]
                 ELSE [order[p] EXCEPT !.alone = @ /\ order[p].gen # g]]
  /\ lots' = lots + q
  /\ sumPx' = sumPx + q * price
  /\ stray' = IF order[o].gen = logins THEN stray ELSE stray + q
  /\ added' = (added /\ lots * q >= 0)
  /\ UNCHANGED <<logins, account>>

\* Deviation: the timer looks the record up again, and gives up without one.
FillLookedUp(o, price) ==
  /\ o \in Parked /\ Due(o) /\ account # 0
  /\ Enter(o, account, price)

\* The timer of an order: the fill enters the record the order was placed on,
\* and is announced whether or not that record is still held.
Fill(o, price) ==
  /\ o \in Parked /\ Due(o)
  /\ Enter(o, order[o].gen, price)

Next ==
  \/ Connect \/ Disconnect
  \/ \E o \in Orders : \/ OpenTrade(o) \/ CloseTrade(o)
                       \/ \E price \in Prices : Fill(o, price)

Spec == Init /\ [][Next]_vars

\* Node fires the timers that are due.
FairSpec == Spec /\ \A o \in Orders : WF_vars(\E price \in Prices : Fill(o, price))

-----------------------------------------------------------------------------
(***************************************************************************)
(* Properties                                                              *)
(***************************************************************************)

TypeOK ==
  /\ logins \in 0..MaxLogins
  /\ account \in {0, logins}
  /\ positions \in [Records -> [side : {"long", "short", "flat"}, qty : Nat,
                                num : Nat, den : Nat \ {0}]]
  /\ order \in [Orders -> [stage : Stage, gen : 0..MaxLogins, sign : {1, -1}, qty : Nat,
                           type : {"market", "limit"}, full : BOOLEAN, alone : BOOLEAN]]
  /\ lots \in Int /\ sumPx \in Int /\ stray \in Int
  /\ added \in BOOLEAN

\* The two nettings agree: no fill is lost, and what positions() does not show of
\* the fills announced since the login went, from timers set before it, into the
\* record it replaced.
LotsAgree ==
  account # 0 =>
    /\ Signed(Reported) = lots - stray
    /\ stray = 0 => Reported.side = PositionsFor.side /\ Reported.qty = PositionsFor.qty

\* They agree on the average price as long as every fill added to its position;
\* once one has reduced it neither is the price paid for what is left.
AveragesAgree ==
  account # 0 /\ stray = 0 /\ added
    => Reported.num * PositionsFor.den = PositionsFor.num * Reported.den

\* A close that was given no volume leaves its record flat, unless another order
\* was filled between the reading of the position and its own fill.
FullCloseFlattens ==
  [][\A o \in Orders :
       o \in Parked /\ order'[o].stage = "filled" /\ order[o].full /\ order[o].alone
         => positions'[order[o].gen] = Flat]_vars

\* Every order that was accepted is filled, also when its record is replaced or
\* dropped in between.
EveryOrderFills == \A o \in Orders : order[o].stage = "parked" ~> order[o].stage = "filled"
=============================================================================
