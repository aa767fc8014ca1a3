-------------------------- MODULE SimTradingProofs --------------------------
(***************************************************************************)
(* Proofs about SimTrading, for all volumes and prices and any number of   *)
(* orders and logins: no fill is lost, a full close that nothing came      *)
(* before leaves its record flat, and the average price of a position that *)
(* has only grown is the one of the ledger.                                *)
(***************************************************************************)
EXTENDS SimTrading, TLAPS

Position == [side : {"long", "short", "flat"}, qty : Nat, num : Nat, den : Nat \ {0}]

OrderRec == [stage : Stage, gen : 0..MaxLogins, sign : {1, -1}, qty : Nat,
             type : {"market", "limit"}, full : BOOLEAN, alone : BOOLEAN]

\* A position that is not flat has a side and a volume.
Solid(p) == p = Flat \/ (p.side \in {"long", "short"} /\ p.qty > 0)

-----------------------------------------------------------------------------
(***************************************************************************)
(* Netting                                                                 *)
(***************************************************************************)

\* Products of volumes and prices are natural numbers.
LEMMA Product ==
  ASSUME NEW m \in Nat, NEW n \in Nat
  PROVE  m * n \in Nat /\ (m > 0 /\ n > 0 => m * n > 0)
OBVIOUS

\* No position is a position of volume zero.
LEMMA FlatType == Flat \in Position /\ Solid(Flat) /\ Signed(Flat) = 0
<1>1. Flat \in Position
  BY DEF Flat, Position
<1>2. Flat.side = "flat" /\ Flat.qty = 0
  BY DEF Flat
<1>3. Solid(Flat)
  BY DEF Solid
<1>4. Signed(Flat) = 0
  BY <1>2 DEF Signed
<1>5. QED
  BY <1>1, <1>3, <1>4

\* A position opened, or turned over, has the volume of the sum.
LEMMA OpenedFacts ==
  ASSUME NEW net \in Int, net # 0, NEW price \in Nat
  PROVE  LET r == Opened(net, Abs(net), price)
         IN  r \in Position /\ Solid(r) /\ Signed(r) = net
<1> DEFINE r == Opened(net, Abs(net), price)
<1>1. /\ r.side = IF net > 0 THEN "long" ELSE "short"
      /\ r.qty = IF net < 0 THEN -net ELSE net
  BY DEF Opened, SideOf, Abs
<1>2. r \in Position
  BY DEF Opened, SideOf, Abs, Position
<1> HIDE DEF r
<1>3. Solid(r) /\ Signed(r) = net
  BY <1>1 DEF Solid, Signed
<1>4. QED
  BY <1>2, <1>3 DEF r

\* A fill that is averaged in leaves the volume of the sum.
LEMMA AveragedFacts ==
  ASSUME NEW p \in Position, p.side \in {"long", "short"}, NEW net \in Int, net # 0,
         SideOf(net) = p.side, NEW qty \in Nat \ {0}, NEW price \in Nat
  PROVE  LET r == Averaged(p, Abs(net), qty, price)
         IN  r \in Position /\ Solid(r) /\ Signed(r) = net
<1> DEFINE r == Averaged(p, Abs(net), qty, price)
           num == p.num * p.qty + price * qty * p.den
           den == p.den * (p.qty + qty)
<1>1. p.num \in Nat /\ p.qty \in Nat /\ p.den \in Nat /\ p.den > 0
  BY DEF Position
<1>2. num \in Nat
  <2>1. price * qty \in Nat /\ p.num * p.qty \in Nat
    BY <1>1, Product
  <2>2. price * qty * p.den \in Nat
    BY <1>1, <2>1, Product
  <2>3. QED
    BY <2>1, <2>2
<1>3. den \in Nat \ {0}
  <2>1. p.qty + qty \in Nat /\ p.qty + qty > 0
    BY <1>1
  <2>2. QED
    BY <1>1, <2>1, Product
<1>4. Abs(net) \in Nat
  BY DEF Abs
<1>5. r = [side |-> p.side, qty |-> Abs(net), num |-> num, den |-> den]
  BY DEF Averaged
<1> HIDE DEF num, den, r
<1>6. r \in Position
  BY <1>2, <1>3, <1>4, <1>5 DEF Position
<1>7. r.side = p.side /\ r.qty = IF net < 0 THEN -net ELSE net
  BY <1>5 DEF Abs
<1>8. Solid(r) /\ Signed(r) = net
  BY <1>7 DEF Solid, Signed, SideOf
<1>9. QED
  BY <1>6, <1>8 DEF r

\* A fill adds its signed volume to the signed volume of the position, whichever
\* of the branches of the timer's callback it takes.
LEMMA NettedSum ==
  ASSUME NEW p \in Position, Solid(p), NEW sign \in {1, -1},
         NEW qty \in Nat \ {0}, NEW price \in Nat
  PROVE  /\ Netted(p, sign, qty, price) \in Position
         /\ Solid(Netted(p, sign, qty, price))
         /\ Signed(Netted(p, sign, qty, price)) = Signed(p) + sign * qty
         /\ p # Flat /\ Signed(p) + sign * qty = 0 => Netted(p, sign, qty, price) = Flat
<1> DEFINE net == Signed(p) + sign * qty
           r == Netted(p, sign, qty, price)
<1>1. Signed(p) \in Int /\ sign * qty \in Int /\ sign * qty # 0
  BY DEF Signed, Position
<1>2. net \in Int
  BY <1>1
<1>3. CASE p # Flat /\ net = 0
  <2>1. r = Flat
    BY <1>3 DEF Netted
  <2>2. QED
    BY <1>3, <2>1, FlatType
<1>4. CASE p # Flat /\ net # 0 /\ SideOf(net) = p.side
  <2>1. r = Averaged(p, Abs(net), qty, price)
    BY <1>4 DEF Netted
  <2>2. p.side \in {"long", "short"}
    BY <1>4 DEF Solid
  <2>3. QED
    BY <1>2, <1>4, <2>1, <2>2, AveragedFacts
<1>5. CASE p = Flat \/ (net # 0 /\ SideOf(net) # p.side)
  <2>1. net # 0
    <3>1. p = Flat => net = sign * qty
      BY <1>1, FlatType
    <3>2. QED
      BY <1>1, <1>5, <3>1
  <2>2. r = Opened(net, Abs(net), price)
    BY <1>5, <2>1 DEF Netted
  <2>3. QED
    BY <1>2, <1>5, <2>1, <2>2, OpenedFacts
<1>6. QED
  BY <1>3, <1>4, <1>5

-----------------------------------------------------------------------------
(***************************************************************************)
(* The invariant                                                           *)
(***************************************************************************)

\* A record that does not exist yet is empty; a parked order is for one that
\* does, and for some volume.
Placed ==
  /\ \A g \in Records : Solid(positions[g]) /\ (g > logins => positions[g] = Flat)
  /\ \A o \in Parked : order[o].gen \in 1..logins /\ order[o].qty > 0

\* Of the fills announced since the login, the newest record has all but those
\* that strayed.
Summed == logins # 0 => Signed(positions[logins]) = lots - stray

\* A close that nothing came before is for exactly what its record holds.
Closing ==
  \A o \in Parked : order[o].full /\ order[o].alone
    => /\ positions[order[o].gen] # Flat
       /\ Signed(positions[order[o].gen]) + order[o].sign * order[o].qty = 0

SimInv == TypeOK /\ Placed /\ Summed /\ Closing

\* TypeOK with its records named.
LEMMA SimTypes ==
  TypeOK <=> /\ logins \in 0..MaxLogins /\ account \in {0, logins}
             /\ positions \in [Records -> Position] /\ order \in [Orders -> OrderRec]
             /\ lots \in Int /\ sumPx \in Int /\ stray \in Int /\ added \in BOOLEAN
BY DEF TypeOK, Position, OrderRec

\* An order that is filled keeps nothing but its stage.
LEMMA NoOrderType ==
  /\ NoOrder \in OrderRec /\ NoOrder.stage = "none"
  /\ [NoOrder EXCEPT !.stage = "filled"] \in OrderRec
  /\ [NoOrder EXCEPT !.stage = "filled"].stage = "filled"
<1>1. 0 \in 0..MaxLogins
  BY SimAssumption
<1>2. NoOrder \in OrderRec /\ NoOrder.stage = "none"
  BY <1>1 DEF NoOrder, OrderRec, Stage
<1>3. [NoOrder EXCEPT !.stage = "filled"] \in OrderRec
  BY <1>2 DEF OrderRec, Stage
<1>4. [NoOrder EXCEPT !.stage = "filled"].stage = "filled"
  BY DEF NoOrder
<1>5. QED
  BY <1>2, <1>3, <1>4

\* Before the first login there is nothing to disagree.
LEMMA SimInit == Init => SimInv
<1> SUFFICES ASSUME Init PROVE SimInv
  OBVIOUS
<1>1. /\ logins = 0 /\ account = 0 /\ lots = 0 /\ sumPx = 0 /\ stray = 0 /\ added = TRUE
      /\ positions = [g \in Records |-> Flat] /\ order = [o \in Orders |-> NoOrder]
  BY DEF Init
<1>2. TypeOK
  BY <1>1, SimTypes, SimAssumption, FlatType, NoOrderType
<1>3. Parked = {}
  BY <1>1, NoOrderType DEF Parked
<1>4. QED
  BY <1>1, <1>2, <1>3, FlatType DEF SimInv, Placed, Summed, Closing

\* A login starts a flat record and the sums of the ledger anew.
LEMMA ConnectKeeps ==
  ASSUME SimInv, Connect
  PROVE  SimInv'
<1>1. /\ logins < MaxLogins /\ logins' = logins + 1 /\ account' = logins + 1
      /\ lots' = 0 /\ sumPx' = 0 /\ stray' = 0 /\ added' = TRUE
      /\ UNCHANGED <<positions, order>> /\ logins \in Nat /\ logins' \in 1..MaxLogins
  BY SimTypes, SimAssumption DEF Connect, SimInv
<1>2. TypeOK'
  BY <1>1, SimTypes DEF SimInv, TypeOK
<1>3. Parked' = Parked
  BY <1>1 DEF Parked
<1>4. Placed'
  <2>1. \A g \in Records : g > logins' => g > logins
    BY <1>1 DEF Records
  <2>2. 1..logins \subseteq 1..logins'
    BY <1>1
  <2>3. QED
    BY <1>1, <1>3, <2>1, <2>2 DEF SimInv, Placed
<1>5. Summed'
  <2>1. logins' \in Records /\ logins' > logins
    BY <1>1 DEF Records
  <2>2. positions'[logins'] = Flat
    BY <1>1, <2>1 DEF SimInv, Placed
  <2>3. QED
    BY <1>1, <2>2, FlatType DEF Summed
<1>6. Closing'
  BY <1>1, <1>3 DEF SimInv, Closing
<1>7. QED
  BY <1>2, <1>4, <1>5, <1>6 DEF SimInv

\* Dropping the record held leaves its orders their timers.
LEMMA DisconnectKeeps ==
  ASSUME SimInv, Disconnect
  PROVE  SimInv'
<1>1. account' = 0 /\ UNCHANGED <<logins, positions, order, lots, sumPx, stray, added>>
  BY DEF Disconnect
<1>2. TypeOK'
  BY <1>1 DEF SimInv, TypeOK
<1>3. Placed' /\ Summed' /\ Closing'
  BY <1>1 DEF SimInv, Placed, Summed, Closing, Parked
<1>4. QED
  BY <1>2, <1>3 DEF SimInv

\* Every call that does not fill an order parks it, on the record held, or
\* refuses it.
LEMMA CallKeeps ==
  ASSUME SimInv, NEW o \in Orders, NEW r \in OrderRec, order[o].stage # "parked",
         order' = [order EXCEPT ![o] = r],
         r.stage = "parked" => /\ account # 0 /\ r.gen = account /\ r.qty > 0
                               /\ r.full => /\ positions[account] # Flat
                                            /\ Signed(positions[account]) + r.sign * r.qty = 0,
         UNCHANGED <<logins, account, positions, lots, sumPx, stray, added>>
  PROVE  SimInv'
<1>1. \A p \in Orders : order'[p] = IF p = o THEN r ELSE order[p]
  BY SimTypes DEF SimInv
<1>2. TypeOK'
  BY SimTypes DEF SimInv, TypeOK, OrderRec
<1>3. account # 0 => account \in 1..logins
  BY SimTypes DEF SimInv
<1>4. Placed'
  BY <1>1, <1>3 DEF SimInv, Placed, Parked
<1>5. Summed'
  BY DEF SimInv, Summed
<1>6. Closing'
  BY <1>1 DEF SimInv, Closing, Parked
<1>7. QED
  BY <1>2, <1>4, <1>5, <1>6 DEF SimInv

\* A refused call is a call that was not parked.
LEMMA RejectType ==
  ASSUME TypeOK, NEW o \in Orders, order[o].stage = "none"
  PROVE  LET r == [order[o] EXCEPT !.stage = "refused"] IN r \in OrderRec /\ r.stage = "refused"
<1>1. order[o] \in OrderRec
  BY SimTypes
<1>2. QED
  BY <1>1 DEF OrderRec, Stage

\* A refused call touches no position.
LEMMA RejectKeeps ==
  ASSUME SimInv, NEW o \in Orders, order[o].stage = "none", Reject(o)
  PROVE  SimInv'
<1> DEFINE r == [order[o] EXCEPT !.stage = "refused"]
<1>1. r \in OrderRec /\ r.stage # "parked"
  BY RejectType DEF SimInv
<1>2. order' = [order EXCEPT ![o] = r]
  BY DEF Reject
<1>3. UNCHANGED <<logins, account, positions, lots, sumPx, stray, added>>
  BY DEF Reject
<1> HIDE DEF r
<1>4. QED
  BY <1>1, <1>2, <1>3, CallKeeps

\* An order is parked on the record held; a full close has the volume of the
\* position it was read from.
LEMMA ParkKeeps ==
  ASSUME SimInv, NEW o \in Orders, order[o].stage = "none", account # 0,
         NEW sign \in {1, -1}, NEW qty \in Nat \ {0}, NEW type \in {"market", "limit"},
         NEW full \in BOOLEAN, Park(o, sign, qty, type, full),
         full => /\ positions[account] # Flat
                 /\ Signed(positions[account]) + sign * qty = 0
  PROVE  SimInv'
<1> DEFINE r == [stage |-> "parked", gen |-> account, sign |-> sign, qty |-> qty,
                 type |-> type, full |-> full, alone |-> TRUE]
<1>1. account \in 0..MaxLogins
  BY SimTypes, SimAssumption DEF SimInv
<1>2. r \in OrderRec
  BY <1>1 DEF OrderRec, Stage
<1>3. r.gen = account /\ r.qty = qty /\ r.sign = sign /\ (r.full <=> full)
  OBVIOUS
<1>4. order' = [order EXCEPT ![o] = r]
  BY DEF Park
<1>5. UNCHANGED <<logins, account, positions, lots, sumPx, stray, added>>
  BY DEF Park
<1> HIDE DEF r
<1>6. order[o].stage # "parked"
  OBVIOUS
<1>7. /\ r.gen = account /\ r.qty > 0
      /\ r.full => /\ positions[account] # Flat
                   /\ Signed(positions[account]) + r.sign * r.qty = 0
  BY <1>3
<1>8. QED
  BY <1>2, <1>4, <1>5, <1>6, <1>7, CallKeeps

\* openTrade() parks an order that closes nothing.
LEMMA OpenTradeKeeps ==
  ASSUME SimInv, NEW o \in Orders, OpenTrade(o)
  PROVE  SimInv'
<1>1. order[o].stage = "none"
  BY DEF OpenTrade, IsNext, Orders
<1>2. CASE Reject(o)
  BY <1>1, <1>2, RejectKeeps
<1>3. ASSUME account # 0, NEW sign \in {1, -1}, NEW qty \in Qtys,
             NEW type \in {"market", "limit"}, Park(o, sign, qty, type, FALSE)
      PROVE  SimInv'
  <2>1. qty \in Nat \ {0}
    BY SimAssumption
  <2>2. QED
    BY <1>1, <1>3, <2>1, ParkKeeps
<1>4. QED
  BY <1>2, <1>3 DEF OpenTrade

\* closeTrade() reads the position and parks the order in one turn.
LEMMA CloseTradeKeeps ==
  ASSUME SimInv, NEW o \in Orders, CloseTrade(o)
  PROVE  SimInv'
<1>1. order[o].stage = "none"
  BY DEF CloseTrade, IsNext, Orders
<1>2. CASE Reported = Flat
  BY <1>1, <1>2, RejectKeeps DEF CloseTrade
<1>3. CASE Reported # Flat
  <2> DEFINE sign == IF Reported.side = "long" THEN -1 ELSE 1
  <2>1. account # 0 /\ Reported = positions[account] /\ account \in 1..logins
    BY <1>3, SimTypes DEF Reported, SimInv
  <2>2. positions[account] \in Position /\ Solid(positions[account])
    BY <2>1, SimTypes DEF SimInv, Placed, Records
  <2>3. Reported.qty \in Nat \ {0} /\ Reported.side \in {"long", "short"}
    BY <1>3, <2>1, <2>2 DEF Solid, Position
  <2>4. Signed(positions[account]) + sign * Reported.qty = 0
    BY <2>1, <2>3 DEF Signed
  <2>5. sign \in {1, -1}
    OBVIOUS
  <2>6. \/ Park(o, sign, Reported.qty, "market", TRUE)
        \/ \E qty \in Qtys : Park(o, sign, qty, "market", FALSE)
    BY <1>3 DEF CloseTrade
  <2> HIDE DEF sign
  <2>7. CASE Park(o, sign, Reported.qty, "market", TRUE)
    BY <1>1, <1>3, <2>1, <2>3, <2>4, <2>5, <2>7, ParkKeeps
  <2>8. ASSUME NEW qty \in Qtys, Park(o, sign, qty, "market", FALSE) PROVE SimInv'
    <3>1. qty \in Nat \ {0}
      BY SimAssumption
    <3>2. QED
      BY <1>1, <2>1, <2>5, <2>8, <3>1, ParkKeeps
  <2>9. QED
    BY <2>6, <2>7, <2>8
<1>4. QED
  BY <1>2, <1>3

\* The callback of a timer, which only ever sees the record of its order.
LEMMA FillKeeps ==
  ASSUME SimInv, NEW o \in Orders, NEW price \in Prices, Fill(o, price)
  PROVE  SimInv'
<1> DEFINE g == order[o].gen
           sign == order[o].sign
           qty == order[o].qty
           q == sign * qty
           after == Netted(positions[g], sign, qty, price)
<1>1. /\ o \in Parked /\ g \in 1..logins /\ g \in Records /\ price \in Nat
      /\ sign \in {1, -1} /\ qty \in Nat \ {0} /\ logins \in Nat
  <2>1. order[o] \in OrderRec /\ logins \in 0..MaxLogins
    BY SimTypes DEF SimInv
  <2>2. o \in Parked
    BY DEF Fill
  <2>3. g \in 1..logins /\ qty > 0
    BY <2>2 DEF SimInv, Placed
  <2>4. QED
    BY <2>1, <2>2, <2>3, SimAssumption DEF OrderRec, Records
<1>2. positions[g] \in Position /\ Solid(positions[g])
  BY <1>1, SimTypes DEF SimInv, Placed
<1>3. /\ after \in Position /\ Solid(after)
      /\ Signed(after) = Signed(positions[g]) + q
  BY <1>1, <1>2, NettedSum
<1>4. q \in Int /\ q * price \in Int
  BY <1>1
<1>5. /\ positions' = [positions EXCEPT ![g] = after]
      /\ order' = [p \in Orders |->
                     IF p = o THEN [NoOrder EXCEPT !.stage = "filled"]
                     ELSE [order[p] EXCEPT !.alone = @ /\ order[p].gen # g]]
      /\ lots' = lots + q /\ sumPx' = sumPx + q * price
      /\ stray' = IF g = logins THEN stray ELSE stray + q
      /\ added' = (added /\ lots * q >= 0)
      /\ UNCHANGED <<logins, account>>
  BY DEF Fill, Enter
<1> HIDE DEF g, sign, qty, q, after
<1>6. ASSUME NEW h \in Records
      PROVE  positions'[h] = IF h = g THEN after ELSE positions[h]
  BY <1>5, SimTypes DEF SimInv
<1>7. ASSUME NEW p \in Orders, p # o
      PROVE  /\ order'[p] \in OrderRec
             /\ order'[p].stage = order[p].stage /\ order'[p].gen = order[p].gen
             /\ order'[p].sign = order[p].sign /\ order'[p].qty = order[p].qty
             /\ order'[p].full = order[p].full
             /\ order'[p].alone => order[p].alone /\ order[p].gen # g
  <2>1. order[p] \in OrderRec
    BY SimTypes DEF SimInv
  <2>2. order'[p] = [order[p] EXCEPT !.alone = @ /\ order[p].gen # g]
    BY <1>5, <1>7
  <2>3. QED
    BY <2>1, <2>2 DEF OrderRec
<1>8. order'[o] \in OrderRec /\ order'[o].stage = "filled"
  BY <1>5, NoOrderType
<1>9. Parked' = Parked \ {o}
  BY <1>7, <1>8 DEF Parked
<1>10. TypeOK'
  <2>1. positions' \in [Records -> Position]
    BY <1>1, <1>3, <1>5, SimTypes DEF SimInv
  <2>2. order' \in [Orders -> OrderRec]
    BY <1>5, <1>7, <1>8
  <2>3. lots' \in Int /\ sumPx' \in Int /\ stray' \in Int /\ added' \in BOOLEAN
    BY <1>4, <1>5, SimTypes DEF SimInv
  <2>4. QED
    BY <1>5, <2>1, <2>2, <2>3 DEF SimInv, TypeOK, Position, OrderRec
<1>11. Placed'
  BY <1>1, <1>3, <1>5, <1>6, <1>7, <1>9 DEF SimInv, Placed, Parked
<1>12. Summed'
  <2>1. logins \in Records
    BY <1>1, SimTypes DEF SimInv, Records
  <2>2. Signed(positions[logins]) = lots - stray /\ lots \in Int /\ stray \in Int
    BY <1>1, SimTypes DEF SimInv, Summed
  <2>3. CASE g = logins
    BY <1>3, <1>4, <1>5, <1>6, <2>1, <2>2, <2>3 DEF Summed
  <2>4. CASE g # logins
    BY <1>4, <1>5, <1>6, <2>1, <2>2, <2>4 DEF Summed
  <2>5. QED
    BY <2>3, <2>4
<1>13. Closing'
  <2> SUFFICES ASSUME NEW p \in Parked', order'[p].full, order'[p].alone
               PROVE  /\ positions'[order'[p].gen] # Flat
                      /\ Signed(positions'[order'[p].gen]) + order'[p].sign * order'[p].qty = 0
    BY DEF Closing
  <2>1. p \in Parked /\ p # o /\ p \in Orders
    BY <1>9 DEF Parked
  <2>2. /\ order[p].full /\ order[p].alone /\ order[p].gen # g
        /\ order'[p].gen = order[p].gen /\ order'[p].sign = order[p].sign
        /\ order'[p].qty = order[p].qty
    BY <1>7, <2>1
  <2>3. order[p].gen \in Records
    <3>1. order[p].gen \in 1..logins
      BY <2>1 DEF SimInv, Placed
    <3>2. logins \in 0..MaxLogins
      BY SimTypes DEF SimInv
    <3>3. QED
      BY <3>1, <3>2, SimAssumption DEF Records
  <2>4. positions'[order[p].gen] = positions[order[p].gen]
    BY <1>6, <2>2, <2>3
  <2>5. QED
    BY <2>1, <2>2, <2>4 DEF SimInv, Closing
<1>14. QED
  BY <1>10, <1>11, <1>12, <1>13 DEF SimInv

\* Every call and every timer keeps the invariant.
LEMMA SimStep ==
  ASSUME SimInv, [Next]_vars
  PROVE  SimInv'
<1>1. ASSUME NEW o \in Orders, NEW price \in Prices, Fill(o, price) PROVE SimInv'
  BY <1>1, FillKeeps
<1>2. CASE UNCHANGED vars
  BY <1>2 DEF vars, SimInv, TypeOK, Placed, Summed, Closing, Parked
<1>3. QED
  BY <1>1, <1>2, ConnectKeeps, DisconnectKeeps, OpenTradeKeeps, CloseTradeKeeps DEF Next

\* The invariant holds whatever is called and in whatever order timers fire.
THEOREM SimAlways == Spec => []SimInv
<1>1. SimInv /\ [Next]_vars => SimInv'
  BY SimStep
<1>2. QED
  BY <1>1, SimInit, PTL DEF Spec

-----------------------------------------------------------------------------
(***************************************************************************)
(* Theorems                                                                *)
(***************************************************************************)

\* The records, orders and sums of the simulated connector keep their types; in
\* particular no position ever has a negative volume.
THEOREM SimTypeCorrect == Spec => []TypeOK
<1>1. SimInv => TypeOK
  BY DEF SimInv
<1>2. QED
  BY <1>1, SimAlways, PTL

\* positions() of sim.ts and positionsFor() of ledger.ts: two nettings of the
\* same fills agree on side and volume, but for what strayed past a reconnect.
THEOREM NettingsAgree == Spec => []LotsAgree
<1>1. ASSUME SimInv, account # 0 PROVE LotsAgree
  <2> DEFINE p == positions[account]
  <2>1. account = logins /\ logins # 0 /\ account \in Records /\ Reported = p
    BY <1>1, SimTypes DEF SimInv, Records, Reported
  <2>2. p \in Position /\ Solid(p) /\ Signed(p) = lots - stray
    BY <1>1, <2>1, SimTypes DEF SimInv, Placed, Summed
  <2>3. lots \in Int /\ stray \in Int
    BY <1>1, SimTypes DEF SimInv
  <2> HIDE DEF p
  <2>4. ASSUME stray = 0 PROVE p.side = PositionsFor.side /\ p.qty = PositionsFor.qty
    <3>1. Signed(p) = lots
      BY <2>2, <2>3, <2>4
    <3>2. CASE lots = 0
      <4>1. p = Flat
        BY <2>2, <3>1, <3>2 DEF Solid, Signed, Position
      <4>2. QED
        BY <3>2, <4>1 DEF PositionsFor
    <3>3. CASE lots # 0
      <4>1. PositionsFor.side = SideOf(lots) /\ PositionsFor.qty = Abs(lots)
        BY <3>3 DEF PositionsFor
      <4>2. p.side \in {"long", "short"} /\ p.qty \in Nat /\ p.qty > 0
        BY <2>2, <3>1, <3>3, FlatType DEF Solid, Position
      <4>3. QED
        BY <2>3, <3>1, <4>1, <4>2 DEF Signed, SideOf, Abs
    <3>4. QED
      BY <3>2, <3>3
  <2>5. QED
    BY <2>1, <2>2, <2>4 DEF LotsAgree
<1>2. SimInv => LotsAgree
  BY <1>1 DEF LotsAgree
<1>3. QED
  BY <1>2, SimAlways, PTL

\* closeTrade() without a volume: the order it places takes its position to zero
\* and no further, unless another fill of the record came first.
THEOREM FullClosesFlatten == Spec => FullCloseFlattens
<1> DEFINE Flattens == \A o \in Orders :
             o \in Parked /\ order'[o].stage = "filled" /\ order[o].full /\ order[o].alone
               => positions'[order[o].gen] = Flat
<1>1. SimInv /\ [Next]_vars => [Flattens]_vars
  <2> SUFFICES ASSUME SimInv, Next, NEW o \in Orders, o \in Parked,
                      order'[o].stage = "filled", order[o].full, order[o].alone
               PROVE  positions'[order[o].gen] = Flat
    OBVIOUS
  <2>1. PICK p \in Orders, price \in Prices : Fill(p, price)
    <3>1. order[o].stage = "parked"
      BY DEF Parked
    <3>2. ~Connect /\ ~Disconnect
      BY <3>1 DEF Connect, Disconnect
    <3>3. ASSUME NEW p \in Orders, OpenTrade(p) \/ CloseTrade(p) PROVE FALSE
      <4>0. IsNext(p)
        BY <3>3 DEF OpenTrade, CloseTrade
      <4>1. order[p].stage = "none"
        BY <4>0 DEF IsNext, Orders
      <4>2. \E r : order' = [order EXCEPT ![p] = r]
        BY <3>3 DEF OpenTrade, CloseTrade, Reject, Park
      <4>3. order'[o] = order[o]
        BY <3>1, <4>1, <4>2
      <4>4. QED
        BY <3>1, <4>3
    <3>4. QED
      BY <3>2, <3>3 DEF Next
  <2>2. p = o
    <3>1. order[o].stage = "parked" /\ order \in [Orders -> OrderRec]
      BY SimTypes DEF Parked, SimInv
    <3>2. p # o => order'[o] = [order[o] EXCEPT !.alone = @ /\ order[o].gen # order[p].gen]
      BY <2>1 DEF Fill, Enter
    <3>3. p # o => order'[o].stage = order[o].stage
      BY <3>1, <3>2 DEF OrderRec
    <3>4. QED
      BY <3>1, <3>3
  <2> DEFINE g == order[o].gen
  <2>3. /\ g \in Records /\ order[o].sign \in {1, -1} /\ order[o].qty \in Nat \ {0}
        /\ price \in Nat
    <3>1. order[o] \in OrderRec /\ logins \in 0..MaxLogins
      BY SimTypes DEF SimInv
    <3>2. g \in 1..logins /\ order[o].qty > 0
      BY DEF SimInv, Placed
    <3>3. QED
      BY <3>1, <3>2, SimAssumption DEF OrderRec, Records
  <2>4. positions[g] \in Position /\ Solid(positions[g])
    BY <2>3, SimTypes DEF SimInv, Placed
  <2>5. positions[g] # Flat /\ Signed(positions[g]) + order[o].sign * order[o].qty = 0
    BY DEF SimInv, Closing
  <2>6. Netted(positions[g], order[o].sign, order[o].qty, price) = Flat
    BY <2>3, <2>4, <2>5, NettedSum
  <2>7. positions' = [positions EXCEPT ![g] = Flat]
    BY <2>1, <2>2, <2>6 DEF Fill, Enter
  <2>8. QED
    BY <2>3, <2>7, SimTypes DEF SimInv
<1>2. QED
  BY <1>1, SimAlways, PTL DEF Spec, FullCloseFlattens

-----------------------------------------------------------------------------
(***************************************************************************)
(* Average prices                                                          *)
(***************************************************************************)

\* While no fill was against its position, the sums grow away from zero on one
\* side, what strayed lies on that side too, and without it the fraction of the
\* newest record is the quotient of the two sums.
Averaging ==
  logins # 0 /\ added =>
    /\ lots = 0 => sumPx = 0
    /\ lots >= 0 => stray >= 0
    /\ lots <= 0 => stray <= 0
    /\ stray = 0 => positions[logins].num * lots = sumPx * positions[logins].den

\* Arithmetic of the averages: the factors of a sum.
LEMMA Distribute ==
  ASSUME NEW x \in Int, NEW y \in Int, NEW z \in Int
  PROVE  (x + y) * z = x * z + y * z
OBVIOUS

\* Arithmetic of the averages: products in another order.
LEMMA Regroup ==
  ASSUME NEW x \in Int, NEW y \in Int, NEW z \in Int
  PROVE  (x * y) * z = x * (y * z) /\ x * y = y * x /\ x * y \in Int
OBVIOUS

\* The algebra of a fill that is averaged in, on the long side: the position has
\* the fraction n / d for a lots, the sums are a and s, the fill is w lots.
LEMMA Weighted ==
  ASSUME NEW n \in Int, NEW d \in Int, NEW a \in Int, NEW s \in Int,
         NEW w \in Int, NEW price \in Int, n * a = s * d
  PROVE  (n * a + price * w * d) * (a + w) = (s + w * price) * (d * (a + w))
<1>1. w * price \in Int /\ price * w = w * price /\ a + w \in Int
  BY Regroup
<1>2. s + w * price \in Int
  BY <1>1
<1>3. (s + w * price) * d = s * d + (w * price) * d
  BY <1>1, Distribute
<1>4. (s + w * price) * (d * (a + w)) = ((s + w * price) * d) * (a + w)
  BY <1>1, <1>2, Regroup
<1>5. n * a + price * w * d = (s + w * price) * d
  BY <1>1, <1>3
<1>6. QED
  BY <1>4, <1>5

\* Arithmetic of the averages: the sign of a product.
LEMMA Negate ==
  ASSUME NEW x \in Int, NEW y \in Int
  PROVE  (-x) * y = -(x * y) /\ x * (-y) = -(x * y)
OBVIOUS

\* A fill on the side of a position of that side, or on a flat one, keeps the
\* fraction equal to the quotient of the sums.
LEMMA FillAverages ==
  ASSUME NEW p \in Position, Solid(p), NEW sign \in {1, -1}, NEW qty \in Nat \ {0},
         NEW price \in Nat, NEW s \in Int,
         Signed(p) = 0 => s = 0,
         Signed(p) > 0 => sign = 1,
         Signed(p) < 0 => sign = -1,
         p.num * Signed(p) = s * p.den
  PROVE  LET r == Netted(p, sign, qty, price)
         IN  r.num * (Signed(p) + sign * qty) = (s + (sign * qty) * price) * r.den
<1> DEFINE r == Netted(p, sign, qty, price)
           net == Signed(p) + sign * qty
<1>1. /\ p.num \in Nat /\ p.qty \in Nat /\ p.den \in Nat /\ p.den > 0
      /\ Signed(p) \in Int /\ sign * qty \in Int /\ sign * qty # 0
  BY DEF Position, Signed
<1>2. CASE p = Flat
  <2>1. Signed(p) = 0 /\ s = 0
    BY <1>2, FlatType
  <2>2. r = Opened(net, Abs(net), price)
    BY <1>2, <1>1, <2>1 DEF Netted
  <2>3. r.num = price /\ r.den = 1 /\ net = sign * qty
    BY <1>1, <2>1, <2>2 DEF Opened
  <2> HIDE DEF r, net
  <2>4. price * (sign * qty) = (0 + (sign * qty) * price) * 1
    <3> DEFINE q == sign * qty
    <3>1. q \in Int
      BY <1>1
    <3> HIDE DEF q
    <3>2. price * q = (0 + q * price) * 1
      BY <3>1, Regroup
    <3>3. QED
      BY <3>2 DEF q
  <2>5. r.num * net = (s + (sign * qty) * price) * r.den
    BY <2>1, <2>3, <2>4
  <2>6. QED
    BY <2>5 DEF r, net
<1>3. CASE p # Flat
  <2>1. p.side \in {"long", "short"} /\ p.qty > 0
    BY <1>3 DEF Solid
  <2>2. \/ p.side = "long" /\ Signed(p) = p.qty /\ sign = 1
        \/ p.side = "short" /\ Signed(p) = -p.qty /\ sign = -1
    BY <1>1, <2>1 DEF Signed
  <2>3. net # 0 /\ SideOf(net) = p.side /\ net \in Int
    BY <1>1, <2>1, <2>2 DEF SideOf
  <2>4. r = Averaged(p, Abs(net), qty, price)
    BY <1>3, <2>3 DEF Netted
  <2>5. /\ r.num = p.num * p.qty + price * qty * p.den
        /\ r.den = p.den * (p.qty + qty)
    BY <2>4 DEF Averaged
  <2> DEFINE n == p.num
             d == p.den
             a == p.qty
             num == r.num
             den == r.den
  <2>6. n \in Int /\ d \in Int /\ a \in Int /\ qty \in Int /\ price \in Int
    BY <1>1
  <2>7. num = n * a + price * qty * d /\ den = d * (a + qty)
    BY <2>5
  <2>8. num \in Int /\ den \in Int
    <3>1. n * a \in Int /\ price * qty \in Int /\ a + qty \in Int
      BY <2>6, Regroup
    <3>2. price * qty * d \in Int /\ d * (a + qty) \in Int
      BY <2>6, <3>1, Regroup
    <3>3. QED
      BY <2>7, <3>1, <3>2
  <2>9. n * Signed(p) = s * d
    OBVIOUS
  <2> HIDE DEF r, net, n, d, a, num, den
  <2>10. CASE sign = 1
    <3>1. Signed(p) = a /\ sign * qty = qty
      BY <2>2, <2>10, <2>6 DEF a
    <3>2. num * (a + qty) = (s + qty * price) * den
      BY <2>6, <2>7, <2>9, <3>1, Weighted
    <3>3. num * (Signed(p) + sign * qty) = (s + (sign * qty) * price) * den
      BY <3>1, <3>2
    <3>4. QED
      BY <3>3 DEF num, den, r
  <2>11. CASE sign = -1
    <3>1. Signed(p) = -a /\ sign * qty = -qty
      BY <2>2, <2>11, <2>6 DEF a
    <3>2. n * a = (-s) * d
      <4>1. n * (-a) = -(n * a) /\ (-s) * d = -(s * d) /\ n * a \in Int /\ s * d \in Int
        BY <2>6, Negate, Regroup
      <4>2. QED
        BY <2>9, <3>1, <4>1
    <3>3. num * (a + qty) = (-s + qty * price) * den
      <4>1. -s \in Int
        OBVIOUS
      <4> DEFINE t == -s
      <4>2. t \in Int /\ n * a = t * d
        BY <3>2, <4>1
      <4> HIDE DEF t
      <4>3. num * (a + qty) = (t + qty * price) * den
        BY <2>6, <2>7, <4>2, Weighted
      <4>4. QED
        BY <4>3 DEF t
    <3>4. qty * price \in Int /\ (-qty) * price = -(qty * price)
      BY <2>6, Negate, Regroup
    <3> DEFINE x == a + qty
               y == -s + qty * price
    <3>5. x \in Int /\ y \in Int /\ num * x = y * den
      BY <2>6, <3>3, <3>4
    <3>6. -a + -qty = -x /\ s + (-qty) * price = -y
      BY <2>6, <3>4
    <3> HIDE DEF x, y
    <3>7. num * (-x) = (-y) * den
      BY <2>8, <3>5, Negate
    <3>8. num * (Signed(p) + sign * qty) = (s + (sign * qty) * price) * den
      BY <3>1, <3>6, <3>7
    <3>9. QED
      BY <3>8 DEF num, den, r
  <2>12. QED
    BY <2>10, <2>11
<1>4. QED
  BY <1>2, <1>3

\* A fill that adds to its position keeps the two averages equal.
LEMMA FillKeepsAverage ==
  ASSUME SimInv, Averaging, NEW o \in Orders, NEW price \in Prices, Fill(o, price)
  PROVE  Averaging'
<1> DEFINE g == order[o].gen
           sign == order[o].sign
           qty == order[o].qty
           q == sign * qty
           after == Netted(positions[g], sign, qty, price)
<1>1. /\ g \in 1..logins /\ g \in Records /\ price \in Nat
      /\ sign \in {1, -1} /\ qty \in Nat \ {0} /\ logins \in Nat
  <2>1. order[o] \in OrderRec /\ logins \in 0..MaxLogins
    BY SimTypes DEF SimInv
  <2>2. o \in Parked
    BY DEF Fill
  <2>3. g \in 1..logins /\ qty > 0
    BY <2>2 DEF SimInv, Placed
  <2>4. QED
    BY <2>1, <2>2, <2>3, SimAssumption DEF OrderRec, Records
<1>2. /\ lots \in Int /\ stray \in Int /\ sumPx \in Int /\ positions \in [Records -> Position]
      /\ positions[g] \in Position /\ Solid(positions[g])
  BY <1>1, SimTypes DEF SimInv, Placed
<1>3. q \in Int /\ (sign = 1 => q > 0) /\ (sign = -1 => q < 0)
  BY <1>1
<1>4. /\ positions' = [positions EXCEPT ![g] = after]
      /\ lots' = lots + q /\ sumPx' = sumPx + q * price
      /\ stray' = IF g = logins THEN stray ELSE stray + q
      /\ added' = (added /\ lots * q >= 0)
      /\ UNCHANGED <<logins, account>>
  BY DEF Fill, Enter
<1>5. g = logins => Signed(positions[g]) = lots - stray
  BY <1>1 DEF SimInv, Summed
<1> HIDE DEF g, sign, qty, q, after
<1>6. SUFFICES ASSUME added'
               PROVE  Averaging'
  BY DEF Averaging
<1>7. /\ added /\ lots * q >= 0 /\ logins # 0
  <2>1. added' = (added /\ lots * q >= 0)
    BY <1>4
  <2>2. added /\ lots * q >= 0
    BY <1>6, <2>1, Zenon
  <2>3. QED
    BY <1>1, <2>2
<1>8. (lots > 0 => q > 0) /\ (lots < 0 => q < 0)
  BY <1>2, <1>3, <1>7, <1>1
<1>9. \/ q > 0 /\ lots >= 0 /\ stray >= 0
      \/ q < 0 /\ lots <= 0 /\ stray <= 0
  BY <1>1, <1>2, <1>3, <1>7, <1>8 DEF Averaging
<1>10. lots' # 0 /\ (lots' >= 0 => stray' >= 0) /\ (lots' <= 0 => stray' <= 0)
  BY <1>2, <1>3, <1>4, <1>9
<1>11. ASSUME stray' = 0
       PROVE  positions'[logins].num * lots' = sumPx' * positions'[logins].den
  <2>1. g = logins /\ stray = 0
    BY <1>2, <1>3, <1>4, <1>9, <1>11
  <2>2. Signed(positions[g]) = lots
    BY <1>2, <1>5, <2>1
  <2>3. positions[g].num * lots = sumPx * positions[g].den /\ (lots = 0 => sumPx = 0)
    BY <1>7, <2>1 DEF Averaging
  <2>4. (lots > 0 => sign = 1) /\ (lots < 0 => sign = -1)
    BY <1>1, <1>2, <1>3, <1>8
  <2>5. after.num * (lots + q) = (sumPx + q * price) * after.den
    <3> DEFINE p == positions[g]
    <3>1. /\ p \in Position /\ Solid(p) /\ Signed(p) = lots
          /\ p.num * Signed(p) = sumPx * p.den
      BY <1>2, <2>1, <2>2, <2>3
    <3>2. /\ (Signed(p) = 0 => sumPx = 0) /\ (Signed(p) > 0 => sign = 1)
          /\ (Signed(p) < 0 => sign = -1)
      BY <2>2, <2>3, <2>4
    <3> HIDE DEF p
    <3>3. sign \in {1, -1} /\ qty \in Nat \ {0} /\ price \in Nat /\ sumPx \in Int
      BY <1>1, <1>2
    <3>4. Netted(p, sign, qty, price).num * (Signed(p) + sign * qty)
            = (sumPx + (sign * qty) * price) * Netted(p, sign, qty, price).den
      BY <3>1, <3>2, <3>3, FillAverages, Zenon
    <3>5. after = Netted(p, sign, qty, price) /\ q = sign * qty
      BY DEF after, q, p
    <3>6. QED
      BY <3>1, <3>4, <3>5
  <2>6. positions'[logins] = after
    BY <1>1, <1>2, <1>4, <2>1
  <2>7. QED
    BY <1>4, <2>5, <2>6
<1>12. QED
  BY <1>4, <1>10, <1>11 DEF Averaging

\* A new record and new sums agree.
LEMMA ConnectKeepsAverage ==
  ASSUME SimInv, Connect
  PROVE  Averaging'
<1>1. /\ logins < MaxLogins /\ logins' = logins + 1 /\ logins \in Nat
      /\ lots' = 0 /\ sumPx' = 0 /\ stray' = 0 /\ positions' = positions
  BY SimTypes, SimAssumption DEF Connect, SimInv
<1>2. logins' \in Records /\ logins' > logins
  BY <1>1, SimAssumption DEF Records
<1>3. positions'[logins'] = Flat
  BY <1>1, <1>2 DEF SimInv, Placed
<1>4. Flat.num * 0 = 0 * Flat.den
  BY DEF Flat
<1>5. QED
  BY <1>1, <1>3, <1>4 DEF Averaging

\* Every step keeps the averages equal while fills only add.
LEMMA AverageStep ==
  ASSUME SimInv, Averaging, [Next]_vars
  PROVE  Averaging'
<1>1. ASSUME UNCHANGED <<logins, positions, lots, sumPx, stray, added>> PROVE Averaging'
  BY <1>1 DEF Averaging
<1>2. CASE Disconnect
  BY <1>1, <1>2 DEF Disconnect
<1>3. ASSUME NEW o \in Orders, OpenTrade(o) \/ CloseTrade(o) PROVE Averaging'
  BY <1>1, <1>3 DEF OpenTrade, CloseTrade, Park, Reject
<1>4. CASE UNCHANGED vars
  BY <1>1, <1>4 DEF vars
<1>5. QED
  BY <1>2, <1>3, <1>4, ConnectKeepsAverage, FillKeepsAverage DEF Next

\* As long as every fill adds to its position, positions() of sim.ts and
\* positionsFor() of ledger.ts report one average price, whatever the volumes and
\* prices, unless a fill strayed past a reconnect.
THEOREM AveragesEqual == Spec => []AveragesAgree
<1>1. Init => Averaging
  BY DEF Init, Averaging
<1>2. ASSUME SimInv, Averaging, account # 0, stray = 0, added
      PROVE  Reported.num * PositionsFor.den = PositionsFor.num * Reported.den
  <2> DEFINE p == positions[account]
  <2>1. account = logins /\ logins # 0 /\ account \in Records /\ Reported = p
    BY <1>2, SimTypes DEF SimInv, Records, Reported
  <2>2. p \in Position /\ Solid(p) /\ Signed(p) = lots - stray
    BY <1>2, <2>1, SimTypes DEF SimInv, Placed, Summed
  <2>3. lots \in Int /\ sumPx \in Int
    BY <1>2, SimTypes DEF SimInv
  <2>4. p.num * lots = sumPx * p.den
    BY <1>2, <2>1 DEF Averaging
  <2>5. p.num \in Int /\ p.den \in Int
    BY <2>2 DEF Position
  <2> HIDE DEF p
  <2>6. CASE lots = 0
    <3>1. p = Flat
      BY <1>2, <2>2, <2>3, <2>6 DEF Solid, Signed, Position
    <3>2. QED
      BY <2>1, <2>6, <3>1 DEF PositionsFor
  <2>7. CASE lots > 0
    <3>1. PositionsFor.num = sumPx /\ PositionsFor.den = lots
      BY <2>3, <2>7 DEF PositionsFor, Abs
    <3>2. QED
      BY <2>1, <2>4, <3>1
  <2>8. CASE lots < 0
    <3>1. PositionsFor.num = -sumPx /\ PositionsFor.den = -lots
      BY <2>3, <2>8 DEF PositionsFor, Abs
    <3>2. p.num * (-lots) = (-sumPx) * p.den
      BY <2>3, <2>4, <2>5, Negate
    <3>3. QED
      BY <2>1, <3>1, <3>2
  <2>9. QED
    BY <2>3, <2>6, <2>7, <2>8
<1>3. SimInv /\ Averaging => AveragesAgree
  BY <1>2 DEF AveragesAgree
<1>4. SimInv /\ Averaging /\ [Next]_vars => Averaging'
  BY AverageStep
<1>5. QED
  BY <1>1, <1>3, <1>4, SimAlways, PTL DEF Spec


-----------------------------------------------------------------------------
(***************************************************************************)
(* The order of the timers                                                 *)
(***************************************************************************)

\* An order whose timer is the next of its delay.
IsDue(o) == order[o].stage = "parked" /\ Due(o)

\* Weak fairness of the timer of o, with its guard for ENABLED.
FillGoesOn(o) ==
  []<>~IsDue(o) \/ []<><<\E price \in Prices : Fill(o, price)>>_vars
FillsGoOn == \A o \in Orders : FillGoesOn(o)

\* An order whose turn it is is filled.
DueOrdersFill == \A o \in Orders : IsDue(o) ~> order[o].stage = "filled"

\* A call that is made has a number above all others, and changes no other.
LEMMA CallsAreLater ==
  ASSUME SimInv, NEW o \in Orders, NEW p \in Orders, order[o].stage = "parked",
         OpenTrade(p) \/ CloseTrade(p)
  PROVE  /\ order'[o] = order[o]
         /\ \A q \in Orders : q < o => order'[q] = order[q]
<1>1. order \in [Orders -> [stage : Stage, gen : 0..MaxLogins, sign : {1, -1}, qty : Nat,
                          type : {"market", "limit"}, full : BOOLEAN, alone : BOOLEAN]]
  BY DEF SimInv, TypeOK
<1>2. IsNext(p)
  BY DEF OpenTrade, CloseTrade
<1>3. o < p
  BY <1>2 DEF IsNext, Orders
<1>4. \/ Reject(p)
      \/ \E sign, qty, type, full : Park(p, sign, qty, type, full)
  BY DEF OpenTrade, CloseTrade
<1>5. \A q \in Orders : q # p => order'[q] = order[q]
  BY <1>1, <1>4 DEF Reject, Park
<1>6. QED
  BY <1>3, <1>5 DEF Orders

\* No order placed or filled takes its turn from one that has it.
LEMMA StaysDue ==
  ASSUME SimInv, NEW o \in Orders, IsDue(o), [Next]_vars
  PROVE  IsDue(o)' \/ (order[o].stage = "filled")'
<1>1. ASSUME NEW p \in Orders, OpenTrade(p) \/ CloseTrade(p) PROVE IsDue(o)'
  BY <1>1, CallsAreLater DEF IsDue, Due, Parked
<1>2. ASSUME NEW p \in Orders, NEW price \in Prices, Fill(p, price)
      PROVE  IsDue(o)' \/ (order[o].stage = "filled")'
  <2>1. order' = [q \in Orders |->
                    IF q = p THEN [NoOrder EXCEPT !.stage = "filled"]
                    ELSE [order[q] EXCEPT !.alone = @ /\ order[q].gen # order[p].gen]]
    BY <1>2 DEF Fill, Enter
  <2>2. order'[p].stage = "filled"
    BY <2>1 DEF NoOrder
  <2>3. \A q \in Orders : q # p => order'[q].stage = order[q].stage /\ order'[q].type = order[q].type
    BY <2>1 DEF SimInv, TypeOK
  <2>4. QED
    BY <2>2, <2>3 DEF IsDue, Due, Parked
<1>3. CASE Connect \/ Disconnect \/ UNCHANGED vars
  BY <1>3 DEF Connect, Disconnect, vars, IsDue, Due, Parked
<1>4. QED
  BY <1>1, <1>2, <1>3 DEF Next

\* The timer of one order.
LEMMA DueOrderFills ==
  ASSUME NEW o \in Orders
  PROVE  Spec /\ FillGoesOn(o) => (IsDue(o) ~> order[o].stage = "filled")
<1>1. SimInv /\ [Next]_vars /\ IsDue(o) => IsDue(o)' \/ (order[o].stage = "filled")'
  BY StaysDue
<1>2. <<\E price \in Prices : Fill(o, price)>>_vars => (order[o].stage = "filled")'
  BY DEF Fill, Enter, NoOrder
<1>3. QED
  BY <1>1, <1>2, SimAlways, PTL DEF Spec, FillGoesOn

\* setTimeout(): an order that no earlier one of its delay is ahead of is
\* filled, whatever logins, calls and other fills come in between.
THEOREM DueOrdersAreFilled == Spec /\ FillsGoOn => DueOrdersFill
<1> SUFFICES ASSUME Spec, FillsGoOn, NEW o \in Orders
             PROVE  IsDue(o) ~> order[o].stage = "filled"
  BY DEF DueOrdersFill
<1>1. FillGoesOn(o)
  BY DEF FillsGoOn
<1>2. QED
  BY <1>1, DueOrderFills
=============================================================================
