# AkronCloud-Slot in TLA+

A *slot* is one MetaTrader 5 terminal in a container with a Node service beside
it. The service (`src/src`) offers the terminal over HTTP and WebSocket; an
MQL5 service in the terminal (`src/mql5/SlotService.mq5`) and a few Python
publishers talk to it over local TCP sockets. Everything that makes a slot hard
to get right lies between these processes: they fail and restart apart from
each other, and each holds a picture of the others that only messages correct.

```
 HTTP/WS clients
     |  /v1/orders ...   /v1/stream            /v1/sync
     v                        ^                   v
 +----------------------- Node service ----------------------------------+
 | trading.ts --> Mt5Connector --bus--> ws.ts      validator.ts, rest.ts |
 |                 |        ^ handleEvent               |                |
 |   Mt5CommandClient   Mt5TcpServer <-- LoginDetector  v                |
 |        | 7779 (out)      ^ 7778 (in)      |       accounts, fills (db)|
 +--------|-----------------|----------------|---------------------------+
          v                 |                v wmctrl         state file
   SlotService.mq5 ---------+        window of the terminal
   (command server,         |
    events client)          +-- mt5-account-publisher.py, mt5-state-bridge.py
```

## Inventory

| Component | State it keeps | Operations | What is hard |
|---|---|---|---|
| Command client, `services/mt5-command-client.ts` | one socket, a receive buffer, the map of pending commands with a timer each, at most one reconnect timer | `dispatch`, socket events, `destroy` | errors and closes of one socket both arrive; answers race timeouts; a connection is lost in the middle of a response; outcomes must not mislead a caller who trades money |
| Command server, `SlotService.mq5` 903-1042 | listening socket, up to 16 clients | polled from `OnTimer`: accept, receive, handle, answer, close | polling without blocking; `n = 0` has two meanings; polled only while the events socket is up |
| Events server, `services/mt5-tcp-server.ts` | `this.sock`, `this.recvBuf`, a listener | accept (kicking the previous one), data, close, persistence of fills and order states | several publishers share "the" connection; the close of a displaced one comes late |
| Publishers: `mt5-account-publisher.py`, `mt5-state-bridge.py`, the events client of `SlotService.mq5` | a socket, what was last sent | poll, compare, send, reconnect | what the kernel took is held for delivered; restarts on either side |
| Login detector, `services/login-detector.ts` | `prev`, `forcePublish`, the state file | poll of a window title, transitions, `refresh` | polls overlap; a write may fail between remembering and publishing; restarts |
| Accounts and records: `app.ts` `resolveAccount`, `connectors/mt5.ts` `connect`, `handleEvent` | table rows, `rec` per account | resolve, connect, account event | events without a login; optimistic events; several accounts |
| Event stream: `api/ws.ts`, `Mt5Connector.stream` | per client: generator, queue, `resolveNext`, bus listener, ping timer | open, emit, resume, abort, close | several events in one turn; a client that leaves in the middle |
| Trading: `api/trading.ts`, `connectors/mt5.ts` 397-622, handlers of `SlotService.mq5` | orders and fills in the ledger | open, close, modify, cancel, trade events | the answer and the events of one trade travel on two sockets |
| Ledger, `ledger.ts` | orders, fills | insert, update status, positions | netting, duplicates, status regressions |
| Simulated connector, `connectors/sim.ts` | records in memory, delayed fills | connect, open, close, stream | a reconnect while fills are under way; netting |
| Validator and sync: `validator.ts`, `api/rest.ts`, `api/internal.ts` | `accounts.status` | sync, validate | seconds pass between reading and writing a row |
| Reconciler and risk: `reconciler.ts`, `risk.ts` | none | drift, limits | never started, never called |
| VNC proxy, `web/mt5-ws-proxy.ts` | two sockets, two flags | pipe, close | closes in any order, data before open |
| ZMQ subscriber, file bridge, OCR bridge, chart reporter | buffers, offsets | earlier or auxiliary transports | half-written lines |
| Auth, crypto, config, migrations, pages | none worth a state machine | pure functions, start-up | - |

What makes each correct, in a sentence. *Command channel*: a caller is told
within its timeout how a command ended, and what it is told is true. *Events
socket*: the slot ends up knowing what the terminal says. *Login state*: the
detector's memory, its file, the records and the streams never come to disagree
for good. *Stream*: complete, in order, and gone with its socket. *Trading*: an
order is not done twice behind its caller's back, and what an answer says of the
broker is true. *Ledger*, *simulated connector*: positions are what the fills add
up to. *Validator*: a status is what the credentials earned, and an account that was
disabled stays so. *Proxy*: either end's close closes the other.

## Modules

| Module | Models | Composition |
|---|---|---|
| `AtMostOnceCall` | abstract: what the outcome of a call tells its caller | refined by `CommandChannel` and by `Trading` |
| `CommandChannel` | `Mt5CommandClient`, the command server of `SlotService.mq5` and the TCP connections between them | `INSTANCE AtMostOnceCall` with `outcomeBar` |
| `EventsSocket` | `Mt5TcpServer`, Python publishers, the events client of `SlotService.mq5` and their connections | - |
| `LoginState` | login detector, `resolveAccount`, `connect()`, account events, state file | takes lossless delivery from `EventsSocket` |
| `Stream` | `/v1/stream` and `Mt5Connector.stream` on the event loop | takes events from the connector as they come |
| `Accounts` | the accounts table, both syncs, `validator.ts` | - |
| `Trading` | the writing routes, the trading methods of `Mt5Connector`, the handlers of `SlotService.mq5` | `EXTENDS Accounts`; takes the steps of the command channel from `INSTANCE AtMostOnceCall`, which `CommandChannel` implements |
| `SimTrading` | the simulated connector, `positionsFor()` of the ledger | - |
| `WsProxy` | the VNC proxy | the `ws` library is external |
| `MC*` | constants of the instances for TLC | each extends its module |
| `*Proofs` | theorems and their proofs | each extends its module; `ReplyProofs` extends `CommandChannelProofs` |

### CommandChannel

`call[d]` is the promise of `dispatch(d)`, `pending` and `armed` are the map and
its running timers, `sock` and `cst` are `this.sock` and the client's end of
every connection, `srv` the server's end. A connection is a pair of ends and two
queues: `c2s` of whole command frames (they are small and written at once) and
`s2c` of response chunks (responses may be long; the last chunk carries the
newline). Identifiers of connections are reused once both ends are gone, so
reconnecting is unbounded with a finite set of them.

Each handler is an action: `Dispatch`, `EnsureConnected` (the 25 ms poll of
`ensureConnected`), `Timeout`, `WriteError`, `ConnectOk`, `ErrorEvent`,
`CloseEvent`, `DataChunk`/`DataFrame` (`on('data')` without and with a newline),
`Reconnect`, `Destroy`. `failPending` and `dispatchFrame` are operators used
inside the actions of the handlers that call them. The server's poll is cut where
the client can tell a difference: `PollAccept`, `ServeFrame`, `ServeDone`,
`ServeClose`; `ServerStop` may cut a response that was under way.
`destroyed -> free` of an end is the `close` event, which Node emits in the turn
of the `destroy()`; a reconnect timer of two seconds therefore always comes after
it (guard of `Reconnect`). `stale` and `answered` are history.

### EventsSocket

`link`, `last` and `cli` are a publisher's socket and what it believes the slot
knows; `sock`, `recvBuf` and `view` are the slot's; `wire[c]` are the halves of
frames sent and not read, the second half carrying the newline. `Publish` is one
poll of a Python publisher that has something to report, `Tick` one `OnTimer` of
`SlotService`, which sends a snapshot the slot has no schema for at every tick
and a report when its connection flipped. The branches of a send are operators:
`Deliver`, `Vanish` (the system takes the bytes for a connection the peer has
closed), `Fail`. `Restart` and `Crash` are processes that die. `overlap` and
`lost` are history: whether the newest connection had a rival when accepted, and
whose last report was dropped on the way.

### LoginState

`window` is the truth, `prev`, `force` and `file` the detector's, `known` and
`loggedIn` the connector's records, `feed` what the streams were told last. A
poll is `StartPoll`, `ReadTitle` and one of `NothingNew`, `LoginSeen`,
`LogoutSeen`: the three are the continuation of `tick()` after `wmctrl`, which
runs in one turn. `Save` may fail. `Connect` is `connect()` with its optimistic
event and its `refresh()`. `Restart` is `startLoginDetector` after a restart of
the slot.

### Stream

`phase[s]` is where the generator of client `s` stands (`awaiting`:
`resolveNext` is set), `held[s]` what it was handed and has not yielded,
`queue[s]` its queue. Node's event loop is in the guards: an action that stands for
something from outside (`Open`, `Closing`, `Close`) needs `Quiet`, for no
generator is left to resume then; `Emit` does not, for several events may be put
on the bus in one turn.

### Accounts

`status[a]` is the column, `job[v]` a validation: `queued` between
`validateAccount()` and its `setImmediate`, `connecting` from the call of
`connect()` to the write of the status, with the row it was handed. `known` is the
connector's map of records, which `connect()` enters before it waits for a login.
`connect()` never throws, so `Validated` is the only way on; the only failure is
`decrypt()`, in the turn that starts (`RunValidation`, set `Readable`). `SyncNewest` is
`/v1/sync` (which does not look at the status), `SyncAll` is `/internal/sync`. Rows
are inserted and disabled by nothing in the slot: `Provision` and `Disable` are its
owner. `blind` (handed over disabled by `/internal/sync`) and `cutOff` (by a
restart) are history.

### Trading

`outcome` and `runs` are the variables of `AtMostOnceCall`: how `dispatchCommand()`
ended and whether a handler of the terminal ran. `effect` is what the broker made of
it, `reply` what the caller was told, `told` what the streams were. `Refuse`,
`Send`, `Answered`, `Failed`, `NotConnected` and `Restart` are the slot, `Handle` the
terminal. Two requests with one `Intent` are a caller who tries again; a caller does
so only when the try before was refused, failed or was cut off.

The answers are those of the code: every action the terminal knows is answered with
`ok`, so an order the broker refused is reported as accepted with a number made up
by the slot (`invented`, against `ticket`), and a change or a cancellation is
reported as made whatever the terminal said. `modifyOrder()` sends `order_id` to a
handler that reads `position_id` and so asks the broker for nothing. Trade events are
absent because they never arrive: `OnTradeTransaction` wraps an object in a second
pair of braces, and the events server drops what does not parse.

### SimTrading

`positions[g]` is record `g`, `account` the one held, `order[o]` a call of
`openTrade()` or `closeTrade()` whose timer holds its record. `Netted` is the
netting of the timer's callback, with average prices as fractions; `PositionsFor` is the
ledger's. In the program the two never meet: no code inserts orders, so `positionsFor()`
would count every fill as a buy. `lots` and `sumPx` give each fill the side of its
order, which is what its comment and its join intend, so that the two computations can
be compared. `stray`, `added`, `full` and `alone` are history. Market and limit
orders are filled by timers of two delays: `Due` is the order in which Node may fire
them. Volumes are whole multiples of a lot step; the code's are floats, and its test
`newQty === 0` is exact only for volumes that add up exactly.

### WsProxy

`client` and `upstream` are the two sockets, `clientOpen` and `upstreamOpen` the
flags. Each handler is an action; `CloseBoth` is `closeBoth()`. What the `ws` library
does is external: a closing handshake (`closing`), an abandoned connection attempt
(`aborted`), close frames with a status or without one. A code of 1005 or 1006 may
not be sent, so `client.close()` throws, the exception is swallowed, and the browser's
socket stays as it is although the upstream is gone: `stuck`.

## Runs

| Run | Question | Result |
|---|---|---|
| `command_channel` | is there ever a second socket or a storm of reconnects, a call lost or settled twice, an outcome that misleads? does the channel implement `AtMostOnceCall`? does every call settle, is a lost connection made again? | holds, 532 000 states |
| `command_stale_buffer` | does a timeout mean that there was no answer? | violated |
| `command_idle_close` | do clients stay connected? | violated |
| `events` | with nothing under way or lost, does the slot know what its publishers believe it knows? is the shared buffer ever spliced while connections do not overlap, does an undisturbed publisher get through? | holds, 261 000 states |
| `events_lost` | do reports arrive? | violated |
| `events_rivals` | is there one connection? | violated |
| `login` | do detector, file, records and streams agree, and settle on the truth? | holds, 219 000 states |
| `login_stuck` | does a logout reach every record? | violated |
| `stream` | is a stream complete, in order, never stranded, and let go of? | holds, 41 000 states |
| `trading` | is a request that was refused never executed, an intent executed twice only after an answer that left it open? what does an answer say of the broker? is a status earned, does a sync decide it, what revives a disabled account? is every request answered? | holds, 623 000 states |
| `sim` | do the two nettings agree, across reconnects? does a full close leave a flat position? is every accepted order filled? | holds, 66 000 states |
| `proxy` | is all piped that could be, does the end of one socket bring that of the other, and when is a browser left hanging? | holds, 340 states |

### Bounds

- `command_channel`: three commands - one answered in two chunks, one the
  terminal does not know, one whose answer is longer than the receive buffer
  (`RecvMax = 1`) - and two connections: one held, and one that lingers at the server
  after the client lost it. `MaxClients = 1` lets the server run out of room with
  these two. There is no symmetry, which liveness does not allow. The two runs that
  find a violation have two commands and three connections.
- `events`: one publisher of each kind, two states of the account, three
  connections: one held, one displaced whose close is pending, one new.
  `WireMax = 1` bounds how many halves a socket has when its publisher sends the next
  frame; a frame always fits whole, so two frames may queue.
  `BufMax = 1` makes the over-long buffer reachable.
- `login`: two accounts, so that an event can reach the wrong one, and two polls
  that overlap. More polls repeat what two do: each carries one stale title.
- `stream`: two clients that stream one account or one each, and four events
  (`MaxEvents`), enough to hand one over, queue two in the turn, and send another
  after the generator waits again.

- `trading`: two accounts, of which the credentials of the older cannot be read (so that
  the newest row, the one routes use, may be the bad one or the good one), two
  validations that overlap, an order with one retry, and the change of a pending
  order. Restarts and syncs are unbounded. A second retry would repeat the first:
  `TwiceOnlyInDoubt` speaks of pairs of tries, and its theorem of any number.
- `sim`: three orders (`MaxOrders`) of one or two lots at two prices, enough to open, reduce
  and turn a position over, and for a limit order to be overtaken by a market order that
  was placed later; two logins (`MaxLogins`), so that fills land in a replaced record.
- `proxy`: three messages in either direction (`MaxMsgs`), one before, one while and one after
  both sockets are open; sessions of several browsers share nothing.

`MaxEvents`, `WireMax`, `MaxOrders`, `MaxLogins` and `MaxMsgs` are the bounds in guards; all
others are the sizes of sets. Deadlock is checked in every run but two: the simulated
connector acts only when it is called, and its calls are bounded; a proxied session
ends.

### Fairness

- Node runs due timers and the continuations of a turn, delivers the `close` of a
  destroyed socket and reads what is ready: weak fairness of `Timeout`,
  `EnsureConnected`, `CloseEvent`, `Reconnect`, of the socket events of
  `EventsSocket`, and of `Resume \/ Finish`. The generators of other clients may
  put off the end of a closing handshake again and again, but each turn ends:
  strong fairness of `Close` once closing has begun (`ws` destroys a socket whose
  peer does not answer).
- The terminal calls `OnTimer` and the publishers poll for ever: weak fairness of
  the poll's steps, `Publish`, `Tick`, `Report` and the detector's polls (`wmctrl`
  has a timeout).
- Nothing is assumed of callers, users, the network, or of processes that die:
  no fairness for `Dispatch`, `ConnectOk`, `ErrorEvent`, delivery of data on the
  command channel, `UserActs`, `Connect`, `Crash`, `Start`, `Restart`. The
  liveness properties that need the outside to calm down say so on their left
  (`<>[](cur = v /\ up ...)`).
- `trading`: the steps of a validation and the timer of a command are Node's and are fair;
  `connect()` waits for a login for a bounded time. That a command ends is
  `EveryCallSettles` of `CommandChannel`; the terminal (`Handle`) and its answers are not
  fair. `sim`: the timers that are due. `proxy`: `ws` ends a closing handshake it has begun,
  by a timer of thirty seconds if need be, and reports a connection attempt it has
  abandoned; nothing is assumed of peers, so a stuck socket may stay.

## Proofs

TLC looks at the instances above; the theorems hold for every value of the
constants that satisfies the module's `ASSUME` (any sets of commands,
connections, publishers, accounts, polls and clients, any cut of the responses,
any buffer limit).

- `CommandChannelProofs`. `TypeOK`, `OneChannel` and `Accounted` are inductive
  (the last two relative to those before). `LossIsLocal` needs `Ownership`: a
  failed socket is no longer `this.sock`. `TellsTheTruth` needs `Wire`, what the
  queues may hold: without it nothing excludes a frame that is in flight twice or
  an answer to a command that never ran. `ChannelImplementsContract` maps every
  step to a step of `AtMostOnceCall` or a stutter, from the same invariants: a
  handler that fails the pending map is `GiveUp` of several calls at once. From
  `Accounted` also `SettledOnce`: how a call was settled never changes.
- `ReplyProofs`. `ReplyResolves` needs to know what the bytes under way are: `Ends` ties
  the two ends of a connection together, `Framed` says that a wire is whole responses of
  which only a stopped server cuts the last, and `Buffered` that the wire goes on where the
  buffer ends, unless the buffer is an earlier connection's.
- `EventsSocketProofs`. `CurrentIsOpen` is inductive over `TypeOK`. `OneBuffer`
  speaks of the buffer only and is not inductive: `Streams` adds that buffer and
  wire of an unrivalled connection together are whole frames, and that the wire
  of a connection not yet accepted is too. `Informed` needs to know where the view of
  the slot comes from: `Provenance` says that a publisher has frames under way only
  on the connection it uses (`LinkOwned`, `WireOwned`), that their halves pair up and a
  half in the buffer has its other half next on the wire (`WirePaired`, `HalfRead`),
  that the last report under way is what its publisher believes to be known
  (`LastSaid`), and that the slot's view is what some publisher still believes it to
  be, unless that one has a later report under way, lost one, or starts anew
  (`Source`). `CurrentAlive` is a lemma of both.
- `LoginStateProofs`. `Agreement` is `TypeOK`, `RecordsHaveRows`, `DetectorAgrees`,
  `FeedAgrees` and `FileAgrees` together: each needs the others (a forced poll
  corrects the feed only because the record agrees with `prev`), and
  `RecordsHaveRows` that an account without a row has no record. `DetectorAgrees`
  speaks of a slot without a publisher; `RecordExplained` is what remains of it with one:
  the record of the only account says what the detector believes or what the publisher
  last reported.
- `StreamProofs`. `StreamInv` is `TypeOK`, `Phases` and `InOrder`: `Phases` ties a
  generator's phase to its listener, timer, socket and queue, and gives
  `NoLostWakeup` and `NoLeak`. `InOrder` speaks of the streams on the bus; `SentOnce` of
  every client, also one whose stream broke off, and needs that what was sent is the
  beginning of what was heard, which ascends (`History`).
- `TradingProofs`. `AccountsInv` is `AccountsTypeOK`, `StatusIsEarned` and `Handed`: what a
  validation holds - `StatusIsEarned` alone does not survive `Validated`, which writes what
  an earlier step found readable, and `Revival` needs that no job was handed a disabled row
  by the page's sync. `TradeInv` ties `reply` and `told` to `outcome`, `runs` and `effect`
  (`Record`, `TicketTells`) and orders the tries of one intent (`Tries`): a later try was
  made only after the earlier one ended in a refusal or in doubt. `TwiceOnlyInDoubt` then
  follows because a refused request has run nothing. `TradingKeepsContract`: every step of
  the composition is a step of `AtMostOnceCall` or a stutter, so that what the routes see of
  commands is no more than what `ChannelImplementsContract` proves of the channel.
- `SimTradingProofs`. The netting is proved to preserve the signed volume (`Signed` of the
  result is the sum) for all volumes and prices; `SimInv` is `TypeOK`, `Placed` (where an
  order was placed), `Summed` (record and sums differ by `stray`) and `Closing` (a
  full close that nothing came before still has the volume of its position).
  `AveragesAgree` needs `Averaging`: while no fill was against its position the sums grow
  on one side of zero, so what strayed cannot cancel out, and the fraction of the record is
  the quotient of the sums, which a fill that is averaged in preserves.
- `WsProxyProofs`. `ProxyInv` adds to the properties that the flags agree with the sockets
  while these are open; `Relayed` is inductive only with it.

### Liveness

The prover does not know ENABLED, so that `WF_vars(A)` says nothing to it. The theorems about
liveness therefore take as hypothesis what weak fairness means once the guard of the
action is written in the place of ENABLED, `[]<>~guard \/ []<><<A>>_vars`, for the actions
that `FairSpec` makes fair and no others; each such guard is the one in the action, so
that `FairSpec` gives the hypothesis, which TLC confirmed on small instances.
A theorem then combines what single steps do - lemmas about `[Next]_vars` under the
safety invariants - in temporal logic, for one constant (a command, a request, a
job, an account) at a time, and lifts it to all.

| Theorem | Property | Hypothesis | Argument |
|---|---|---|---|
| `CallsSettle` | `EveryCallSettles` | `TimersFire`: `Timeout` and the poll of `ensureConnected()` | by `Accounted` a written call keeps its timer until it has settled |
| `RequestsAreAnswered` | `EveryRequestAnswered` | `CallsEnd`: an open command is given up by its timer | a request stays open until it has its reply or is cut off (`TradeInv`) |
| `SyncsDecide` | `SyncDecides` | `JobsGoOn`: both steps of a validation | a job keeps its row until the status is written, or a restart cuts it off |
| `SlotSettles` | `Settles` | one poll of the detector and the publisher go on | `RecordExplained`: the record is wrong only while the detector or the publisher has something to say, and each corrects it |
| `BothEnd` | `EndsTogether` | `SocketsEnd`: `ws` ends what it began | `Ending`: a closed socket leaves the other ending or stuck |
| `DueOrdersAreFilled` | - | `FillsGoOn`: the timer that is next of its delay | no later call takes an order's turn from it; with finitely many orders ahead of any, this is the step of `EveryOrderFills` |

### Only checked by TLC

All invariants and action properties of the runs are proved. Of liveness these are not:

- `EveryOrderFills` is `DueOrdersAreFilled` once for every order ahead, an induction over
  their number inside a temporal formula.
- `Reconnects` needs that some identifier of a connection becomes free, which one depending
  on the state: an induction over the connections that linger at the server.
- `CatchesUp` needs the wires of all connections to be read to their end, an induction over
  their lengths.
- `Served` needs that every turn of the event loop ends, an induction over what is
  queued for all clients together, and strong fairness of `Close` on top.

The prover has induction only through theorems that take an operator as a
parameter, which its backends cannot instantiate, and not at all for temporal formulas.
That `FairSpec` implies the hypotheses above is ENABLED again. No module
proved about uses a RECURSIVE operator.

## Findings

1. **A half response outlives its connection** (`command_stale_buffer`). `recvBuf`
   is never reset, so the first reply after a reconnect is glued to what the lost
   connection left, does not parse, and its command times out although it was
   answered and executed.
2. **An idle command client is closed** (`command_idle_close`). "Would block" is
   mapped to `n = 0` and `n = 0` to "peer closed".
3. **A displaced report is lost for good** (`events_lost`). A publisher holds for
   delivered what a newer connection made the slot discard.
4. **The single connection is not enforced** (`events_rivals`). The late close of
   the displaced socket clears `this.sock`, so the next connection displaces nobody.
5. **A logout misses the newer of two accounts** (`login_stuck`). Logins name their
   account, logouts do not and go to the oldest row.

What the passing runs bring out and a reader of the code should know:

- `docs/CONNECTORS.md:91` asks that "every operation must be safely retryable".
  `client_order_id` is accepted and not passed on, and an order is executed twice if its
  caller tries again after a failure that left it open; `TwiceOnlyInDoubt` is what does hold.
- A broker's refusal is reported as `ok` (`TicketTells`: only the number tells).
- `/v1/sync` revives a disabled account, and a validation that was under way when it was
  disabled does as well (`Revival` lists the ways).
- Once a fill has reduced a position, its average price in the simulated connector and in
  `positionsFor()` differ, and neither is what was paid (`AveragesAgree` needs `added`).
- An upstream that goes without a status, as a killed KasmVNC does, leaves the browser with
  a dead VNC session and no close event (`StuckWithoutStatus`).
- With the simulated connector configured the trading routes build a reference that begins
  with `mt5-`, while its records begin with `sim-`: every order is refused with
  "unknown accountRef".

## Not modelled, and why

- Formatting, logging, the text of titles and frames, HTTP bodies; heartbeats, which
  no code acts on; reading routes and query handlers, which change nothing.
- Code that nothing runs: the fallback of `dispatchCommand()` over the events socket (a
  command client is always wired), `Mt5Connector.disconnect()` and `stop()`,
  `insertOrder()` and with it the order rows and their status, the reconciler, the risk
  gate, `mt5-zmq.ts`, the file bridge.
- The persistence of fills: the events it waits for do not parse. With a terminal that sent
  valid frames it would be the next thing to model.
- The stream of the simulated connector: the same generator as `Stream`, except that it
  ignores the account it is asked for.
- A short `send()` in the terminal, frames being far smaller than a socket buffer; memory
  that grows with a client that does not read, the code having no limit to check.
- The vendored VNC client and the pages, which are most of the lines of `src/`;
  authentication, cryptography, configuration and migrations, which are functions of their
  inputs or run once before anything is concurrent.

## Plan

Done, in this order: `AtMostOnceCall` and `CommandChannel` (every order goes
through it), `EventsSocket`, `LoginState`, `Stream`, `Accounts` and `Trading`,
`SimTrading` with the netting of the ledger, `WsProxy`. What could come next:

1. `Slot`: command server and events client of one `OnTimer` composed, for the
   coupling of the two sockets (commands time out while nobody listens on 7778).
2. Pure algorithms: title parsing, `JsonField` of the terminal, the auth decision,
   against reference definitions.
3. An abstract register that `EventsSocket` implements when nothing is lost, of which
   `Informed` is the safety half.
