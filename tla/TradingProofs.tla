--------------------------- MODULE TradingProofs ----------------------------
(***************************************************************************)
(* Proofs about Trading, for every set of accounts, validations and        *)
(* requests, every split of the accounts into readable ones and others,    *)
(* and whatever the requests ask for.                                      *)
(***************************************************************************)
EXTENDS Trading, TLAPS

-----------------------------------------------------------------------------
(***************************************************************************)
(* The accounts table                                                      *)
(***************************************************************************)

\* A validation under way has a row; the page's sync has handed over no
\* disabled one; what the connector was asked to open could be read.
Handed ==
  \A v \in Jobs :
    /\ job[v].stage = "idle" <=> job[v] = NoJob
    /\ job[v].stage # "idle" => job[v].row \in Rows
    /\ job[v].stage = "connecting" => job[v].row \in Readable
    /\ ~job[v].blind

AccountsInv == AccountsTypeOK /\ Handed /\ StatusIsEarned

\* What /internal/sync hands to a job is a row that is not disabled.
LEMMA PageSync ==
  ASSUME AccountsInv, NEW worker \in [Enabled -> Idle], NEW v \in Jobs,
         \E a \in Enabled : worker[a] = v,
         NEW q, q = Queued(CHOOSE a \in Enabled : worker[a] = v, TRUE)
  PROVE  q \in Job /\ q.stage = "queued" /\ q.row \in Rows /\ ~q.blind
<1>1. PICK b \in Enabled : q = Queued(b, TRUE)
  OBVIOUS
<1>2. b \in Rows /\ status[b] # "disabled"
  BY DEF Enabled, Present
<1>3. Queued(b, TRUE) \in Job
  BY <1>2 DEF Queued, Job
<1>4. /\ Queued(b, TRUE).stage = "queued" /\ Queued(b, TRUE).row \in Rows
      /\ ~Queued(b, TRUE).blind
  BY <1>2 DEF Queued
<1>5. QED
  BY <1>1, <1>3, <1>4

\* A new job is one of the table's kind.
LEMMA JobTypes ==
  /\ NoJob \in Job
  /\ NoJob.stage = "idle" /\ NoJob.row = 0 /\ ~NoJob.blind
  /\ \A q \in Job : q.stage \in {"idle", "queued", "connecting"} /\ q.row \in Rows \cup {0}
BY DEF NoJob, Job

\* At first there are no rows and no jobs.
LEMMA AccountsInitInv == AccountsInit => AccountsInv
<1> SUFFICES ASSUME AccountsInit PROVE AccountsInv
  OBVIOUS
<1>1. AccountsTypeOK
  BY JobTypes DEF AccountsInit, AccountsTypeOK, Status
<1>2. Handed
  BY JobTypes DEF AccountsInit, Handed
<1>3. StatusIsEarned
  BY DEF AccountsInit, StatusIsEarned
<1>4. QED
  BY <1>1, <1>2, <1>3 DEF AccountsInv

\* The owner of the table touches no validation.
LEMMA OwnerKeeps ==
  ASSUME AccountsInv, NEW a \in Rows, Provision(a) \/ Disable(a)
  PROVE  AccountsInv'
<1>1. /\ status' \in [Rows -> Status] /\ UNCHANGED <<known, job, cutOff>>
      /\ \A b \in Rows : status'[b] \in {status[b], "pending_validation", "disabled"}
  BY DEF AccountsInv, AccountsTypeOK, Provision, Disable, Status
<1>2. AccountsTypeOK'
  BY <1>1 DEF AccountsInv, AccountsTypeOK
<1>3. Handed'
  BY <1>1 DEF AccountsInv, Handed
<1>4. StatusIsEarned'
  BY <1>1 DEF AccountsInv, StatusIsEarned
<1>5. QED
  BY <1>2, <1>3, <1>4 DEF AccountsInv

\* /v1/sync hands the newest row to a validation and writes nothing.
LEMMA SyncNewestKeeps ==
  ASSUME AccountsInv, NEW v \in Jobs, SyncNewest(v)
  PROVE  AccountsInv'
<1>1. PICK a \in Rows : /\ job' = [job EXCEPT ![v] = Queued(a, FALSE)]
                        /\ cutOff' = cutOff \ {a}
  BY DEF SyncNewest
<1>2. UNCHANGED <<status, known>>
  BY DEF SyncNewest
<1>3. Queued(a, FALSE).stage = "queued" /\ Queued(a, FALSE).row = a /\ ~Queued(a, FALSE).blind
  BY DEF Queued
<1>4. Queued(a, FALSE) \in Job
  BY DEF Queued, Job
<1>5. AccountsTypeOK'
  BY <1>1, <1>2, <1>4 DEF AccountsInv, AccountsTypeOK
<1>6. ASSUME NEW w \in Jobs PROVE job'[w] = IF w = v THEN Queued(a, FALSE) ELSE job[w]
  BY <1>1 DEF AccountsInv, AccountsTypeOK
<1>7. Handed'
  BY <1>3, <1>6, JobTypes DEF AccountsInv, Handed
<1>8. StatusIsEarned'
  BY <1>2 DEF AccountsInv, StatusIsEarned
<1>9. QED
  BY <1>5, <1>7, <1>8 DEF AccountsInv

\* /internal/sync hands every enabled row to a validation of its own.
LEMMA SyncAllKeeps ==
  ASSUME AccountsInv, SyncAll
  PROVE  AccountsInv'
<1>1. PICK worker \in [Enabled -> Idle] :
        job' = [v \in Jobs |-> IF \E a \in Enabled : worker[a] = v
                               THEN Queued(CHOOSE a \in Enabled : worker[a] = v, TRUE)
                               ELSE job[v]]
  BY DEF SyncAll
<1>2. UNCHANGED <<status, known>> /\ cutOff' = cutOff \ Enabled
  BY DEF SyncAll
<1>3. ASSUME NEW v \in Jobs
      PROVE  \/ job'[v] = job[v]
             \/ /\ job'[v] \in Job /\ job'[v].stage = "queued"
                /\ job'[v].row \in Rows /\ ~job'[v].blind
  <2>1. CASE \E a \in Enabled : worker[a] = v
    <3>1. job'[v] = Queued(CHOOSE a \in Enabled : worker[a] = v, TRUE)
      BY <1>1, <2>1
    <3>2. QED
      BY <2>1, <3>1, PageSync
  <2>2. CASE ~\E a \in Enabled : worker[a] = v
    BY <1>1, <2>2
  <2>3. QED
    BY <2>1, <2>2
<1>4. AccountsTypeOK'
  <2>1. job' \in [Jobs -> Job]
    BY <1>1, <1>3 DEF AccountsInv, AccountsTypeOK
  <2>2. QED
    BY <1>2, <2>1 DEF AccountsInv, AccountsTypeOK
<1>5. Handed'
  BY <1>3, JobTypes DEF AccountsInv, Handed
<1>6. StatusIsEarned'
  BY <1>2 DEF AccountsInv, StatusIsEarned
<1>7. QED
  BY <1>4, <1>5, <1>6 DEF AccountsInv

\* A row is in error only when its credentials could not be read.
LEMMA RunValidationKeeps ==
  ASSUME AccountsInv, NEW v \in Jobs, RunValidation(v)
  PROVE  AccountsInv'
<1> DEFINE a == job[v].row
<1>1. a \in Rows /\ job[v] \in Job /\ ~job[v].blind /\ UNCHANGED cutOff
  BY DEF RunValidation, AccountsInv, AccountsTypeOK, Handed
<1>2. CASE a \in Readable
  <2>1. /\ job' = [job EXCEPT ![v].stage = "connecting"]
        /\ known' = known \cup {a} /\ UNCHANGED status
    BY <1>2 DEF RunValidation
  <2> DEFINE q == [job[v] EXCEPT !.stage = "connecting"]
  <2>2. q \in Job /\ q.stage = "connecting" /\ q.row = a /\ ~q.blind
    BY <1>1 DEF Job
  <2>3. ASSUME NEW w \in Jobs PROVE job'[w] = IF w = v THEN q ELSE job[w]
    BY <2>1 DEF AccountsInv, AccountsTypeOK
  <2> HIDE DEF q
  <2>4. AccountsTypeOK'
    <3>1. job' \in [Jobs -> Job]
      BY <2>1, <2>2, <2>3 DEF AccountsInv, AccountsTypeOK
    <3>2. QED
      BY <1>1, <2>1, <3>1 DEF AccountsInv, AccountsTypeOK
  <2>5. Handed'
    BY <1>1, <1>2, <2>2, <2>3, JobTypes DEF AccountsInv, Handed
  <2>6. StatusIsEarned'
    BY <2>1 DEF AccountsInv, StatusIsEarned
  <2>7. QED
    BY <2>4, <2>5, <2>6 DEF AccountsInv
<1>3. CASE a \notin Readable
  <2>1. /\ job' = [job EXCEPT ![v] = NoJob]
        /\ status' = [status EXCEPT ![a] = "error"] /\ UNCHANGED known
    BY <1>3 DEF RunValidation
  <2>2. AccountsTypeOK'
    BY <1>1, <2>1, JobTypes DEF AccountsInv, AccountsTypeOK, Status
  <2>3. ASSUME NEW w \in Jobs PROVE job'[w] = IF w = v THEN NoJob ELSE job[w]
    BY <2>1 DEF AccountsInv, AccountsTypeOK
  <2>4. Handed'
    BY <2>3, JobTypes DEF AccountsInv, Handed
  <2>5. StatusIsEarned'
    BY <1>1, <1>3, <2>1 DEF AccountsInv, AccountsTypeOK, StatusIsEarned
  <2>6. QED
    BY <2>2, <2>4, <2>5 DEF AccountsInv
<1>4. QED
  BY <1>2, <1>3

\* A row is active only when its credentials were read.
LEMMA ValidatedKeeps ==
  ASSUME AccountsInv, NEW v \in Jobs, Validated(v)
  PROVE  AccountsInv'
<1> DEFINE a == job[v].row
<1>1. a \in Rows /\ a \in Readable
  BY DEF Validated, AccountsInv, AccountsTypeOK, Handed
<1>2. /\ job' = [job EXCEPT ![v] = NoJob]
      /\ status' = [status EXCEPT ![a] = "active"] /\ UNCHANGED <<known, cutOff>>
  BY DEF Validated
<1>3. AccountsTypeOK'
  BY <1>1, <1>2, JobTypes DEF AccountsInv, AccountsTypeOK, Status
<1>4. ASSUME NEW w \in Jobs PROVE job'[w] = IF w = v THEN NoJob ELSE job[w]
  BY <1>2 DEF AccountsInv, AccountsTypeOK
<1>5. Handed'
  BY <1>4, JobTypes DEF AccountsInv, Handed
<1>6. StatusIsEarned'
  BY <1>1, <1>2 DEF AccountsInv, AccountsTypeOK, StatusIsEarned
<1>7. QED
  BY <1>3, <1>5, <1>6 DEF AccountsInv

\* A restart cuts validations off and writes no status.
LEMMA RestartAccountsKeeps ==
  ASSUME AccountsInv, RestartAccounts
  PROVE  AccountsInv'
<1>1. /\ job' = [v \in Jobs |-> NoJob] /\ known' = {} /\ UNCHANGED status
      /\ cutOff' = cutOff \cup {job[v].row : v \in Jobs \ Idle}
  BY DEF RestartAccounts
<1>2. {job[v].row : v \in Jobs \ Idle} \subseteq Rows
  BY DEF AccountsInv, Handed, Idle
<1>3. AccountsTypeOK'
  BY <1>1, <1>2, JobTypes DEF AccountsInv, AccountsTypeOK
<1>4. Handed'
  BY <1>1, JobTypes DEF Handed
<1>5. StatusIsEarned'
  BY <1>1 DEF AccountsInv, StatusIsEarned
<1>6. QED
  BY <1>3, <1>4, <1>5 DEF AccountsInv

-----------------------------------------------------------------------------
(***************************************************************************)
(* Requests                                                                *)
(***************************************************************************)

\* How far a request is, told by its outcome: what its caller has been told,
\* how often the terminal ran it, and what the streams know.
Record ==
  \A r \in Requests :
    /\ runs[r] \in {0, 1}
    /\ effect[r] = "none" <=> runs[r] = 0
    /\ outcome[r] \in {"none", "unsent"} => runs[r] = 0
    /\ outcome[r] = "none" => reply[r] \in {"none", "no_account", "unknown_ref"}
    /\ outcome[r] = "open" => reply[r] = "none"
    /\ outcome[r] = "ok" => reply[r] \in {"ticket", "invented", "ok"}
    /\ outcome[r] = "unknown" => reply[r] \in Doubts
    /\ outcome[r] = "unsent" => reply[r] = "not_connected"
    /\ outcome[r] # "failed"

\* Of two requests of one intent, the first had failed when the second came.
Tries ==
  \A r, s \in Requests :
    r # s /\ Intent[r] = Intent[s] /\ Issued(r) /\ Issued(s)
      => reply[r] \in Refusals \cup Doubts \/ reply[s] \in Refusals \cup Doubts

TradeTypes ==
  /\ outcome \in [Requests -> {"none", "open", "ok", "failed", "unknown", "unsent"}]
  /\ runs \in [Requests -> Nat]
  /\ effect \in [Requests -> {"none", "done", "refused"}]
  /\ reply \in [Requests -> Replies]
  /\ told \in [Requests -> Nat]

TradeInv == TradeTypes /\ Record /\ TicketTells /\ Tries

\* At first nothing was requested.
LEMMA TradeInitInv == Init => TradeInv
<1> SUFFICES ASSUME Init PROVE TradeInv
  OBVIOUS
<1>1. /\ outcome = [r \in Requests |-> "none"] /\ runs = [r \in Requests |-> 0]
      /\ effect = [r \in Requests |-> "none"] /\ reply = [r \in Requests |-> "none"]
      /\ told = [r \in Requests |-> 0]
  BY DEF Init, Channel!Init
<1>2. TradeTypes
  BY <1>1 DEF TradeTypes, Replies
<1>3. Record /\ TicketTells
  BY <1>1 DEF Record, TicketTells
<1>4. Tries
  BY <1>1 DEF Tries, Issued
<1>5. QED
  BY <1>2, <1>3, <1>4 DEF TradeInv

\* Requests that were told something are told nothing else, and a request is
\* issued with the tries before it told that they failed: then Tries holds.
LEMMA TriesKept ==
  ASSUME TradeInv,
         \A r \in Requests : reply[r] # "none" => reply'[r] = reply[r],
         \A r \in Requests : Issued(r)' => Issued(r) \/ MayTry(r),
         \A r, s \in Requests : Issued(r)' /\ Issued(s)' /\ ~Issued(r) /\ ~Issued(s) => r = s
  PROVE  Tries'
<1> SUFFICES ASSUME NEW r \in Requests, NEW s \in Requests, r # s, Intent[r] = Intent[s],
                    Issued(r)', Issued(s)'
             PROVE  \/ reply'[r] \in Refusals \cup Doubts
                    \/ reply'[s] \in Refusals \cup Doubts
  BY DEF Tries
<1>1. \A x \in Refusals \cup Doubts : x # "none"
  BY DEF Refusals, Doubts
<1>2. \A q \in Requests : reply[q] \in Refusals \cup Doubts => reply'[q] = reply[q]
  BY <1>1
<1>3. CASE Issued(r) /\ Issued(s)
  BY <1>2, <1>3 DEF TradeInv, Tries
<1>4. CASE ~Issued(r)
  <2>1. MayTry(r) /\ Issued(s)
    BY <1>4
  <2>2. reply[s] \in Refusals \cup Doubts
    BY <2>1 DEF MayTry
  <2>3. QED
    BY <1>2, <2>2
<1>5. CASE ~Issued(s)
  <2>1. MayTry(s) /\ Issued(r)
    BY <1>5
  <2>2. reply[r] \in Refusals \cup Doubts
    BY <2>1 DEF MayTry
  <2>3. QED
    BY <1>2, <2>2
<1>6. QED
  BY <1>3, <1>4, <1>5

\* A request that is refused sends no command.
LEMMA RefuseKeeps ==
  ASSUME TradeInv, NEW r \in Requests, Refuse(r)
  PROVE  TradeInv'
<1>1. PICK x \in {"no_account", "unknown_ref"} : reply' = [reply EXCEPT ![r] = x]
  BY DEF Refuse
<1>2. /\ UNCHANGED <<outcome, runs, effect, told>>
      /\ outcome[r] = "none" /\ reply[r] = "none" /\ MayTry(r)
  BY DEF Refuse, MayTry, Issued
<1>3. \A q \in Requests : reply'[q] = IF q = r THEN x ELSE reply[q]
  BY <1>1 DEF TradeInv, TradeTypes
<1>4. TradeTypes'
  BY <1>1, <1>2 DEF TradeInv, TradeTypes, Replies, Refusals
<1>5. Record'
  BY <1>2, <1>3 DEF TradeInv, Record
<1>6. TicketTells'
  BY <1>2, <1>3 DEF TradeInv, TicketTells
<1>7. Tries'
  BY <1>2, <1>3, TriesKept DEF Issued
<1>8. QED
  BY <1>4, <1>5, <1>6, <1>7 DEF TradeInv

\* A request that is sent has neither run nor been answered.
LEMMA SendKeeps ==
  ASSUME TradeInv, NEW r \in Requests, Send(r)
  PROVE  TradeInv'
<1>1. /\ outcome' = [outcome EXCEPT ![r] = "open"] /\ UNCHANGED <<runs, effect, reply, told>>
      /\ outcome[r] = "none" /\ reply[r] = "none" /\ MayTry(r)
  BY DEF Send, MayTry, Issued, Channel!Begin
<1>2. \A q \in Requests : outcome'[q] = IF q = r THEN "open" ELSE outcome[q]
  BY <1>1 DEF TradeInv, TradeTypes
<1>3. TradeTypes'
  BY <1>1 DEF TradeInv, TradeTypes
<1>4. Record'
  BY <1>1, <1>2 DEF TradeInv, Record
<1>5. TicketTells'
  BY <1>1 DEF TradeInv, TicketTells
<1>6. Tries'
  BY <1>1, <1>2, TriesKept DEF Issued
<1>7. QED
  BY <1>3, <1>4, <1>5, <1>6 DEF TradeInv

\* An answer comes from a handler that ran, and says of an order what the
\* broker made of it.
LEMMA AnsweredKeeps ==
  ASSUME TradeInv, NEW r \in Requests, Answered(r)
  PROVE  TradeInv'
<1>1. /\ outcome' = [outcome EXCEPT ![r] = "ok"] /\ UNCHANGED <<runs, effect>>
      /\ outcome[r] = "open" /\ runs[r] = 1 /\ reply[r] = "none"
      /\ effect[r] \in {"done", "refused"} /\ told[r] = 0
  BY DEF Answered, Channel!Answer, TradeInv, Record, TradeTypes, TicketTells
<1>2. PICK x \in {"ticket", "invented", "ok"} :
        /\ reply' = [reply EXCEPT ![r] = x]
        /\ x = "ticket" => effect[r] = "done"
        /\ x = "invented" => effect[r] = "refused"
        /\ told' = [told EXCEPT ![r] = IF x = "ok" THEN 0 ELSE 1]
  <2>1. CASE Kind[r] \in Deals
    <3>1. /\ reply' = [reply EXCEPT ![r] = IF effect[r] = "done" THEN "ticket" ELSE "invented"]
          /\ told' = [told EXCEPT ![r] = @ + 1]
      BY <2>1 DEF Answered
    <3>2. told' = [told EXCEPT ![r] = 1]
      BY <1>1, <3>1
    <3>3. QED
      BY <1>1, <3>1, <3>2
  <2>2. CASE Kind[r] \notin Deals
    <3>1. reply' = [reply EXCEPT ![r] = "ok"] /\ told' = told
      BY <2>2 DEF Answered
    <3>2. told' = [told EXCEPT ![r] = 0]
      BY <1>1, <3>1 DEF TradeInv, TradeTypes
    <3>3. QED
      BY <3>1, <3>2
  <2>3. QED
    BY <2>1, <2>2
<1>3. /\ \A q \in Requests : outcome'[q] = IF q = r THEN "ok" ELSE outcome[q]
      /\ \A q \in Requests : reply'[q] = IF q = r THEN x ELSE reply[q]
      /\ \A q \in Requests : told'[q] = IF q = r THEN IF x = "ok" THEN 0 ELSE 1 ELSE told[q]
  BY <1>1, <1>2 DEF TradeInv, TradeTypes
<1>4. TradeTypes'
  BY <1>1, <1>2 DEF TradeInv, TradeTypes, Replies
<1>5. Record'
  BY <1>1, <1>3 DEF TradeInv, Record
<1>6. TicketTells'
  BY <1>1, <1>2, <1>3 DEF TradeInv, TicketTells
<1>7. Tries'
  BY <1>1, <1>3, TriesKept DEF Issued
<1>8. QED
  BY <1>4, <1>5, <1>6, <1>7 DEF TradeInv

\* A call that is given up: by its timer, with its connection or by a restart.
LEMMA GivenUpKeeps ==
  ASSUME TradeInv, NEW S \in SUBSET Requests, NEW x \in Doubts,
         Channel!GiveUp(S),
         reply' = [r \in Requests |-> IF r \in S THEN x ELSE reply[r]],
         UNCHANGED <<effect, told>>
  PROVE  TradeInv'
<1>1. /\ outcome' = [r \in Requests |-> IF r \in S THEN "unknown" ELSE outcome[r]]
      /\ \A r \in S : outcome[r] = "open" /\ reply[r] = "none"
      /\ runs' = runs
  BY DEF Channel!GiveUp, TradeInv, Record
<1>2. TradeTypes'
  BY <1>1 DEF TradeInv, TradeTypes, Replies, Doubts
<1>3. Record'
  BY <1>1 DEF TradeInv, Record
<1>4. TicketTells'
  BY <1>1 DEF TradeInv, TicketTells, Doubts
<1>5. Tries'
  BY <1>1, TriesKept DEF Issued
<1>6. QED
  BY <1>2, <1>3, <1>4, <1>5 DEF TradeInv

\* A request whose command was never written has not run.
LEMMA NotConnectedKeeps ==
  ASSUME TradeInv, NEW r \in Requests, NotConnected(r)
  PROVE  TradeInv'
<1>1. /\ outcome' = [outcome EXCEPT ![r] = "unsent"]
      /\ reply' = [reply EXCEPT ![r] = "not_connected"]
      /\ UNCHANGED <<runs, effect, told>>
      /\ outcome[r] = "open" /\ runs[r] = 0 /\ reply[r] = "none"
  BY DEF NotConnected, Channel!Withdraw, TradeInv, Record
<1>2. /\ \A q \in Requests : outcome'[q] = IF q = r THEN "unsent" ELSE outcome[q]
      /\ \A q \in Requests : reply'[q] = IF q = r THEN "not_connected" ELSE reply[q]
  BY <1>1 DEF TradeInv, TradeTypes
<1>3. TradeTypes'
  BY <1>1 DEF TradeInv, TradeTypes, Replies, Refusals
<1>4. Record'
  BY <1>1, <1>2 DEF TradeInv, Record
<1>5. TicketTells'
  BY <1>1, <1>2 DEF TradeInv, TicketTells
<1>6. Tries'
  BY <1>1, <1>2, TriesKept DEF Issued
<1>7. QED
  BY <1>3, <1>4, <1>5, <1>6 DEF TradeInv

\* The terminal handles a command once, also one whose caller has given up.
LEMMA HandleKeeps ==
  ASSUME TradeInv, NEW r \in Requests, Handle(r)
  PROVE  TradeInv'
<1>1. PICK e \in {"done", "refused"} : effect' = [effect EXCEPT ![r] = e]
  BY DEF Handle
<1>2. /\ runs' = [runs EXCEPT ![r] = 1] /\ UNCHANGED <<outcome, reply, told>>
      /\ outcome[r] \in {"open", "unknown"} /\ runs[r] = 0
  BY DEF Handle, Channel!Perform
<1>3. /\ \A q \in Requests : runs'[q] = IF q = r THEN 1 ELSE runs[q]
      /\ \A q \in Requests : effect'[q] = IF q = r THEN e ELSE effect[q]
  BY <1>1, <1>2 DEF TradeInv, TradeTypes
<1>4. TradeTypes'
  BY <1>1, <1>2 DEF TradeInv, TradeTypes
<1>5. Record'
  BY <1>2, <1>3 DEF TradeInv, Record
<1>6. TicketTells'
  BY <1>2, <1>3 DEF TradeInv, Record, TicketTells, Doubts
<1>7. Tries'
  BY <1>2, TriesKept DEF Issued
<1>8. QED
  BY <1>4, <1>5, <1>6, <1>7 DEF TradeInv

-----------------------------------------------------------------------------
(***************************************************************************)
(* The invariant and what follows from it                                  *)
(***************************************************************************)

TradingInv == AccountsInv /\ TradeInv

\* Every step of the accounts keeps what the table promises.
LEMMA AccountsStep ==
  ASSUME AccountsInv, AccountsNext
  PROVE  AccountsInv'
<1>1. ASSUME NEW a \in Rows, Provision(a) \/ Disable(a) PROVE AccountsInv'
  BY <1>1, OwnerKeeps
<1>2. ASSUME NEW v \in Jobs, SyncNewest(v) PROVE AccountsInv'
  BY <1>2, SyncNewestKeeps
<1>3. ASSUME NEW v \in Jobs, RunValidation(v) PROVE AccountsInv'
  BY <1>3, RunValidationKeeps
<1>4. ASSUME NEW v \in Jobs, Validated(v) PROVE AccountsInv'
  BY <1>4, ValidatedKeeps
<1>5. CASE SyncAll
  BY <1>5, SyncAllKeeps
<1>6. QED
  BY <1>1, <1>2, <1>3, <1>4, <1>5 DEF AccountsNext

\* What concerns requests leaves the accounts alone.
LEMMA AccountsStutter ==
  ASSUME AccountsInv, UNCHANGED accountVars
  PROVE  AccountsInv'
BY DEF AccountsInv, AccountsTypeOK, Handed, StatusIsEarned, accountVars

\* What concerns accounts leaves the requests alone.
LEMMA TradeStutter ==
  ASSUME TradeInv, UNCHANGED tradeVars
  PROVE  TradeInv'
BY DEF TradeInv, TradeTypes, Record, TicketTells, Tries, Issued, tradeVars

\* Every step of routes, accounts and terminal keeps both invariants.
LEMMA TradingStep ==
  ASSUME TradingInv, [Next]_vars
  PROVE  TradingInv'
<1> USE DEF TradingInv
<1>1. CASE AccountsNext /\ UNCHANGED tradeVars
  BY <1>1, AccountsStep, TradeStutter
<1>2. ASSUME NEW r \in Requests, Refuse(r) PROVE TradingInv'
  <2>1. UNCHANGED accountVars
    BY <1>2 DEF Refuse
  <2>2. QED
    BY <1>2, <2>1, RefuseKeeps, AccountsStutter
<1>3. ASSUME NEW r \in Requests, Send(r) PROVE TradingInv'
  <2>1. UNCHANGED accountVars
    BY <1>3 DEF Send
  <2>2. QED
    BY <1>3, <2>1, SendKeeps, AccountsStutter
<1>4. ASSUME NEW r \in Requests, Answered(r) PROVE TradingInv'
  <2>1. UNCHANGED accountVars
    BY <1>4 DEF Answered
  <2>2. QED
    BY <1>4, <2>1, AnsweredKeeps, AccountsStutter
<1>5. ASSUME NEW r \in Requests, NotConnected(r) PROVE TradingInv'
  <2>1. UNCHANGED accountVars
    BY <1>5 DEF NotConnected
  <2>2. QED
    BY <1>5, <2>1, NotConnectedKeeps, AccountsStutter
<1>6. ASSUME NEW r \in Requests, Handle(r) PROVE TradingInv'
  <2>1. UNCHANGED accountVars
    BY <1>6 DEF Handle
  <2>2. QED
    BY <1>6, <2>1, HandleKeeps, AccountsStutter
<1>7. ASSUME NEW S \in SUBSET Requests, Failed(S) PROVE TradingInv'
  <2>1. /\ UNCHANGED accountVars /\ Channel!GiveUp(S) /\ UNCHANGED <<effect, told>>
        /\ reply' = [r \in Requests |-> IF r \in S THEN "failed" ELSE reply[r]]
    BY <1>7 DEF Failed
  <2>2. "failed" \in Doubts
    BY DEF Doubts
  <2>3. TradeInv'
    BY <2>1, <2>2, GivenUpKeeps
  <2>4. QED
    BY <2>1, <2>3, AccountsStutter
<1>8. CASE Restart
  <2> DEFINE S == {r \in Requests : outcome[r] = "open"}
  <2>1. /\ RestartAccounts /\ Channel!GiveUp(S) /\ UNCHANGED <<effect, told>>
        /\ reply' = [r \in Requests |-> IF r \in S THEN "cut" ELSE reply[r]]
    BY <1>8 DEF Restart
  <2>2. "cut" \in Doubts /\ S \in SUBSET Requests
    BY DEF Doubts
  <2> HIDE DEF S
  <2>3. TradeInv'
    BY <2>1, <2>2, GivenUpKeeps
  <2>4. QED
    BY <2>1, <2>3, RestartAccountsKeeps
<1>9. CASE UNCHANGED vars
  BY <1>9, AccountsStutter, TradeStutter DEF vars
<1>10. QED
  BY <1>1, <1>2, <1>3, <1>4, <1>5, <1>6, <1>7, <1>8, <1>9 DEF Next

\* Both invariants hold whatever callers, owner and terminal do.
THEOREM TradingAlways == Spec => []TradingInv
<1>1. Init => TradingInv
  BY AccountsInitInv, TradeInitInv DEF Init, TradingInv
<1>2. TradingInv /\ [Next]_vars => TradingInv'
  BY TradingStep
<1>3. QED
  BY <1>1, <1>2, PTL DEF Spec

\* Every variable of the accounts table and of the requests keeps its type,
\* whatever syncs, validations, answers and restarts come between.
THEOREM TradingTypes == Spec => []TypeOK
<1>1. TradingInv => TypeOK
  BY DEF TradingInv, AccountsInv, TradeInv, TradeTypes, TypeOK
<1>2. QED
  BY <1>1, TradingAlways, PTL

\* runValidation(): the status that overlapping validations leave on a row is
\* what decrypt() makes of its credentials.
THEOREM StatusTruth == Spec => []StatusIsEarned
<1>1. TradingInv => StatusIsEarned
  BY DEF TradingInv, AccountsInv
<1>2. QED
  BY <1>1, TradingAlways, PTL

\* A request the routes refuse, or the connector cannot send, is never handled
\* by the terminal: its caller may try again.
THEOREM RefusalsAreFinal == Spec => []RefusalIsFinal
<1>1. ASSUME TradingInv PROVE RefusalIsFinal
  <2>1. SUFFICES ASSUME NEW r \in Requests, reply[r] \in Refusals
                 PROVE  runs[r] = 0
    BY <1>1 DEF TradingInv, TradeInv, Record, RefusalIsFinal
  <2>2. outcome[r] \in {"none", "unsent"}
    BY <1>1, <2>1 DEF TradingInv, TradeInv, TradeTypes, Record, Refusals, Doubts
  <2>3. QED
    BY <1>1, <2>2 DEF TradingInv, TradeInv, Record
<1>2. QED
  BY <1>1, TradingAlways, PTL

\* openTrade(), closeTrade(): a number the broker gave means a deal, one made up
\* here means none, and the streams hear of both, once.
THEOREM TicketsTell == Spec => []TicketTells
<1>1. TradingInv => TicketTells
  BY DEF TradingInv, TradeInv
<1>2. QED
  BY <1>1, TradingAlways, PTL

\* The routes have no key that would tell a second try from a new request, so
\* an intent may be done twice; never after an answer that was sure.
THEOREM OnceUnlessInDoubt == Spec => []TwiceOnlyInDoubt
<1>1. ASSUME TradingInv PROVE TwiceOnlyInDoubt
  <2>1. SUFFICES ASSUME NEW r \in Requests, NEW s \in Requests, r # s,
                        Intent[r] = Intent[s], effect[r] = "done", effect[s] = "done"
                 PROVE  reply[r] \in Doubts \/ reply[s] \in Doubts
    BY DEF TwiceOnlyInDoubt
  <2>2. ASSUME NEW q \in Requests, effect[q] = "done"
        PROVE  Issued(q) /\ reply[q] \notin Refusals
    <3>1. runs[q] = 1
      BY <1>1, <2>2 DEF TradingInv, TradeInv, Record
    <3>2. outcome[q] \notin {"none", "unsent"}
      BY <1>1, <3>1 DEF TradingInv, TradeInv, Record
    <3>3. QED
      BY <1>1, <3>2 DEF TradingInv, TradeInv, TradeTypes, Record, Issued, Refusals, Doubts
  <2>3. QED
    BY <1>1, <2>1, <2>2 DEF TradingInv, TradeInv, Tries
<1>2. QED
  BY <1>1, TradingAlways, PTL

\* updateStatus() of a validation brings a disabled row back only if the row was
\* enabled when a sync handed it over, or the sync was /v1/sync.
THEOREM RevivalIsOld == Spec => Revival
<1> DEFINE Decided == \A a \in Rows :
             status[a] = "disabled" /\ status'[a] # "disabled"
               => \E v \in Jobs : job[v].row = a /\ job'[v] = NoJob /\ ~job[v].blind
<1>1. TradingInv /\ [Next]_vars => [Decided]_accountVars
  <2> SUFFICES ASSUME TradingInv, [Next]_vars PROVE [Decided]_accountVars
    OBVIOUS
  <2>1. CASE UNCHANGED accountVars
    BY <2>1
  <2>2. SUFFICES ASSUME ~UNCHANGED accountVars,
                        NEW a \in Rows, status[a] = "disabled", status'[a] # "disabled"
                 PROVE  \E v \in Jobs : /\ job[v].row = a
                                        /\ job'[v] = NoJob /\ ~job[v].blind
    BY <2>1
  <2>3. AccountsNext
    <3>1. AccountsNext \/ Restart \/ UNCHANGED accountVars
      BY DEF Next, Refuse, Send, Answered, NotConnected, Handle, Failed, vars
    <3>2. ~Restart
      BY <2>2 DEF Restart, RestartAccounts
    <3>3. QED
      BY <2>2, <3>1, <3>2
  <2>4. \A b \in Rows : ~Provision(b)
    <3>1. SUFFICES ASSUME NEW b \in Rows, Provision(b) PROVE FALSE
      OBVIOUS
    <3>2. status' = [status EXCEPT ![b] = "pending_validation"] /\ status[b] = "absent"
      BY <3>1 DEF Provision
    <3>3. QED
      BY <2>2, <3>2
  <2>5. \A b \in Rows : ~Disable(b)
    <3>1. SUFFICES ASSUME NEW b \in Rows, Disable(b) PROVE FALSE
      OBVIOUS
    <3>2. status' = [status EXCEPT ![b] = "disabled"]
      BY <3>1 DEF Disable
    <3>3. QED
      BY <2>2, <3>2 DEF TradingInv, AccountsInv, AccountsTypeOK
  <2>6. PICK v \in Jobs : RunValidation(v) \/ Validated(v)
    BY <2>2, <2>3, <2>4, <2>5 DEF AccountsNext, SyncNewest, SyncAll
  <2>7. /\ job' = [job EXCEPT ![v] = NoJob]
        /\ job[v].row = a
    <3>1. CASE Validated(v)
      <4>1. /\ job' = [job EXCEPT ![v] = NoJob]
            /\ status' = [status EXCEPT ![job[v].row] = "active"]
        BY <3>1 DEF Validated
      <4>2. QED
        BY <2>2, <4>1
    <3>2. CASE RunValidation(v)
      <4>1. /\ job' = [job EXCEPT ![v] = NoJob]
            /\ status' = [status EXCEPT ![job[v].row] = "error"]
        BY <2>2, <3>2 DEF RunValidation
      <4>2. QED
        BY <2>2, <4>1
    <3>3. QED
      BY <2>6, <3>1, <3>2
  <2>8. job'[v] = NoJob /\ ~job[v].blind
    BY <2>7 DEF TradingInv, AccountsInv, AccountsTypeOK, Handed
  <2>9. QED
    BY <2>7, <2>8
<1>2. QED
  BY <1>1, TradingAlways, PTL DEF Spec, Revival

-----------------------------------------------------------------------------
(***************************************************************************)
(* The contract of the command channel                                     *)
(***************************************************************************)

\* What the routes do with a call is what the contract allows its caller, also
\* over a restart, which gives up every call at once.
THEOREM TradingKeepsContract == Spec => Channel!Spec
<1>1. Init => Channel!Init
  BY DEF Init
<1>2. [Next]_vars => [Channel!Next]_(Channel!callVars)
  <2> USE DEF Channel!callVars
  <2>1. CASE AccountsNext /\ UNCHANGED tradeVars
    BY <2>1 DEF tradeVars
  <2>2. ASSUME NEW r \in Requests,
               Refuse(r) \/ Send(r) \/ Answered(r) \/ NotConnected(r) \/ Handle(r)
        PROVE  [Channel!Next]_(Channel!callVars)
    <3>1. \/ UNCHANGED <<outcome, runs>>
          \/ Channel!Begin(r) \/ Channel!Answer(r) \/ Channel!Withdraw(r) \/ Channel!Perform(r)
      BY <2>2 DEF Refuse, Send, Answered, NotConnected, Handle
    <3>2. QED
      BY <3>1 DEF Channel!Next
  <2>3. ASSUME NEW S \in SUBSET Requests, Failed(S) PROVE Channel!Next
    BY <2>3 DEF Failed, Channel!Next
  <2>4. CASE Restart
    <3> DEFINE S == {r \in Requests : outcome[r] = "open"}
    <3>1. S \in SUBSET Requests /\ Channel!GiveUp(S)
      BY <2>4 DEF Restart
    <3> HIDE DEF S
    <3>2. QED
      BY <3>1 DEF Channel!Next
  <2>5. CASE UNCHANGED vars
    BY <2>5 DEF vars, tradeVars
  <2>6. QED
    BY <2>1, <2>2, <2>3, <2>4, <2>5 DEF Next
<1>3. QED
  BY <1>1, <1>2, PTL DEF Spec, Channel!Spec

-----------------------------------------------------------------------------
(***************************************************************************)
(* Every request is answered                                               *)
(***************************************************************************)

\* The weak fairness that FairSpec asks of dispatchCommand(), with its guard in
\* the place of ENABLED: a call that stays open is given up by its timer.
CallEnds(r) == []<>~(outcome[r] = "open") \/ []<><<Failed({r})>>_vars

CallsEnd == \A r \in Requests : CallEnds(r)

\* A request whose command is open stays so until it has its reply.
LEMMA OpenCallStep ==
  ASSUME TradingInv, [Next]_vars, NEW r \in Requests, outcome[r] = "open"
  PROVE  outcome'[r] = "open" \/ reply'[r] # "none"
<1>1. outcome'[r] \in {"open", "ok", "unknown", "unsent"}
  <2>1. outcome \in [Requests -> {"none", "open", "ok", "failed", "unknown", "unsent"}]
    BY DEF TradingInv, TradeInv, TradeTypes
  <2>2. CASE UNCHANGED outcome
    BY <2>2
  <2>3. ASSUME NEW s \in Requests, Send(s) \/ Answered(s) \/ NotConnected(s)
        PROVE  outcome'[r] \in {"open", "ok", "unknown", "unsent"}
    BY <2>1, <2>3 DEF Send, Answered, NotConnected, Channel!Begin, Channel!Answer, Channel!Withdraw
  <2>4. ASSUME NEW S \in SUBSET Requests, Channel!GiveUp(S)
        PROVE  outcome'[r] \in {"open", "ok", "unknown", "unsent"}
    BY <2>4 DEF Channel!GiveUp
  <2>5. \A s \in Requests : Refuse(s) \/ Handle(s) => UNCHANGED outcome
    BY DEF Refuse, Handle, Channel!Perform
  <2>6. Restart => Channel!GiveUp({s \in Requests : outcome[s] = "open"})
    BY DEF Restart
  <2>7. QED
    BY <2>2, <2>3, <2>4, <2>5, <2>6 DEF Next, Failed, vars, tradeVars
<1>2. TradingInv'
  BY TradingStep
<1>3. QED
  BY <1>1, <1>2 DEF TradingInv, TradeInv, Record, Doubts

\* The timer of one command, from sending to the reply.
LEMMA CallIsAnswered ==
  ASSUME NEW r \in Requests
  PROVE  Spec /\ CallEnds(r) => (outcome[r] = "open" ~> reply[r] # "none")
<1>1. TradingInv /\ [Next]_vars
        => (outcome[r] = "open" => (outcome[r] = "open")' \/ (reply[r] # "none")')
  BY OpenCallStep
<1>2. TradingInv /\ <<Failed({r})>>_vars => (reply[r] # "none")'
  BY DEF Failed
<1>3. QED
  BY <1>1, <1>2, TradingAlways, PTL DEF Spec, CallEnds

\* The caller of a route gets an answer, or a restart cuts it off: whatever the
\* terminal does, and whether it is there at all.
THEOREM RequestsAreAnswered == Spec /\ CallsEnd => EveryRequestAnswered
<1> SUFFICES ASSUME Spec, CallsEnd, NEW r \in Requests
             PROVE  outcome[r] = "open" ~> reply[r] # "none"
  BY DEF EveryRequestAnswered
<1>1. CallEnds(r)
  BY DEF CallsEnd
<1>2. QED
  BY <1>1, CallIsAnswered

-----------------------------------------------------------------------------
(***************************************************************************)
(* Every sync decides                                                      *)
(***************************************************************************)

\* The weak fairness that FairSpec asks of a validation: one that is handed a
\* row reads its credentials, and one that waits for a login stops waiting.
JobGoesOn(v) ==
  /\ \/ []<>~(job[v].stage = "queued")
     \/ []<><<RunValidation(v) /\ UNCHANGED tradeVars>>_vars
  /\ \/ []<>~(job[v].stage = "connecting")
     \/ []<><<Validated(v) /\ UNCHANGED tradeVars>>_vars

JobsGoOn == \A v \in Jobs : JobGoesOn(v)

Has(v, a, stage) == job[v].row = a /\ job[v].stage = stage
Decided(a) == status[a] \in {"active", "error"} \/ a \in cutOff

\* A validation leaves its row only with the status written, or cut off; no
\* other sync, validation or owner takes the row from it.
LEMMA JobStep ==
  ASSUME TradingInv, [Next]_vars, NEW a \in Rows, NEW v \in Jobs
  PROVE  /\ Has(v, a, "queued") => Has(v, a, "queued")' \/ Has(v, a, "connecting")' \/ Decided(a)'
         /\ Has(v, a, "connecting") => Has(v, a, "connecting")' \/ Decided(a)'
<1> SUFFICES ASSUME job[v].row = a, job[v].stage \in {"queued", "connecting"}
             PROVE  \/ UNCHANGED job[v]
                    \/ Has(v, a, "queued") /\ Has(v, a, "connecting")'
                    \/ Decided(a)'
  BY DEF Has
<1>0. /\ v \notin Idle /\ status \in [Rows -> Status] /\ job \in [Jobs -> Job]
  BY DEF Idle, TradingInv, AccountsInv, AccountsTypeOK
<1>1. CASE UNCHANGED job
  BY <1>1
<1>2. ASSUME NEW w \in Jobs, SyncNewest(w) PROVE UNCHANGED job[v]
  BY <1>0, <1>2 DEF SyncNewest
<1>3. CASE SyncAll
  <2>1. PICK worker \in [Enabled -> Idle] :
          job' = [w \in Jobs |-> IF \E b \in Enabled : worker[b] = w
                                 THEN Queued(CHOOSE b \in Enabled : worker[b] = w, TRUE)
                                 ELSE job[w]]
    BY <1>3 DEF SyncAll
  <2>2. ~\E b \in Enabled : worker[b] = v
    BY <1>0
  <2>3. QED
    BY <2>1, <2>2
<1>4. ASSUME NEW w \in Jobs, w # v, RunValidation(w) \/ Validated(w) PROVE UNCHANGED job[v]
  BY <1>0, <1>4 DEF RunValidation, Validated
<1>5. CASE RunValidation(v)
  <2>1. CASE a \in Readable
    <3>1. job' = [job EXCEPT ![v].stage = "connecting"] /\ job[v].stage = "queued"
      BY <1>5, <2>1 DEF RunValidation
    <3>2. job'[v].stage = "connecting" /\ job'[v].row = a
      BY <1>0, <3>1 DEF Job
    <3>3. QED
      BY <3>1, <3>2 DEF Has
  <2>2. CASE a \notin Readable
    <3>1. status' = [status EXCEPT ![a] = "error"]
      BY <1>5, <2>2 DEF RunValidation
    <3>2. QED
      BY <1>0, <3>1 DEF Decided
  <2>3. QED
    BY <2>1, <2>2
<1>6. CASE Validated(v)
  BY <1>0, <1>6 DEF Validated, Decided
<1>7. CASE Restart
  BY <1>0, <1>7 DEF Restart, RestartAccounts, Decided
<1>8. AccountsNext \/ Restart \/ UNCHANGED job
  BY DEF Next, Refuse, Send, Answered, NotConnected, Handle, Failed, vars, accountVars
<1>9. QED
  BY <1>1, <1>2, <1>3, <1>4, <1>5, <1>6, <1>7, <1>8 DEF AccountsNext, Provision, Disable

\* One validation, from the row it is handed to the status it writes.
LEMMA JobDecides ==
  ASSUME NEW a \in Rows, NEW v \in Jobs
  PROVE  Spec /\ JobGoesOn(v)
         => (job[v].row = a ~> status[a] \in {"active", "error"} \/ a \in cutOff)
<1>1. TradingInv /\ [Next]_vars
        => /\ Has(v, a, "queued")
                => Has(v, a, "queued")' \/ Has(v, a, "connecting")' \/ Decided(a)'
           /\ Has(v, a, "connecting") => Has(v, a, "connecting")' \/ Decided(a)'
  BY JobStep
<1>2. /\ TradingInv /\ job[v].row = a => Has(v, a, "queued") \/ Has(v, a, "connecting")
      /\ Has(v, a, "queued") => job[v].stage = "queued"
      /\ Has(v, a, "connecting") => job[v].stage = "connecting"
      /\ status[a] \in {"active", "error"} \/ a \in cutOff <=> Decided(a)
  <2>1. TradingInv /\ job[v].row = a => Has(v, a, "queued") \/ Has(v, a, "connecting")
    <3>1. a # 0
      BY AccountsAssumption
    <3>2. QED
      BY <3>1, JobTypes DEF TradingInv, AccountsInv, AccountsTypeOK, Handed, Has
  <2>2. QED
    BY <2>1 DEF Has, Decided
<1>3. TradingInv /\ Has(v, a, "queued") /\ <<RunValidation(v) /\ UNCHANGED tradeVars>>_vars
        => ~Has(v, a, "queued")'
  BY JobTypes DEF RunValidation, Has, TradingInv, AccountsInv, AccountsTypeOK, Job
<1>4. TradingInv /\ Has(v, a, "connecting") /\ <<Validated(v) /\ UNCHANGED tradeVars>>_vars
        => ~Has(v, a, "connecting")'
  BY JobTypes DEF Validated, Has, TradingInv, AccountsInv, AccountsTypeOK
<1>5. QED
  BY <1>1, <1>2, <1>3, <1>4, TradingAlways, PTL DEF Spec, JobGoesOn

\* Every row that a sync hands to a validation is decided, unless the slot dies:
\* overlapping syncs, other validations and the owner cannot keep it undecided.
THEOREM SyncsDecide == Spec /\ JobsGoOn => SyncDecides
<1> SUFFICES ASSUME Spec, JobsGoOn, NEW a \in Rows, NEW v \in Jobs
             PROVE  job[v].row = a ~> status[a] \in {"active", "error"} \/ a \in cutOff
  BY DEF SyncDecides
<1>1. JobGoesOn(v)
  BY DEF JobsGoOn
<1>2. QED
  BY <1>1, JobDecides
=============================================================================
