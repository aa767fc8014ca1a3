----------------------------- MODULE LoginState -----------------------------
(***************************************************************************)
(* Who a slot believes is logged in: the login detector, which polls the   *)
(* title of the terminal's window with wmctrl; the Python publisher, which *)
(* asks the terminal itself; the resolution of a broker login to a row of  *)
(* the accounts table; and the records of Mt5Connector, which /v1/state    *)
(* and every stream report.  The database and the state file survive a     *)
(* restart of the slot, the records and the detector's memory do not.      *)
(*                                                                         *)
(* wmctrl is a child process, so polls overlap and may end in an order     *)
(* other than the one they read the title in.  The onTransition callback   *)
(* of app.ts only logs: what follows its await is in the same turn.        *)
(***************************************************************************)
EXTENDS Naturals, Sequences

CONSTANTS
  Accounts,    \* broker logins
  NoLogin,     \* an event, or a window, that names none
  Out,         \* the terminal shows its login dialog
  Polls        \* how many polls can be under way at once

ASSUME LoginAssumption ==
  /\ NoLogin \notin Accounts
  /\ Out \notin Accounts \cup {NoLogin}

VARIABLES
  window,      \* the account the terminal is logged in to, or Out
  rows,        \* the enabled rows of the accounts table, oldest first
  known,       \* the accounts Mt5Connector has a record of
  loggedIn,    \* rec.loggedIn
  feed,        \* the last account event a stream was given: a login or not
  prev,        \* prev of the detector
  force,       \* forcePublish
  poll,        \* poll[t]: where poll t stands
  title,       \* title[t]: the account the title poll t read shows, while it ended
  file,        \* /var/lib/akron-slot/state
  unsaved,     \* history: the last write of the state file failed
  publisher,   \* whether the Python publisher runs
  reported     \* what it last reported

detectorVars == <<prev, force, poll, title, file, unsaved>>
recordVars == <<known, loggedIn, feed>>
vars == <<window, rows, recordVars, detectorVars, publisher, reported>>

Titles == Accounts \cup {NoLogin, Out}

TypeOK ==
  /\ window \in Accounts \cup {Out}
  /\ rows \in Seq(Accounts)
  /\ known \in SUBSET Accounts
  /\ loggedIn \in [Accounts -> BOOLEAN]
  /\ feed \in [Accounts -> BOOLEAN]
  /\ prev \in {"unknown", "logged_out", "logged_in"}
  /\ force \in BOOLEAN
  /\ poll \in [Polls -> {"idle", "running", "ended"}]
  /\ title \in [Polls -> Titles]
  /\ file \in {"pending_login", "operational"}
  /\ unsaved \in BOOLEAN
  /\ publisher \in BOOLEAN
  /\ reported \in Titles

\* A slot that has never run.
Init ==
  /\ window \in Accounts \cup {Out}
  /\ rows = <<>>
  /\ known = {}
  /\ loggedIn = [a \in Accounts |-> FALSE]
  /\ feed = [a \in Accounts |-> FALSE]
  /\ prev = "unknown"
  /\ force = FALSE
  /\ poll = [t \in Polls |-> "idle"]
  /\ title = [t \in Polls |-> Out]
  /\ file = "pending_login"
  /\ unsaved = FALSE
  /\ publisher \in BOOLEAN
  /\ reported = NoLogin

-----------------------------------------------------------------------------
(***************************************************************************)
(* Events                                                                  *)
(***************************************************************************)

\* resolveAccount(): the row of that login, else the oldest row; none if the
\* table has none.
Resolve(login) ==
  IF \E i \in 1..Len(rows) : rows[i] = login THEN {login}
  ELSE IF rows = <<>> THEN {} ELSE {rows[1]}

\* Mt5TcpServer.handleEvent() and the connector's, for an account event: an
\* account without a record is not entered, but its streams are told.
AccountEvent(in, login) ==
  LET To == Resolve(login) IN
  /\ loggedIn' = [a \in Accounts |-> IF a \in To \cap known THEN in ELSE loggedIn[a]]
  /\ feed' = [a \in Accounts |-> IF a \in To THEN in ELSE feed[a]]

-----------------------------------------------------------------------------
(***************************************************************************)
(* The terminal and the table                                              *)
(***************************************************************************)

\* The user logs in, out, or in to another account.
UserActs ==
  /\ window' \in (Accounts \cup {Out}) \ {window}
  /\ UNCHANGED <<rows, recordVars, detectorVars, publisher, reported>>

\* An account is provisioned.
Provision(a) ==
  /\ ~\E i \in 1..Len(rows) : rows[i] = a
  /\ rows' = Append(rows, a)
  /\ UNCHANGED <<window, recordVars, detectorVars, publisher, reported>>

\* Deviation: every sync enters a fresh record and forgets the refresh.
ConnectUnrefreshed(a) ==
  /\ \E i \in 1..Len(rows) : rows[i] = a
  /\ known' = known \cup {a}
  /\ feed' = [feed EXCEPT ![a] = TRUE]
  /\ UNCHANGED <<window, rows, loggedIn, detectorVars, publisher, reported>>

\* connect(), by way of a sync: a record is entered unless there is one, the
\* detector is to publish again, and the streams are told of a login that
\* may not have happened.  refresh() also runs a poll, which is a poll like
\* those of the interval.
Connect(a) ==
  /\ \E i \in 1..Len(rows) : rows[i] = a
  /\ known' = known \cup {a}
  /\ force' = TRUE
  /\ feed' = [feed EXCEPT ![a] = TRUE]
  /\ UNCHANGED <<window, rows, loggedIn, prev, poll, title, file, unsaved, publisher, reported>>

-----------------------------------------------------------------------------
(***************************************************************************)
(* The detector and the publisher                                          *)
(***************************************************************************)

\* tick() starts wmctrl.
StartPoll(t) ==
  /\ poll[t] = "idle"
  /\ poll' = [poll EXCEPT ![t] = "running"]
  /\ UNCHANGED <<window, rows, recordVars, prev, force, title, file, unsaved, publisher, reported>>

\* wmctrl reads the title, which need not show the account, or fails, which
\* probeLogin() takes for the login dialog.
ReadTitle(t) ==
  /\ poll[t] = "running"
  /\ poll' = [poll EXCEPT ![t] = "ended"]
  /\ \E shown \in {window, Out} \cup (IF window = Out THEN {} ELSE {NoLogin}) :
       title' = [title EXCEPT ![t] = shown]
  /\ UNCHANGED <<window, rows, recordVars, prev, force, file, unsaved, publisher, reported>>

\* Poll t is over.
Done(t) ==
  /\ poll' = [poll EXCEPT ![t] = "idle"]
  /\ title' = [title EXCEPT ![t] = Out]

Believes(t) == IF title[t] = Out THEN "logged_out" ELSE "logged_in"

\* The state file is written, or the write fails.
Save(state) ==
  \/ file' = state /\ unsaved' = FALSE
  \/ unsaved' = TRUE /\ UNCHANGED file

\* tick() goes on and finds nothing new.
NothingNew(t) ==
  /\ poll[t] = "ended" /\ Believes(t) = prev /\ ~force
  /\ Done(t)
  /\ UNCHANGED <<window, rows, recordVars, prev, force, file, unsaved, publisher, reported>>

\* Deviation: a login is not published when the file could be written.
LoginSeenSilent(t) ==
  /\ poll[t] = "ended" /\ Believes(t) = "logged_in" /\ (prev # "logged_in" \/ force)
  /\ Done(t)
  /\ prev' = "logged_in"
  /\ force' = FALSE
  /\ Save("operational")
  /\ UNCHANGED <<window, rows, recordVars, publisher, reported>>

\* tick() goes on and finds a login, or is forced to publish one.  When the
\* state file cannot be written it returns before it publishes.
LoginSeen(t) ==
  /\ poll[t] = "ended" /\ Believes(t) = "logged_in" /\ (prev # "logged_in" \/ force)
  /\ Done(t)
  /\ prev' = "logged_in"
  /\ force' = FALSE
  /\ Save("operational")
  /\ IF unsaved' THEN UNCHANGED <<loggedIn, feed>> ELSE AccountEvent(TRUE, title[t])
  /\ UNCHANGED <<window, rows, known, publisher, reported>>

\* Deviation: the logout leaves the state file as it is.
LogoutUnsaved(t) ==
  /\ poll[t] = "ended" /\ Believes(t) = "logged_out" /\ (prev # "logged_out" \/ force)
  /\ Done(t)
  /\ prev' = "logged_out"
  /\ force' = FALSE
  /\ AccountEvent(FALSE, NoLogin)
  /\ UNCHANGED <<window, rows, known, file, unsaved, publisher, reported>>

\* tick() goes on and finds a logout: it is published without a login.
LogoutSeen(t) ==
  /\ poll[t] = "ended" /\ Believes(t) = "logged_out" /\ (prev # "logged_out" \/ force)
  /\ Done(t)
  /\ prev' = "logged_out"
  /\ force' = FALSE
  /\ Save("pending_login")
  /\ AccountEvent(FALSE, NoLogin)
  /\ UNCHANGED <<window, rows, known, publisher, reported>>

\* The Python publisher reports what is new to it: a login with the account,
\* a logout without.  That nothing is lost on the way is EventsSocket's part.
Report ==
  /\ publisher /\ reported # window
  /\ reported' = window
  /\ AccountEvent(window # Out, IF window = Out THEN NoLogin ELSE window)
  /\ UNCHANGED <<window, rows, known, detectorVars, publisher>>

\* Deviation: the word in the state file is taken for the detector's state.
RestartVerbatim ==
  /\ known' = {}
  /\ loggedIn' = [a \in Accounts |-> FALSE]
  /\ feed' = [a \in Accounts |-> FALSE]
  /\ prev' = IF file = "operational" THEN file ELSE "unknown"
  /\ force' = FALSE
  /\ poll' = [t \in Polls |-> "idle"]
  /\ title' = [t \in Polls |-> Out]
  /\ unsaved' = FALSE
  /\ UNCHANGED <<window, rows, file, publisher, reported>>

\* The slot is started again.  There are no records and no streams yet; a
\* slot that was operational is taken to be logged in, and the event that
\* says so reaches nobody.
Restart ==
  /\ known' = {}
  /\ loggedIn' = [a \in Accounts |-> FALSE]
  /\ feed' = [a \in Accounts |-> FALSE]
  /\ prev' = IF file = "operational" THEN "logged_in" ELSE "unknown"
  /\ force' = FALSE
  /\ poll' = [t \in Polls |-> "idle"]
  /\ title' = [t \in Polls |-> Out]
  /\ unsaved' = FALSE
  /\ UNCHANGED <<window, rows, file, publisher, reported>>

-----------------------------------------------------------------------------

Detector ==
  \E t \in Polls : StartPoll(t) \/ ReadTitle(t) \/ NothingNew(t) \/ LoginSeen(t) \/ LogoutSeen(t)

Next ==
  \/ UserActs
  \/ \E a \in Accounts : Provision(a) \/ Connect(a)
  \/ Detector
  \/ Report
  \/ Restart

Spec == Init /\ [][Next]_vars

(***************************************************************************)
(* Fairness: the interval starts polls for ever, wmctrl ends within its    *)
(* timeout, a poll that ended goes on, and the publisher polls.            *)
(***************************************************************************)
Fairness ==
  /\ \A t \in Polls :
       /\ WF_vars(StartPoll(t))
       /\ WF_vars(ReadTitle(t))
       /\ WF_vars(NothingNew(t) \/ LoginSeen(t) \/ LogoutSeen(t))
  /\ WF_vars(Report)

FairSpec == Spec /\ Fairness

-----------------------------------------------------------------------------
(***************************************************************************)
(* Properties                                                              *)
(***************************************************************************)

Only(a) == rows = <<a>> /\ a \in known

\* The detector publishes transitions only, so its memory and the record of
\* the slot's one account must agree, whatever restarts and overlapping polls
\* did, or nothing will ever correct the record.
DetectorAgrees ==
  \A a \in Accounts :
    Only(a) /\ ~publisher /\ ~force /\ ~unsaved => (loggedIn[a] <=> prev = "logged_in")

\* The login that connect() announces optimistically is taken back: streams
\* and /v1/state say the same of the slot's one account.
FeedAgrees ==
  \A a \in Accounts : Only(a) /\ ~force /\ ~unsaved => (feed[a] <=> loggedIn[a])

\* What a restart finds in the state file is what the detector believed.
FileAgrees == prev # "unknown" /\ ~unsaved => (file = "operational" <=> prev = "logged_in")

\* The slot has one account, the terminal shows w, and the polls can see it.
Steady(a, w) ==
  /\ Only(a) /\ window = w /\ ~unsaved
  /\ \A t \in Polls : poll[t] = "ended" => (title[t] = Out <=> w = Out)

Right(a, w) == loggedIn[a] <=> w # Out

\* With one account, the slot comes to say what the terminal shows.
Settles ==
  \A a \in Accounts, w \in Accounts \cup {Out} : <>[]Steady(a, w) => <>[]Right(a, w)

\* The header of the detector: with logout detection no account stays stuck
\* at loggedIn = true after a logout.
LogoutReachesRecords ==
  <>[](window = Out /\ ~unsaved) => <>[](\A a \in known : ~loggedIn[a])
=============================================================================
