------------------------------ MODULE Accounts ------------------------------
(***************************************************************************)
(* The accounts table and its validation: a sync reads rows and hands them *)
(* to validateAccount(), which opens the broker session some event-loop    *)
(* turns later and writes the status of the row when the session is open,  *)
(* up to fifteen seconds later.  Validations of one row may overlap, and   *)
(* the row may be changed by its owner in between.  The table survives a   *)
(* restart of the slot; the validations under way and the records of the   *)
(* connector do not.                                                       *)
(*                                                                         *)
(* Rows are inserted and disabled from outside the slot: its code does     *)
(* neither.                                                                *)
(***************************************************************************)
EXTENDS Naturals

CONSTANTS
  Rows,        \* accounts, numbered in the order of created_at
  Readable,    \* those whose credentials decrypt() can read
  Jobs         \* how many validations can be under way at once

ASSUME AccountsAssumption == Rows \subseteq Nat \ {0} /\ Readable \subseteq Rows

VARIABLES
  status,      \* status[a]: accounts.status, or "absent"
  known,       \* the accounts the connector has a record of
  job,         \* job[v]: a validation, with the row it was handed
  cutOff       \* history: accounts whose validation a restart cut off

accountVars == <<status, known, job, cutOff>>

Status == {"absent", "pending_validation", "active", "error", "disabled"}
\* blind is history: the page's sync handed over a disabled row.
Job == [stage : {"idle", "queued", "connecting"}, row : Rows \cup {0}, blind : BOOLEAN]
NoJob == [stage |-> "idle", row |-> 0, blind |-> FALSE]

AccountsTypeOK ==
  /\ status \in [Rows -> Status]
  /\ known \in SUBSET Rows
  /\ job \in [Jobs -> Job]
  /\ cutOff \in SUBSET Rows

AccountsInit ==
  /\ status = [a \in Rows |-> "absent"]
  /\ known = {}
  /\ job = [v \in Jobs |-> NoJob]
  /\ cutOff = {}

Present == {a \in Rows : status[a] # "absent"}
Enabled == {a \in Present : status[a] # "disabled"}

\* accounts.list(tenantId)[0]: the table is read newest row first.
IsNewest(a) == a \in Present /\ \A b \in Present : b <= a

-----------------------------------------------------------------------------
(***************************************************************************)
(* The owner of the table                                                  *)
(***************************************************************************)

Provision(a) ==
  /\ status[a] = "absent" /\ \A b \in Present : b < a
  /\ status' = [status EXCEPT ![a] = "pending_validation"]
  /\ UNCHANGED <<known, job, cutOff>>

Disable(a) ==
  /\ a \in Enabled
  /\ status' = [status EXCEPT ![a] = "disabled"]
  /\ UNCHANGED <<known, job, cutOff>>

-----------------------------------------------------------------------------
(***************************************************************************)
(* Syncs                                                                   *)
(***************************************************************************)

Idle == {v \in Jobs : job[v].stage = "idle"}
Queued(a, page) == [stage |-> "queued", row |-> a, blind |-> page /\ status[a] = "disabled"]

\* POST /v1/sync: the newest row, whatever its status.
SyncNewest(v) ==
  /\ v \in Idle
  /\ \E a \in Rows :
       /\ IsNewest(a)
       /\ job' = [job EXCEPT ![v] = Queued(a, FALSE)]
       /\ cutOff' = cutOff \ {a}
  /\ UNCHANGED <<status, known>>

\* Deviation: the rows are not looked at before they are validated.
SyncEvery ==
  LET S == Present IN
  /\ S # {}
  /\ \E worker \in [S -> Idle] :
       /\ \A a, b \in S : worker[a] = worker[b] => a = b
       /\ job' = [v \in Jobs |->
                    IF \E a \in S : worker[a] = v
                    THEN Queued(CHOOSE a \in S : worker[a] = v, TRUE)
                    ELSE job[v]]
  /\ cutOff' = cutOff \ S
  /\ UNCHANGED <<status, known>>

\* POST /internal/sync: every row that is not disabled.
SyncAll ==
  LET S == Enabled IN
  /\ S # {}
  /\ \E worker \in [S -> Idle] :
       /\ \A a, b \in S : worker[a] = worker[b] => a = b
       /\ job' = [v \in Jobs |->
                    IF \E a \in S : worker[a] = v
                    THEN Queued(CHOOSE a \in S : worker[a] = v, TRUE)
                    ELSE job[v]]
  /\ cutOff' = cutOff \ S
  /\ UNCHANGED <<status, known>>

-----------------------------------------------------------------------------
(***************************************************************************)
(* runValidation()                                                         *)
(***************************************************************************)

\* Deviation: credentials that cannot be read are passed on as they are.
RunValidationUnread(v) ==
  LET a == job[v].row IN
  /\ job[v].stage = "queued"
  /\ job' = [job EXCEPT ![v].stage = "connecting"]
  /\ known' = known \cup {a}
  /\ UNCHANGED <<status, cutOff>>

\* Deviation: a failure is logged and not written to the row.
RunValidationSilent(v) ==
  LET a == job[v].row IN
  /\ job[v].stage = "queued"
  /\ IF a \in Readable
     THEN /\ job' = [job EXCEPT ![v].stage = "connecting"]
          /\ known' = known \cup {a}
     ELSE /\ job' = [job EXCEPT ![v] = NoJob]
          /\ UNCHANGED known
  /\ UNCHANGED <<status, cutOff>>

\* The credentials are read, or the row is in error.  connect() enters a
\* record at once and then waits for the terminal to report a login.
RunValidation(v) ==
  LET a == job[v].row IN
  /\ job[v].stage = "queued"
  /\ IF a \in Readable
     THEN /\ job' = [job EXCEPT ![v].stage = "connecting"]
          /\ known' = known \cup {a}
          /\ UNCHANGED status
     ELSE /\ job' = [job EXCEPT ![v] = NoJob]
          /\ status' = [status EXCEPT ![a] = "error"]
          /\ UNCHANGED known
  /\ UNCHANGED cutOff

\* connect() returns, whether there was a login or not: it never fails.
Validated(v) ==
  /\ job[v].stage = "connecting"
  /\ job' = [job EXCEPT ![v] = NoJob]
  /\ status' = [status EXCEPT ![job[v].row] = "active"]
  /\ UNCHANGED <<known, cutOff>>

\* The slot dies and is started again.
RestartAccounts ==
  /\ job' = [v \in Jobs |-> NoJob]
  /\ known' = {}
  /\ cutOff' = cutOff \cup {job[v].row : v \in Jobs \ Idle}
  /\ UNCHANGED status

AccountsNext ==
  \/ \E a \in Rows : Provision(a) \/ Disable(a)
  \/ \E v \in Jobs : SyncNewest(v) \/ RunValidation(v) \/ Validated(v)
  \/ SyncAll

-----------------------------------------------------------------------------
(***************************************************************************)
(* Properties                                                              *)
(***************************************************************************)

\* However validations overlap with each other and with the owner, the status
\* they leave says what decrypt() made of the credentials.
StatusIsEarned ==
  \A a \in Rows : /\ status[a] = "active" => a \in Readable
                  /\ status[a] = "error" => a \notin Readable

\* A disabled row comes back only through a validation that was handed it while
\* it was enabled, or through /v1/sync, which does not look: a sync of the page
\* made after the row was disabled never revives it.
Revival ==
  [][\A a \in Rows :
       status[a] = "disabled" /\ status'[a] # "disabled"
         => \E v \in Jobs : job[v].row = a /\ job'[v] = NoJob /\ ~job[v].blind]_accountVars

\* A sync decides the status of its row, unless the slot restarts before.
SyncDecides ==
  \A a \in Rows, v \in Jobs :
    job[v].row = a ~> status[a] \in {"active", "error"} \/ a \in cutOff
=============================================================================
