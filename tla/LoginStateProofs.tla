-------------------------- MODULE LoginStateProofs --------------------------
(***************************************************************************)
(* Proofs about LoginState, for every set of accounts and any number of    *)
(* overlapping polls: what the detector believes, what it saved, what the  *)
(* records say and what the streams were told agree.                       *)
(***************************************************************************)
EXTENDS LoginState, TLAPS

\* Records are entered for rows of the table only.
RecordsHaveRows == \A a \in known : \E i \in 1..Len(rows) : rows[i] = a

Agreement ==
  /\ TypeOK
  /\ RecordsHaveRows
  /\ DetectorAgrees
  /\ FeedAgrees
  /\ FileAgrees

-----------------------------------------------------------------------------

\* In a table of one row every event is for that row.
LEMMA ResolveOnly ==
  ASSUME NEW a, rows = <<a>>, NEW login
  PROVE  Resolve(login) = {a}
<1>1. Len(rows) = 1 /\ rows[1] = a /\ rows # <<>>
  OBVIOUS
<1>2. CASE \E i \in 1..Len(rows) : rows[i] = login
  BY <1>1, <1>2 DEF Resolve
<1>3. CASE ~\E i \in 1..Len(rows) : rows[i] = login
  BY <1>1, <1>3 DEF Resolve
<1>4. QED
  BY <1>2, <1>3

\* An event leaves the records' flags well typed.
LEMMA EventType ==
  ASSUME TypeOK, NEW in \in BOOLEAN, NEW login, AccountEvent(in, login)
  PROVE  loggedIn' \in [Accounts -> BOOLEAN] /\ feed' \in [Accounts -> BOOLEAN]
  BY DEF AccountEvent, TypeOK

\* After an event the slot's one account, if it has a record, is what the
\* event says, and so were its streams told.
LEMMA EventReachesOnly ==
  ASSUME NEW a \in Accounts, Only(a), NEW in \in BOOLEAN, NEW login, AccountEvent(in, login)
  PROVE  loggedIn'[a] = in /\ feed'[a] = in
<1>1. Resolve(login) = {a} /\ a \in known
  BY ResolveOnly DEF Only
<1>2. QED
  BY <1>1 DEF AccountEvent

-----------------------------------------------------------------------------

\* A slot that has never run is in agreement.
LEMMA InitAgrees == Init => Agreement
<1> SUFFICES ASSUME Init PROVE Agreement
  OBVIOUS
<1>1. TypeOK
  <2>1. rows \in Seq(Accounts) /\ known \in SUBSET Accounts
    BY DEF Init
  <2>2. loggedIn \in [Accounts -> BOOLEAN] /\ feed \in [Accounts -> BOOLEAN]
    BY DEF Init
  <2>3. poll \in [Polls -> {"idle", "running", "ended"}] /\ title \in [Polls -> Titles]
    BY DEF Init, Titles
  <2>4. QED
    BY <2>1, <2>2, <2>3, Zenon DEF Init, TypeOK, Titles
<1>2. known = {} /\ prev = "unknown"
  BY DEF Init
<1>3. QED
  BY <1>1, <1>2 DEF Agreement, RecordsHaveRows, DetectorAgrees, FeedAgrees, FileAgrees, Only

\* Every step keeps the types.
LEMMA StepTypes ==
  ASSUME TypeOK, [Next]_vars
  PROVE  TypeOK'
<1>1. CASE UserActs
  BY <1>1 DEF UserActs, TypeOK, recordVars, detectorVars
<1>2. ASSUME NEW a \in Accounts, Provision(a) PROVE TypeOK'
  BY <1>2 DEF Provision, TypeOK, recordVars, detectorVars
<1>3. ASSUME NEW a \in Accounts, Connect(a) PROVE TypeOK'
  BY <1>3 DEF Connect, TypeOK
<1>4. ASSUME NEW t \in Polls, StartPoll(t) PROVE TypeOK'
  BY <1>4 DEF StartPoll, TypeOK, recordVars
<1>5. ASSUME NEW t \in Polls, ReadTitle(t) PROVE TypeOK'
  BY <1>5 DEF ReadTitle, TypeOK, recordVars, Titles
<1>6. ASSUME NEW t \in Polls, NothingNew(t) PROVE TypeOK'
  BY <1>6 DEF NothingNew, Done, TypeOK, recordVars, Titles
<1>7. ASSUME NEW t \in Polls, LoginSeen(t) PROVE TypeOK'
  <2>1. loggedIn' \in [Accounts -> BOOLEAN] /\ feed' \in [Accounts -> BOOLEAN]
    <3>1. CASE unsaved'
      BY <1>7, <3>1 DEF LoginSeen, TypeOK
    <3>2. CASE ~unsaved'
      BY <1>7, <3>2, EventType DEF LoginSeen
    <3>3. QED
      BY <3>1, <3>2
  <2>2. QED
    BY <1>7, <2>1 DEF LoginSeen, Done, Save, TypeOK, Titles
<1>8. ASSUME NEW t \in Polls, LogoutSeen(t) PROVE TypeOK'
  <2>1. loggedIn' \in [Accounts -> BOOLEAN] /\ feed' \in [Accounts -> BOOLEAN]
    BY <1>8, EventType DEF LogoutSeen
  <2>2. QED
    BY <1>8, <2>1 DEF LogoutSeen, Done, Save, TypeOK, Titles
<1>9. CASE Report
  <2>1. (window # Out) \in BOOLEAN
    OBVIOUS
  <2>2. loggedIn' \in [Accounts -> BOOLEAN] /\ feed' \in [Accounts -> BOOLEAN]
    BY <1>9, <2>1, EventType DEF Report
  <2>3. QED
    BY <1>9, <2>2 DEF Report, detectorVars, TypeOK, Titles
<1>10. CASE Restart
  BY <1>10 DEF Restart, TypeOK, Titles
<1>11. CASE UNCHANGED vars
  BY <1>11 DEF vars, recordVars, detectorVars, TypeOK
<1>12. QED
  BY <1>1, <1>2, <1>3, <1>4, <1>5, <1>6, <1>7, <1>8, <1>9, <1>10, <1>11 DEF Next, Detector

\* A step that touches none of the records' and the detector's state keeps
\* what the agreement says.
LEMMA QuietStep ==
  ASSUME Agreement, TypeOK', UNCHANGED <<rows, recordVars, prev, force, file, unsaved, publisher>>
  PROVE  Agreement'
  BY DEF Agreement, recordVars, RecordsHaveRows, DetectorAgrees, FeedAgrees, FileAgrees, Only

\* Every step keeps the agreement.
LEMMA StepAgrees ==
  ASSUME Agreement, [Next]_vars
  PROVE  Agreement'
<1> TypeOK /\ TypeOK'
  BY StepTypes DEF Agreement
<1>1. CASE UserActs
  BY <1>1, QuietStep DEF UserActs, detectorVars
<1>2. ASSUME NEW a \in Accounts, Provision(a) PROVE Agreement'
  <2>1. /\ UNCHANGED <<known, loggedIn, feed, prev, force, file, unsaved, publisher>>
        /\ rows' = Append(rows, a) /\ ~\E i \in 1..Len(rows) : rows[i] = a
    BY <1>2 DEF Provision, recordVars, detectorVars
  <2>2. RecordsHaveRows'
    <3>1. \A i \in 1..Len(rows) : i \in 1..Len(rows') /\ rows'[i] = rows[i]
      BY <2>1 DEF TypeOK
    <3>2. QED
      BY <2>1, <3>1 DEF Agreement, RecordsHaveRows
  <2>3. ASSUME NEW b \in Accounts, Only(b)' PROVE FALSE
    <3>1. rows' = <<b>> /\ b \in known
      BY <2>1, <2>3 DEF Only
    <3>2. Len(rows) = 0
      <4>1. Len(rows') = Len(rows) + 1 /\ Len(rows) \in Nat
        BY <2>1 DEF TypeOK
      <4>2. Len(rows') = 1
        BY <3>1
      <4>3. \A n \in Nat : n + 1 = 1 => n = 0
        OBVIOUS
      <4>4. QED
        BY <4>1, <4>2, <4>3
    <3>3. \E i \in 1..Len(rows) : rows[i] = b
      BY <3>1 DEF Agreement, RecordsHaveRows
    <3>4. QED
      BY <3>2, <3>3
  <2>4. QED
    BY <2>1, <2>2, <2>3 DEF Agreement, DetectorAgrees, FeedAgrees, FileAgrees
<1>3. ASSUME NEW a \in Accounts, Connect(a) PROVE Agreement'
  BY <1>3 DEF Connect, Agreement, RecordsHaveRows, DetectorAgrees, FeedAgrees, FileAgrees, Only
<1>4. ASSUME NEW t \in Polls, StartPoll(t) PROVE Agreement'
  BY <1>4, QuietStep DEF StartPoll
<1>5. ASSUME NEW t \in Polls, ReadTitle(t) PROVE Agreement'
  BY <1>5, QuietStep DEF ReadTitle
<1>6. ASSUME NEW t \in Polls, NothingNew(t) PROVE Agreement'
  BY <1>6, QuietStep DEF NothingNew
<1>7. ASSUME NEW t \in Polls, LoginSeen(t) PROVE Agreement'
  <2>1. /\ UNCHANGED <<rows, known, publisher>>
        /\ prev' = "logged_in"
        /\ file' = "operational" \/ unsaved'
        /\ IF unsaved' THEN UNCHANGED <<loggedIn, feed>> ELSE AccountEvent(TRUE, title[t])
    BY <1>7 DEF LoginSeen, Save
  <2>2. ASSUME NEW a \in Accounts, Only(a), ~unsaved' PROVE loggedIn'[a] /\ feed'[a]
    BY <2>1, <2>2, EventReachesOnly
  <2>3. QED
    BY <2>1, <2>2 DEF Agreement, RecordsHaveRows, DetectorAgrees, FeedAgrees, FileAgrees, Only
<1>8. ASSUME NEW t \in Polls, LogoutSeen(t) PROVE Agreement'
  <2>1. /\ UNCHANGED <<rows, known, publisher>>
        /\ prev' = "logged_out"
        /\ file' = "pending_login" \/ unsaved'
        /\ AccountEvent(FALSE, NoLogin)
    BY <1>8 DEF LogoutSeen, Save
  <2>2. ASSUME NEW a \in Accounts, Only(a) PROVE ~loggedIn'[a] /\ ~feed'[a]
    BY <2>1, <2>2, EventReachesOnly
  <2>3. QED
    BY <2>1, <2>2 DEF Agreement, RecordsHaveRows, DetectorAgrees, FeedAgrees, FileAgrees, Only
<1>9. CASE Report
  <2>1. /\ UNCHANGED <<rows, known, prev, force, file, unsaved, publisher>>
        /\ publisher
        /\ (window # Out) \in BOOLEAN
        /\ AccountEvent(window # Out, IF window = Out THEN NoLogin ELSE window)
    BY <1>9 DEF Report, detectorVars
  <2>2. ASSUME NEW a \in Accounts, Only(a) PROVE loggedIn'[a] = feed'[a]
    <3>1. loggedIn'[a] = (window # Out) /\ feed'[a] = (window # Out)
      BY <2>1, <2>2, EventReachesOnly
    <3>2. QED
      BY <3>1
  <2>3. RecordsHaveRows' /\ DetectorAgrees' /\ FileAgrees'
    BY <2>1 DEF Agreement, RecordsHaveRows, DetectorAgrees, FileAgrees
  <2>4. FeedAgrees'
    <3>1. \A a \in Accounts : Only(a)' => Only(a)
      BY <2>1 DEF Only
    <3>2. QED
      BY <2>2, <3>1 DEF FeedAgrees
  <2>5. QED
    BY <2>3, <2>4 DEF Agreement
<1>10. CASE Restart
  <2>1. /\ known' = {} /\ file' = file
        /\ prev' = IF file = "operational" THEN "logged_in" ELSE "unknown"
    BY <1>10 DEF Restart
  <2>2. QED
    BY <2>1 DEF Agreement, RecordsHaveRows, DetectorAgrees, FeedAgrees, FileAgrees, Only
<1>11. CASE UNCHANGED vars
  BY <1>11, QuietStep DEF vars, detectorVars
<1>12. QED
  BY <1>1, <1>2, <1>3, <1>4, <1>5, <1>6, <1>7, <1>8, <1>9, <1>10, <1>11 DEF Next, Detector

-----------------------------------------------------------------------------

\* Overlapping polls, failed writes and restarts keep every part of the
\* agreement.
LEMMA Agrees == Spec => []Agreement
<1>1. Agreement /\ [Next]_vars => Agreement'
  BY StepAgrees
<1>2. QED
  BY InitAgrees, <1>1, PTL DEF Spec

\* Every variable of the detector, the records and the table keeps its type.
THEOREM TypeCorrect == Spec => []TypeOK
<1>1. Agreement => TypeOK
  BY DEF Agreement
<1>2. QED
  BY Agrees, <1>1, PTL

\* Without the Python publisher the record of the slot's only account says
\* what the detector last believed, once a forced poll is through and the
\* state file could be written.
THEOREM RecordFollowsDetector == Spec => []DetectorAgrees
<1>1. Agreement => DetectorAgrees
  BY DEF Agreement
<1>2. QED
  BY Agrees, <1>1, PTL

\* The login that connect() announces before it is known is taken back by
\* the poll it forces: streams and records say the same.
THEOREM StreamsFollowRecords == Spec => []FeedAgrees
<1>1. Agreement => FeedAgrees
  BY DEF Agreement
<1>2. QED
  BY Agrees, <1>1, PTL

\* A restart resumes from what the detector last believed.
THEOREM FileFollowsDetector == Spec => []FileAgrees
<1>1. Agreement => FileAgrees
  BY DEF Agreement
<1>2. QED
  BY Agrees, <1>1, PTL

-----------------------------------------------------------------------------
(***************************************************************************)
(* The slot settles                                                        *)
(***************************************************************************)

\* With the publisher at work the record may say what the detector does not
\* believe, but then it says what was last reported.
RecordExplained ==
  \A a \in Accounts :
    Only(a) /\ ~force /\ ~unsaved
      => \/ loggedIn[a] <=> prev = "logged_in"
         \/ publisher /\ reported # NoLogin /\ (loggedIn[a] <=> reported # Out)

\* The publisher and the detector write the record only with what they hold.
LEMMA ExplainedStep ==
  ASSUME Agreement, RecordExplained, [Next]_vars
  PROVE  RecordExplained'
<1> TypeOK /\ Agreement'
  BY StepAgrees DEF Agreement
<1>1. ASSUME UNCHANGED <<rows, known, loggedIn, prev, force, unsaved, publisher, reported>>
      PROVE  RecordExplained'
  BY <1>1 DEF RecordExplained, Only
<1>2. CASE UserActs
  BY <1>1, <1>2 DEF UserActs, recordVars, detectorVars
<1>3. ASSUME NEW a \in Accounts, Provision(a) PROVE RecordExplained'
  <2>1. /\ UNCHANGED <<known, loggedIn, prev, force, unsaved, publisher, reported>>
        /\ rows' = Append(rows, a)
    BY <1>3 DEF Provision, recordVars, detectorVars
  <2>2. ASSUME NEW b \in Accounts, Only(b)' PROVE FALSE
    <3>1. rows' = <<b>> /\ b \in known /\ Len(rows) \in Nat
      BY <2>1, <2>2 DEF Only, TypeOK
    <3>2. PICK i \in 1..Len(rows) : rows[i] = b
      BY <3>1 DEF Agreement, RecordsHaveRows
    <3>3. Len(rows') = Len(rows) + 1
      BY <2>1 DEF TypeOK
    <3>4. Len(rows') = 1
      BY <3>1
    <3>5. QED
      BY <3>1, <3>2, <3>3, <3>4
  <2>3. QED
    BY <2>2 DEF RecordExplained
<1>4. ASSUME NEW a \in Accounts, Connect(a) PROVE RecordExplained'
  BY <1>4 DEF Connect, RecordExplained
<1>5. ASSUME NEW t \in Polls, StartPoll(t) \/ ReadTitle(t) \/ NothingNew(t)
      PROVE  RecordExplained'
  BY <1>1, <1>5 DEF StartPoll, ReadTitle, NothingNew, recordVars
<1>6. ASSUME NEW t \in Polls, LoginSeen(t) PROVE RecordExplained'
  <2>1. /\ UNCHANGED <<rows, known>> /\ prev' = "logged_in"
        /\ ~unsaved' => AccountEvent(TRUE, title[t])
    BY <1>6 DEF LoginSeen
  <2>2. QED
    BY <2>1, EventReachesOnly DEF RecordExplained, Only
<1>7. ASSUME NEW t \in Polls, LogoutSeen(t) PROVE RecordExplained'
  <2>1. /\ UNCHANGED <<rows, known>> /\ prev' = "logged_out"
        /\ AccountEvent(FALSE, NoLogin)
    BY <1>7 DEF LogoutSeen
  <2>2. QED
    BY <2>1, EventReachesOnly DEF RecordExplained, Only
<1>8. CASE Report
  <2>1. /\ UNCHANGED <<rows, known, publisher>> /\ publisher
        /\ reported' = window /\ window # NoLogin
        /\ (window # Out) \in BOOLEAN
        /\ AccountEvent(window # Out, IF window = Out THEN NoLogin ELSE window)
    BY <1>8, LoginAssumption DEF Report, TypeOK
  <2>2. ASSUME NEW a \in Accounts, Only(a) PROVE loggedIn'[a] = (reported' # Out)
    BY <2>1, <2>2, EventReachesOnly
  <2>3. QED
    BY <2>1, <2>2 DEF RecordExplained, Only
<1>9. CASE Restart
  BY <1>9 DEF Restart, RecordExplained, Only
<1>10. CASE UNCHANGED vars
  BY <1>1, <1>10 DEF vars, recordVars, detectorVars
<1>11. QED
  BY <1>2, <1>3, <1>4, <1>5, <1>6, <1>7, <1>8, <1>9, <1>10 DEF Next, Detector

\* A record of the slot's only account that is not what the detector believes
\* is what the Python publisher reported last: there is no third source.
THEOREM RecordHasASource == Spec => []RecordExplained
<1>1. Init => RecordExplained
  BY DEF Init, RecordExplained, Only
<1>2. Agreement /\ RecordExplained /\ [Next]_vars => RecordExplained'
  BY ExplainedStep
<1>3. QED
  BY <1>1, <1>2, Agrees, PTL DEF Spec

-----------------------------------------------------------------------------

\* The poll that goes on, NothingNew() to LogoutSeen(), and the weak fairness
\* that FairSpec asks of it, with the guards in the place of ENABLED.
Goes(t) == NothingNew(t) \/ LoginSeen(t) \/ LogoutSeen(t)

PollGoesOn(t) ==
  /\ []<>~(poll[t] = "idle") \/ []<><<StartPoll(t)>>_vars
  /\ []<>~(poll[t] = "running") \/ []<><<ReadTitle(t)>>_vars
  /\ []<>~(poll[t] = "ended") \/ []<><<Goes(t)>>_vars

\* The terminal shows something that was not reported.
News == publisher /\ reported # window

PublisherGoesOn == []<>~News \/ []<><<Report>>_vars

\* What each step does to the record of a while its surroundings are steady.
LEMMA SteadyStep ==
  ASSUME Agreement, RecordExplained, [Next]_vars, NEW a \in Accounts, NEW w,
         Steady(a, w), Steady(a, w)', NEW t \in Polls
  PROVE  /\ Right(a, w) => Right(a, w)'
         /\ News => News' \/ Right(a, w)'
         /\ Report => Right(a, w)'
         /\ Goes(t) => Right(a, w)' \/ News'
         /\ poll[t] = "idle" => poll'[t] \in {"idle", "running"}
         /\ poll[t] = "running" => poll'[t] \in {"running", "ended"}
         /\ poll[t] = "ended" => poll'[t] = "ended" \/ Goes(t)
<1>0. /\ TypeOK /\ Only(a) /\ window = w /\ window' = w /\ ~unsaved' /\ a \in known'
      /\ \A u \in Polls : poll[u] = "ended" => (title[u] = Out <=> w = Out)
  BY DEF Steady, Only, Agreement
<1>1. ASSUME NEW u \in Polls, LoginSeen(u) \/ LogoutSeen(u) PROVE Right(a, w)'
  <2>1. CASE LoginSeen(u)
    <3>1. AccountEvent(TRUE, title[u]) /\ w # Out
      BY <1>0, <2>1 DEF LoginSeen, Believes
    <3>2. QED
      BY <1>0, <3>1, EventReachesOnly DEF Right
  <2>2. CASE LogoutSeen(u)
    <3>1. AccountEvent(FALSE, NoLogin) /\ w = Out
      BY <1>0, <2>2 DEF LogoutSeen, Believes
    <3>2. QED
      BY <1>0, <3>1, EventReachesOnly DEF Right
  <2>3. QED
    BY <1>1, <2>1, <2>2
<1>2. ASSUME Report PROVE Right(a, w)'
  <2>1. AccountEvent(window # Out, IF window = Out THEN NoLogin ELSE window)
        /\ (window # Out) \in BOOLEAN
    BY <1>2 DEF Report
  <2>2. loggedIn'[a] = (window # Out)
    BY <1>0, <2>1, EventReachesOnly
  <2>3. QED
    BY <1>0, <2>2 DEF Right
<1>3. ASSUME NothingNew(t) PROVE Right(a, w) \/ News
  <2>1. Believes(t) = prev /\ ~force /\ ~unsaved /\ (title[t] = Out <=> w = Out)
    BY <1>0, <1>3 DEF NothingNew, Steady
  <2>2. prev = "logged_in" <=> w # Out
    BY <2>1 DEF Believes
  <2>3. QED
    BY <1>0, <2>1, <2>2 DEF RecordExplained, Right, News
<1>4. ~Restart
  BY <1>0 DEF Restart
<1>5. \/ \E u \in Polls : LoginSeen(u) \/ LogoutSeen(u)
      \/ Report
      \/ UNCHANGED <<loggedIn, publisher, reported, window>>
  BY <1>0, <1>4 DEF Next, Detector, UserActs, Provision, Connect, StartPoll, ReadTitle, NothingNew,
                    vars, recordVars
<1>6. /\ UNCHANGED <<loggedIn, publisher, reported, window>> => UNCHANGED <<Right(a, w), News>>
      /\ NothingNew(t) => UNCHANGED <<loggedIn, publisher, reported, window>>
  BY DEF Right, News, NothingNew, recordVars
<1>7. \/ UNCHANGED poll
      \/ \E u \in Polls : \/ poll[u] = "idle" /\ poll' = [poll EXCEPT ![u] = "running"]
                          \/ poll[u] = "running" /\ poll' = [poll EXCEPT ![u] = "ended"]
                          \/ Goes(u) /\ poll[u] = "ended" /\ poll' = [poll EXCEPT ![u] = "idle"]
  BY <1>4 DEF Next, Detector, UserActs, Provision, Connect, StartPoll, ReadTitle, NothingNew,
              Goes, LoginSeen, LogoutSeen, Report, Done, vars, detectorVars
<1>8. /\ poll[t] = "idle" => poll'[t] \in {"idle", "running"}
      /\ poll[t] = "running" => poll'[t] \in {"running", "ended"}
      /\ poll[t] = "ended" => poll'[t] = "ended" \/ Goes(t)
  BY <1>0, <1>7 DEF TypeOK
<1>9. QED
  BY <1>1, <1>2, <1>3, <1>5, <1>6, <1>8 DEF Goes

\* Settles for one account and one thing the terminal shows.
LEMMA AccountSettles ==
  ASSUME NEW t \in Polls, NEW a \in Accounts, NEW w \in Accounts \cup {Out}
  PROVE  Spec /\ PollGoesOn(t) /\ PublisherGoesOn => (<>[]Steady(a, w) => <>[]Right(a, w))
<1>1. Agreement /\ RecordExplained /\ [Next]_vars /\ Steady(a, w) /\ Steady(a, w)'
        => /\ Right(a, w) => Right(a, w)'
           /\ News => News' \/ Right(a, w)'
           /\ <<Report>>_vars => Right(a, w)'
           /\ <<Goes(t)>>_vars => Right(a, w)' \/ News'
           /\ poll[t] = "idle" => (poll[t] = "idle")' \/ (poll[t] = "running")'
           /\ poll[t] = "running" => (poll[t] = "running")' \/ (poll[t] = "ended")'
           /\ poll[t] = "ended" => (poll[t] = "ended")' \/ Goes(t)
  BY SteadyStep
<1>2. Agreement
        => /\ poll[t] = "idle" \/ poll[t] = "running" \/ poll[t] = "ended"
           /\ <<StartPoll(t)>>_vars => (poll[t] = "running")'
           /\ <<ReadTitle(t)>>_vars => (poll[t] = "ended")'
  BY DEF Agreement, TypeOK, StartPoll, ReadTitle
<1>3. Agreement /\ Goes(t) => poll[t] = "ended" /\ (poll[t] = "idle")' /\ <<Goes(t)>>_vars
  BY DEF Goes, NothingNew, LoginSeen, LogoutSeen, Done, Agreement, TypeOK, vars, detectorVars
<1>4. QED
  BY <1>1, <1>2, <1>3, Agrees, RecordHasASource, PTL DEF Spec, PollGoesOn, PublisherGoesOn

\* While the terminal shows the same, and the detector's titles say so, the
\* slot comes to say it too, and stays with it: one poll that goes on is enough,
\* whatever the other polls, the publisher and the syncs do.
THEOREM SlotSettles ==
  ASSUME NEW t \in Polls
  PROVE  Spec /\ PollGoesOn(t) /\ PublisherGoesOn => Settles
<1> SUFFICES ASSUME Spec, PollGoesOn(t), PublisherGoesOn,
                    NEW a \in Accounts, NEW w \in Accounts \cup {Out}
             PROVE  <>[]Steady(a, w) => <>[]Right(a, w)
  BY DEF Settles
<1>1. QED
  BY AccountSettles
=============================================================================
