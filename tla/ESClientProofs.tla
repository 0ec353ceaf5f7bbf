--------------------------- MODULE ESClientProofs ---------------------------
(***************************************************************************)
(* Proofs about ESClient, for any numbers of users, passwords and slots,   *)
(* when no answer comes after the client has given up (Late = FALSE).      *)
(* The inductive invariant follows the datagram of the command the client  *)
(* waits for: it is the only one the client may receive, it is the request *)
(* until the server has carried it out, and the answer, once it is under   *)
(* way, leads to a session that is true of the account files.              *)
(***************************************************************************)
EXTENDS ESClient, AccountsProofs

\* is_logged_in and the password of this session are those on the server.
Belief(ses) ==
    ses.uid \in Own =>
        /\ ses.on <=> ses.uid \in loggedIn
        /\ ses.on => password[ses.uid] = ses.pass

Shapes == TypeOK /\ SessionsRegistered

\* A request, an answer in slot s.
Asks(s) == flight[s] # Nothing /\ flight[s].kind = "request"
Answers(s) == flight[s] # Nothing /\ flight[s].kind = "answer"

OneDatagram ==
    /\ \A s \in 1..Slots : flight[s] # Nothing => AwaitsDatagram /\ flight[s].awaited
    /\ \A s, t \in 1..Slots : flight[s] # Nothing /\ flight[t] # Nothing => s = t

\* The request under way is that of the command, and all but LIN are about the session.
RequestIsCommand ==
    /\ \A s \in 1..Slots :
          Asks(s) => /\ flight[s].cmd = waiting.cmd
                     /\ flight[s].uid = waiting.uid
                     /\ flight[s].pass = waiting.pass
    /\ ~AtPrompt /\ waiting.cmd # "LIN" => waiting.uid = session.uid

\* The server has not carried out the command yet.
Unserved ==
    \/ \E s \in 1..Slots : Asks(s)
    \/ ~AtPrompt /\ waiting.cmd = "CPS" /\ waiting.answer = "none"

SessionTrue == unsure \/ Belief(session)

AnswerLeads(status) == ~unsure \/ Settles(status) => Belief(SessionAfter(status))

BeliefInv ==
    /\ AtPrompt \/ Unserved \/ waiting.cmd = "LME" => SessionTrue
    /\ \A s \in 1..Slots : Answers(s) => AnswerLeads(flight[s].status)
    /\ ~AtPrompt /\ waiting.cmd = "CPS" /\ waiting.answer # "none" =>
          AnswerLeads(waiting.answer)

ClientInv == Shapes /\ OneDatagram /\ RequestIsCommand /\ BeliefInv

-----------------------------------------------------------------------------
(* What the server's steps do *)

\* A request carried out leaves other users alone, and its status tells what
\* became of this one's files.
CarriedOut(cmd, u, p) ==
    /\ \A v \in Users \ {u} :
          password'[v] = password[v] /\ (v \in loggedIn' <=> v \in loggedIn)
    /\ reply'.status \in Statuses
    /\ \/ UNCHANGED accountFiles
       \/ cmd = "LIN" /\ reply'.status \in {"OK", "REG"}
       \/ cmd \in {"LOU", "UNR"} /\ reply'.status = "OK"
    /\ cmd = "LIN" /\ reply'.status \in {"OK", "REG"} =>
          u \in loggedIn' /\ password'[u] = p
    /\ cmd \in {"LOU", "UNR"} /\ reply'.status = "OK" => u \notin loggedIn'

LEMMA StatusOfAnswer ==
    ASSUME NEW rsp, NEW u, NEW status, AnswerStatus(rsp, u, 0, status)
    PROVE  reply'.status = status
BY DEF AnswerStatus, Answer

LEMMA HandleKeepsShapes ==
    ASSUME AccountsInv,
           \/ [AccountsNext]_accountFiles
           \/ \E u \in Users, p \in Passwords : HandleMyEvents(u, p)
    PROVE  AccountsInv'
BY AccountsStep DEF HandleMyEvents

LEMMA HandleCarriesOut ==
    ASSUME AccountsTypeOK, NEW m \in RequestMessage, Handle(m)
    PROVE  CarriedOut(m.cmd, m.uid, m.pass)
<1> DEFINE u == m.uid
           p == m.pass
<1>1. m.uid \in Users /\ m.pass \in Passwords
    BY DEF RequestMessage
<1> USE <1>1 DEF AccountsTypeOK, Statuses, CarriedOut
<1>2. ASSUME m.cmd = "LIN", HandleLogin(m.uid, m.pass)
      PROVE  CarriedOut(m.cmd, m.uid, m.pass)
    <2>1. CASE AuthenticateUser(m.uid, m.pass) = 1
        <3>1. /\ LoginUser(m.uid) /\ UNCHANGED <<userDir, password>>
              /\ AnswerStatus("RLI", m.uid, 0, "OK")
            BY <1>2, <2>1 DEF HandleLogin
        <3> QED  BY <1>2, <2>1, <3>1, StatusOfAnswer, Authentication DEF LoginUser
    <2>2. CASE AuthenticateUser(m.uid, m.pass) = 0
        <3>1. /\ RegisterUser(m.uid, m.pass) /\ LoginUser(m.uid)
              /\ AnswerStatus("RLI", m.uid, 0, "REG")
            BY <1>2, <2>2 DEF HandleLogin
        <3> QED  BY <1>2, <3>1, StatusOfAnswer DEF LoginUser, RegisterUser
    <2>3. CASE AuthenticateUser(m.uid, m.pass) = -1
        <3>1. UNCHANGED accountFiles /\ AnswerStatus("RLI", m.uid, 0, "NOK")
            BY <1>2, <2>3 DEF HandleLogin
        <3> QED  BY <1>2, <3>1, StatusOfAnswer DEF accountFiles
    <2> QED  BY <2>1, <2>2, <2>3 DEF AuthenticateUser
<1>3. LeaveRefusal(m.uid, m.pass) \in {"UNR", "WRP", "NOK"}
    BY DEF LeaveRefusal
<1>4. ASSUME m.cmd = "LOU", HandleLogout(m.uid, m.pass)
      PROVE  CarriedOut(m.cmd, m.uid, m.pass)
    <2>1. CASE MayLeave(m.uid, m.pass)
        <3>1. /\ LogoutUser(m.uid) /\ UNCHANGED <<userDir, password>>
              /\ AnswerStatus("RLO", m.uid, 0, "OK")
            BY <1>4, <2>1 DEF HandleLogout
        <3> QED  BY <1>4, <3>1, StatusOfAnswer DEF LogoutUser
    <2>2. CASE ~MayLeave(m.uid, m.pass)
        <3>1. /\ UNCHANGED accountFiles
              /\ AnswerStatus("RLO", m.uid, 0, LeaveRefusal(m.uid, m.pass))
            BY <1>4, <2>2 DEF HandleLogout
        <3>2. reply'.status = LeaveRefusal(m.uid, m.pass)
            BY <3>1, StatusOfAnswer
        <3> QED  BY <1>3, <1>4, <3>1, <3>2 DEF accountFiles
    <2> QED  BY <2>1, <2>2
<1>5. ASSUME m.cmd = "UNR", HandleUnregister(m.uid, m.pass)
      PROVE  CarriedOut(m.cmd, m.uid, m.pass)
    <2>1. CASE MayLeave(m.uid, m.pass)
        <3>1. UnregisterUser(m.uid) /\ AnswerStatus("RUR", m.uid, 0, "OK")
            BY <1>5, <2>1 DEF HandleUnregister
        <3> QED  BY <1>5, <3>1, StatusOfAnswer DEF UnregisterUser, LogoutUser
    <2>2. CASE ~MayLeave(m.uid, m.pass)
        <3>1. /\ UNCHANGED accountFiles
              /\ AnswerStatus("RUR", m.uid, 0, LeaveRefusal(m.uid, m.pass))
            BY <1>5, <2>2 DEF HandleUnregister
        <3>2. reply'.status = LeaveRefusal(m.uid, m.pass)
            BY <3>1, StatusOfAnswer
        <3> QED  BY <1>3, <1>5, <3>1, <3>2 DEF accountFiles
    <2> QED  BY <2>1, <2>2
<1>6. ASSUME m.cmd = "LME", HandleMyEvents(m.uid, m.pass)
      PROVE  CarriedOut(m.cmd, m.uid, m.pass)
    <2>1. PICK status \in {"NOK", "WRP", "NLG", "OK"} :
              AnswerStatus("RME", m.uid, 0, status)
        BY <1>6, SMTT(30) DEF HandleMyEvents
    <2>2. UNCHANGED accountFiles
        BY <1>6 DEF HandleMyEvents
    <2> QED  BY <1>6, <2>1, <2>2, StatusOfAnswer DEF accountFiles
<1> QED  BY <1>2, <1>4, <1>5, <1>6 DEF Handle

\* A password changed over TCP: OK means that the session is open and that the
\* new password is in the file.
LEMMA ChangeCarriesOut ==
    ASSUME AccountsTypeOK, NEW u \in Users, NEW p \in Passwords, NEW new \in Passwords,
           HandleChangePassword(u, p, new)
    PROVE  /\ \A v \in Users \ {u} : password'[v] = password[v]
           /\ loggedIn' = loggedIn
           /\ reply'.status \in Statuses
           /\ \/ reply'.status = "OK" /\ u \in loggedIn /\ password'[u] = new
              \/ reply'.status # "OK" /\ UNCHANGED accountFiles
<1> USE DEF AccountsTypeOK, Statuses
<1>1. CASE MayChangePassword(u, p)
    <2>1. /\ password' = [password EXCEPT ![u] = new]
          /\ UNCHANGED <<userDir, loggedIn>>
          /\ AnswerStatus("RCP", u, 0, "OK")
        BY <1>1 DEF HandleChangePassword
    <2> QED  BY <1>1, <2>1, StatusOfAnswer DEF MayChangePassword
<1>2. CASE ~MayChangePassword(u, p)
    <2>1. PICK status \in {"NID", "NOK", "NLG"} : AnswerStatus("RCP", u, 0, status)
        BY <1>2 DEF HandleChangePassword
    <2>2. UNCHANGED accountFiles
        BY <1>2 DEF HandleChangePassword
    <2> QED  BY <2>1, <2>2, StatusOfAnswer DEF accountFiles
<1> QED  BY <1>1, <1>2

-----------------------------------------------------------------------------
(* One step of each kind *)

LEMMA DatagramKinds ==
    ASSUME NEW d \in Datagram
    PROVE  /\ d # Nothing
           /\ d.kind = "request" \/ d.kind = "answer"
           /\ d.kind = "request" <=> d \in RequestMessage
           /\ d.kind = "answer" <=> d \in AnswerMessage
<1>1. d # Nothing
    BY NothingAssumption
<1>2. CASE d \in RequestMessage
    BY <1>1, <1>2 DEF RequestMessage, AnswerMessage
<1>3. CASE d \in AnswerMessage
    BY <1>1, <1>3 DEF RequestMessage, AnswerMessage
<1> QED  BY <1>2, <1>3 DEF Datagram

LEMMA SlotTypes ==
    ASSUME TypeOK, NEW s \in 1..Slots
    PROVE  /\ Asks(s) <=> flight[s] \in RequestMessage
           /\ Answers(s) <=> flight[s] \in AnswerMessage
           /\ flight[s] # Nothing <=> Asks(s) \/ Answers(s)
           /\ ~(Asks(s) /\ Answers(s))
<1>1. flight[s] \in Datagram \cup {Nothing}
    BY DEF TypeOK
<1>2. CASE flight[s] = Nothing
    <2>1. Nothing \notin RequestMessage /\ Nothing \notin AnswerMessage
        BY NothingAssumption DEF Datagram
    <2> QED  BY <1>2, <2>1 DEF Asks, Answers
<1>3. CASE flight[s] \in Datagram
    <2> DEFINE d == flight[s]
    <2>1. /\ d # Nothing
          /\ d.kind = "request" \/ d.kind = "answer"
          /\ d.kind = "request" <=> d \in RequestMessage
          /\ d.kind = "answer" <=> d \in AnswerMessage
        BY <1>3, DatagramKinds
    <2>2. ~(d.kind = "request" /\ d.kind = "answer")
        OBVIOUS
    <2> HIDE DEF d
    <2>3. /\ d # Nothing /\ d.kind = "request" <=> d \in RequestMessage
          /\ d # Nothing /\ d.kind = "answer" <=> d \in AnswerMessage
          /\ d # Nothing
          /\ d \in RequestMessage \/ d \in AnswerMessage
          /\ ~(d \in RequestMessage /\ d \in AnswerMessage)
        BY <2>1, <2>2
    <2> QED  BY <2>3 DEF d, Asks, Answers
<1> QED  BY <1>1, <1>2, <1>3

LEMMA WaitingTypes ==
    ASSUME TypeOK, ~AtPrompt
    PROVE  /\ waiting \in Command
           /\ waiting.cmd \in UdpCommands \cup {"CPS"}
           /\ waiting.uid \in Users /\ waiting.pass \in Passwords /\ waiting.new \in Passwords
BY DEF TypeOK, AtPrompt, Command

LEMMA SessionAfterTypes ==
    ASSUME TypeOK, ~AtPrompt, NEW status
    PROVE  SessionAfter(status) \in [uid : Users, pass : Passwords, on : BOOLEAN]
BY WaitingTypes, UidsAssumption DEF SessionAfter, StartState, TypeOK

\* Nobody has a slot at the prompt.
LEMMA PromptIsQuiet ==
    ASSUME OneDatagram, AtPrompt
    PROVE  \A s \in 1..Slots : flight[s] = Nothing
BY DEF OneDatagram, AwaitsDatagram

LEMMA NoneUnderWay ==
    ASSUME OneDatagram, UnderWay = {}
    PROVE  \A s \in 1..Slots : flight[s] = Nothing
BY DEF OneDatagram, UnderWay, Free

\* A session that goes on with the same files is as true as it was.
LEMMA AccountsInvIs == AccountsInv <=> AccountsTypeOK /\ SessionsRegistered
BY DEF AccountsInv

LEMMA AccountsStay ==
    ASSUME AccountsInv, UNCHANGED accountFiles
    PROVE  AccountsInv'
BY AccountsStep

LEMMA IssueKeeps ==
    ASSUME ClientInv, NEW cmd \in UdpCommands, NEW u \in Users, NEW p \in Passwords,
           NEW leave \in BOOLEAN, Issue(cmd, u, p, leave),
           cmd # "LIN" => u = session.uid
    PROVE  ClientInv'
<1> DEFINE c == [cmd |-> cmd, uid |-> u, pass |-> p, new |-> p,
                 leave |-> leave, answer |-> "none"]
           m == [kind |-> "request", awaited |-> TRUE, cmd |-> cmd, uid |-> u, pass |-> p]
<1>1. /\ AtPrompt /\ waiting' = c
      /\ UNCHANGED <<accountFiles, session, unsure>> /\ UNCHANGED accountFiles
    BY DEF Issue, accountFiles
<1>2. c \in Command /\ m \in RequestMessage
    BY DEF Command, RequestMessage
<1>21. m \in Datagram /\ c # Nothing /\ m # Nothing
    <2> HIDE DEF c, m
    <2>1. m \in Datagram
        BY <1>2 DEF Datagram
    <2> QED  BY <1>2, <2>1, NothingAssumption
<1>3. \A s \in 1..Slots : flight[s] = Nothing
    BY <1>1, PromptIsQuiet DEF ClientInv
<1>4. flight \in [1..Slots -> Datagram \cup {Nothing}]
    BY DEF ClientInv, Shapes, TypeOK
<1>5. \/ flight' = flight
      \/ \E s \in 1..Slots : flight' = [flight EXCEPT ![s] = m]
    BY DEF Issue, Send, Free
<1>6. /\ flight' \in [1..Slots -> Datagram \cup {Nothing}]
      /\ \A s \in 1..Slots : flight'[s] # Nothing => flight'[s] = m
      /\ \A s, t \in 1..Slots : flight'[s] # Nothing /\ flight'[t] # Nothing => s = t
    BY <1>21, <1>3, <1>4, <1>5
<1>7. AccountsInv'
    BY <1>1, AccountsStay, AccountsInvIs DEF ClientInv, Shapes, TypeOK
<1>8. Shapes'
    BY <1>1, <1>2, <1>21, <1>6, <1>7 DEF ClientInv, Shapes, TypeOK, AccountsInv
<1>9. cmd # "CPS" /\ ~AtPrompt'
    BY <1>1, <1>21 DEF UdpCommands, AtPrompt
<1>10. OneDatagram' /\ RequestIsCommand'
    BY <1>1, <1>6, <1>9 DEF OneDatagram, RequestIsCommand, AwaitsDatagram, Asks
<1>11. SessionTrue'
    BY <1>1 DEF ClientInv, BeliefInv, SessionTrue, Belief, accountFiles
<1>12. BeliefInv'
    BY <1>1, <1>6, <1>9, <1>11 DEF BeliefInv, Answers
<1> QED  BY <1>8, <1>10, <1>12 DEF ClientInv

LEMMA ChangePasswordKeeps ==
    ASSUME ClientInv, NEW old \in Passwords, NEW new \in Passwords,
           CmdChangePassword(old, new)
    PROVE  ClientInv'
<1> DEFINE c == [cmd |-> "CPS", uid |-> session.uid, pass |-> old, new |-> new,
                 leave |-> FALSE, answer |-> "none"]
<1>1. /\ AtPrompt /\ waiting' = c
      /\ UNCHANGED <<accountFiles, session, unsure, flight>> /\ UNCHANGED accountFiles
    BY DEF CmdChangePassword, accountFiles
<1>2. c \in Command /\ c # Nothing
    <2>1. session.uid \in Users
        BY DEF ClientInv, Shapes, TypeOK
    <2>2. c \in Command
        BY <2>1 DEF Command
    <2> HIDE DEF c
    <2> QED  BY <2>2, NothingAssumption
<1>3. \A s \in 1..Slots : flight'[s] = Nothing
    BY <1>1, PromptIsQuiet DEF ClientInv
<1>4. AccountsInv'
    BY <1>1, AccountsStay, AccountsInvIs DEF ClientInv, Shapes, TypeOK
<1>5. Shapes'
    BY <1>1, <1>2, <1>4 DEF ClientInv, Shapes, TypeOK, AccountsInv
<1>6. OneDatagram' /\ RequestIsCommand'
    BY <1>1, <1>3 DEF OneDatagram, RequestIsCommand, Asks
<1>7. SessionTrue'
    BY <1>1 DEF ClientInv, BeliefInv, SessionTrue, Belief, accountFiles
<1>8. BeliefInv'
    BY <1>1, <1>3, <1>7 DEF BeliefInv, Answers
<1> QED  BY <1>5, <1>6, <1>8 DEF ClientInv

\* A new client knows nothing of an earlier one.
LEMMA RestartKeeps ==
    ASSUME ClientInv, \A s \in 1..Slots : ~Asks(s), Restart
    PROVE  ClientInv'
<1>1. /\ session' = StartState /\ waiting' = Nothing /\ unsure' = FALSE
      /\ UNCHANGED accountFiles
    BY DEF Restart
<1>2. flight' = [s \in 1..Slots |-> Nothing]
    <2>1. ASSUME NEW s \in 1..Slots
          PROVE  \/ s \notin UnderWay /\ flight[s] = Nothing
                 \/ s \in UnderWay /\ flight[s].kind = "answer"
        BY SlotTypes DEF ClientInv, Shapes, OneDatagram, UnderWay, Free, Answers
    <2> QED  BY <2>1 DEF Restart
<1>3. AccountsInv'
    BY <1>1, AccountsStay, AccountsInvIs DEF ClientInv, Shapes, TypeOK
<1>4. Shapes'
    BY <1>1, <1>2, <1>3, UidsAssumption DEF Shapes, TypeOK, AccountsInv, StartState
<1>5. OneDatagram' /\ RequestIsCommand'
    BY <1>1, <1>2 DEF OneDatagram, RequestIsCommand, Asks, AtPrompt
<1>6. BeliefInv'
    BY <1>1, <1>2, UidsAssumption
    DEF BeliefInv, Answers, AtPrompt, SessionTrue, Belief, StartState
<1> QED  BY <1>4, <1>5, <1>6 DEF ClientInv

\* The server reads the client's request and may answer it.
LEMMA ServedLeads ==
    ASSUME ClientInv, AwaitsDatagram, SessionTrue, UNCHANGED clientVars,
           CarriedOut(waiting.cmd, waiting.uid, waiting.pass),
           NEW CONSTANT status \in Statuses, reply'.status = status
    PROVE  /\ AnswerLeads(status)'
           /\ waiting.cmd = "LME" => SessionTrue'
<1>1. /\ waiting.cmd \in UdpCommands /\ waiting.uid \in Users
      /\ waiting.cmd # "LIN" => waiting.uid = session.uid
    BY WaitingTypes DEF ClientInv, Shapes, RequestIsCommand, AwaitsDatagram
<1>2. session' = session /\ waiting' = waiting /\ unsure' = unsure
    BY DEF clientVars
<1>3. session \in [uid : Users, pass : Passwords, on : BOOLEAN]
    BY DEF ClientInv, Shapes, TypeOK
<1>4. CASE waiting.cmd = "LIN"
    BY <1>1, <1>2, <1>3, <1>4
    DEF CarriedOut, AnswerLeads, Settles, SessionAfter, SessionTrue, Belief, accountFiles
<1>5. CASE waiting.cmd = "LOU"
    BY <1>1, <1>2, <1>3, <1>5
    DEF CarriedOut, AnswerLeads, Settles, SessionAfter, SessionTrue, Belief, accountFiles
<1>6. CASE waiting.cmd = "UNR"
    BY <1>1, <1>2, <1>3, <1>6, UidsAssumption
    DEF CarriedOut, AnswerLeads, Settles, SessionAfter, SessionTrue, Belief, StartState, accountFiles
<1>7. CASE waiting.cmd = "LME"
    BY <1>1, <1>2, <1>3, <1>7
    DEF CarriedOut, AnswerLeads, Settles, SessionAfter, SessionTrue, Belief, accountFiles
<1> QED  BY <1>1, <1>4, <1>5, <1>6, <1>7 DEF UdpCommands

LEMMA ServeKeeps ==
    ASSUME ClientInv, NEW s \in 1..Slots, Serve(s)
    PROVE  ClientInv'
<1> DEFINE m == flight[s]
           status == reply'.status
           a == [kind |-> "answer", awaited |-> TRUE, status |-> status]
<1>1. /\ m # Nothing /\ m.kind = "request" /\ Handle(m)
      /\ UNCHANGED clientVars
    BY DEF Serve, Free
<1>2. /\ m \in RequestMessage /\ Asks(s)
      /\ AwaitsDatagram /\ ~AtPrompt /\ waiting.cmd # "CPS"
      /\ m.cmd = waiting.cmd /\ m.uid = waiting.uid /\ m.pass = waiting.pass
      /\ SessionTrue
    BY <1>1, SlotTypes
    DEF ClientInv, Shapes, OneDatagram, RequestIsCommand, BeliefInv, Unserved, Asks, AwaitsDatagram
<1>3. CarriedOut(waiting.cmd, waiting.uid, waiting.pass)
    BY <1>1, <1>2, HandleCarriesOut DEF ClientInv, Shapes, TypeOK
<1>4. status \in Statuses
    BY <1>3 DEF CarriedOut
<1>5. a \in Datagram /\ a # Nothing
    <2>1. a \in AnswerMessage
        BY <1>4 DEF AnswerMessage
    <2> HIDE DEF a
    <2> QED  BY <2>1, NothingAssumption DEF Datagram
<1>6. \A t \in 1..Slots : flight[t] # Nothing => t = s
    BY <1>1 DEF ClientInv, OneDatagram
<1>7. flight \in [1..Slots -> Datagram \cup {Nothing}]
    BY DEF ClientInv, Shapes, TypeOK
<1>8. \/ flight' = [flight EXCEPT ![s] = Nothing]
      \/ flight' = [flight EXCEPT ![s] = a]
    BY DEF Serve
<1>9. /\ flight' \in [1..Slots -> Datagram \cup {Nothing}]
      /\ \A t \in 1..Slots : flight'[t] # Nothing => t = s /\ flight'[t] = a
    <2> HIDE DEF a
    <2> QED  BY <1>5, <1>6, <1>7, <1>8
<1>10. waiting' = waiting /\ session' = session /\ unsure' = unsure
    BY <1>1 DEF clientVars
<1>11. AccountsInv'
    <2>1. m.uid \in Users /\ m.pass \in Passwords
        BY <1>2 DEF RequestMessage
    <2>2. \/ [AccountsNext]_accountFiles
          \/ \E u \in Users, p \in Passwords : HandleMyEvents(u, p)
        BY <1>1, <2>1 DEF Handle, AccountsNext
    <2> QED  BY <2>2, HandleKeepsShapes, AccountsInvIs DEF ClientInv, Shapes, TypeOK
<1>12. Shapes'
    BY <1>9, <1>10, <1>11 DEF ClientInv, Shapes, TypeOK, AccountsInv
<1>13. \A t \in 1..Slots : ~Asks(t)'
    BY <1>9 DEF Asks
<1>14. OneDatagram' /\ RequestIsCommand'
    BY <1>2, <1>9, <1>10, <1>13
    DEF ClientInv, OneDatagram, RequestIsCommand, AwaitsDatagram, AtPrompt
<1>15. /\ \A st \in Statuses : status = st => AnswerLeads(st)'
       /\ waiting.cmd = "LME" => SessionTrue'
    <2>1. ASSUME NEW CONSTANT st \in Statuses, status = st
          PROVE  AnswerLeads(st)' /\ (waiting.cmd = "LME" => SessionTrue')
        BY <1>1, <1>2, <1>3, <2>1, ServedLeads
    <2> QED  BY <1>4, <2>1
<1>16. BeliefInv'
    <2>1. ~AtPrompt' /\ ~Unserved' /\ waiting'.cmd # "CPS"
        BY <1>2, <1>10, <1>13 DEF AtPrompt, Unserved
    <2>2. ASSUME NEW t \in 1..Slots, Answers(t)'
          PROVE  AnswerLeads(flight[t].status)'
        <3>1. flight'[t].status = status
            BY <1>9, <2>2 DEF Answers
        <3>2. PICK st \in Statuses : status = st
            BY <1>4
        <3>3. AnswerLeads(st)' /\ flight'[t].status = st
            BY <1>15, <3>1, <3>2
        <3> QED  BY <3>3 DEF AnswerLeads, Settles, SessionAfter
    <2> QED  BY <1>10, <1>15, <2>1, <2>2 DEF BeliefInv
<1> QED  BY <1>12, <1>14, <1>16 DEF ClientInv

LEMMA ServeTcpKeeps ==
    ASSUME ClientInv, ServeTcp
    PROVE  ClientInv'
<1> DEFINE status == reply'.status
<1>1. /\ ~AtPrompt /\ waiting.cmd = "CPS" /\ waiting.answer = "none"
      /\ HandleChangePassword(waiting.uid, waiting.pass, waiting.new)
      /\ waiting' = [waiting EXCEPT !.answer = status]
      /\ session' = session /\ unsure' = unsure /\ flight' = flight
    BY DEF ServeTcp
<1>2. /\ waiting \in Command /\ waiting.uid \in Users
      /\ waiting.pass \in Passwords /\ waiting.new \in Passwords
      /\ waiting.uid = session.uid /\ SessionTrue
      /\ session \in [uid : Users, pass : Passwords, on : BOOLEAN]
    BY <1>1, WaitingTypes
    DEF ClientInv, Shapes, TypeOK, RequestIsCommand, BeliefInv, Unserved
<1>3. /\ loggedIn' = loggedIn
      /\ status \in Statuses
      /\ \/ status = "OK" /\ session.uid \in loggedIn /\ password'[session.uid] = waiting.new
         \/ status # "OK" /\ UNCHANGED accountFiles
    BY <1>1, <1>2, ChangeCarriesOut DEF ClientInv, Shapes, TypeOK
<1>4. AccountsInv'
    <2>1. AccountsNext
        BY <1>1, <1>2 DEF AccountsNext
    <2> QED  BY <2>1, AccountsStep, AccountsInvIs DEF ClientInv, Shapes, TypeOK
<1>5. waiting' \in Command /\ ~AtPrompt' /\ waiting'.cmd = "CPS"
    <2>1. waiting' \in Command /\ waiting'.cmd = "CPS"
        BY <1>1, <1>2, <1>3 DEF Command
    <2> QED  BY <2>1, NothingAssumption DEF AtPrompt
<1>6. Shapes'
    BY <1>1, <1>4, <1>5 DEF ClientInv, Shapes, TypeOK, AccountsInv
<1>7. \A s \in 1..Slots : flight[s] = Nothing
    BY <1>1 DEF ClientInv, OneDatagram, AwaitsDatagram
<1>8. waiting'.uid = session'.uid /\ waiting'.new = waiting.new /\ waiting'.answer = status
    BY <1>1, <1>2 DEF Command
<1>9. OneDatagram' /\ RequestIsCommand'
    BY <1>1, <1>7, <1>8 DEF OneDatagram, RequestIsCommand, Asks
<1>10. AnswerLeads(waiting.answer)'
    <2>1. CASE status = "OK"
        BY <1>1, <1>2, <1>3, <1>5, <1>8, <2>1
        DEF AnswerLeads, Settles, SessionAfter, SessionTrue, Belief
    <2>2. CASE status # "OK"
        BY <1>1, <1>2, <1>3, <1>5, <1>8, <2>2
        DEF AnswerLeads, Settles, SessionAfter, SessionTrue, Belief, accountFiles
    <2> QED  BY <2>1, <2>2
<1>11. BeliefInv'
    <2>1. ~Unserved'
        BY <1>1, <1>3, <1>7, <1>8 DEF Unserved, Asks, Statuses
    <2> QED  BY <1>1, <1>5, <1>7, <1>10, <2>1 DEF BeliefInv, Answers
<1> QED  BY <1>6, <1>9, <1>11 DEF ClientInv

\* What is done for another client leaves the UIDs of this one alone.
LEMMA ServeOtherKeeps ==
    ASSUME ClientInv, NEW u \in Shared, NEW p \in Passwords, ServeOther(u, p)
    PROVE  ClientInv'
<1>1. session' = session /\ waiting' = waiting /\ unsure' = unsure /\ flight' = flight
    BY DEF ServeOther, clientVars
<1>2. u \in Users /\ u \notin Own
    BY UidsAssumption
<1>3. AccountsNext
    BY <1>2 DEF ServeOther, AccountsNext
<1>4. AccountsInv'
    BY <1>3, AccountsStep, AccountsInvIs DEF ClientInv, Shapes, TypeOK
<1>5. \A v \in Own : password'[v] = password[v] /\ (v \in loggedIn' <=> v \in loggedIn)
    <2> USE <1>2, UidsAssumption DEF accountFiles, ClientInv, Shapes, TypeOK, AccountsTypeOK
    <2>1. CASE HandleLogin(u, p)
        BY <2>1 DEF HandleLogin, RegisterUser, LoginUser
    <2>2. CASE HandleLogout(u, p)
        BY <2>2 DEF HandleLogout, LogoutUser
    <2>3. CASE HandleUnregister(u, p)
        BY <2>3 DEF HandleUnregister, UnregisterUser, LogoutUser
    <2>4. CASE \E new \in Passwords : HandleChangePassword(u, p, new)
        BY <2>4 DEF HandleChangePassword
    <2> QED  BY <2>1, <2>2, <2>3, <2>4 DEF ServeOther
<1>6. Shapes'
    BY <1>1, <1>4 DEF ClientInv, Shapes, TypeOK, AccountsInv
<1>7. OneDatagram' /\ RequestIsCommand'
    BY <1>1 DEF ClientInv, OneDatagram, RequestIsCommand, AwaitsDatagram, AtPrompt, Asks
<1>8. /\ SessionTrue => SessionTrue'
      /\ \A status : AnswerLeads(status) => AnswerLeads(status)'
    BY <1>1, <1>5 DEF SessionTrue, AnswerLeads, Settles, SessionAfter, Belief
<1>9. BeliefInv'
    BY <1>1, <1>8 DEF ClientInv, BeliefInv, AtPrompt, Unserved, Asks, Answers
<1> QED  BY <1>6, <1>7, <1>9 DEF ClientInv

\* Back at the prompt with nothing under way and a session that is true.
LEMMA PromptKeeps ==
    ASSUME ClientInv, UNCHANGED accountFiles, waiting' = Nothing,
           \A s \in 1..Slots : flight'[s] = Nothing,
           flight' \in [1..Slots -> Datagram \cup {Nothing}],
           session' \in [uid : Users, pass : Passwords, on : BOOLEAN],
           unsure' \in BOOLEAN, SessionTrue'
    PROVE  ClientInv'
<1>1. AccountsInv'
    BY AccountsStay, AccountsInvIs DEF ClientInv, Shapes, TypeOK
<1>2. Shapes'
    BY <1>1 DEF Shapes, TypeOK, AccountsInv
<1>3. OneDatagram' /\ RequestIsCommand'
    BY DEF OneDatagram, RequestIsCommand, Asks, AtPrompt
<1>4. BeliefInv'
    BY DEF BeliefInv, Answers, AtPrompt
<1> QED  BY <1>2, <1>3, <1>4 DEF ClientInv

LEMMA FinishKeeps ==
    ASSUME ClientInv, ~AtPrompt, NEW CONSTANT status, AnswerLeads(status), Finish(status),
           UNCHANGED accountFiles,
           \A s \in 1..Slots : flight'[s] = Nothing,
           flight' \in [1..Slots -> Datagram \cup {Nothing}]
    PROVE  ClientInv'
<1>1. /\ session' = SessionAfter(status) /\ waiting' = Nothing
      /\ unsure' = (unsure /\ ~Settles(status))
    BY DEF Finish
<1>2. session' \in [uid : Users, pass : Passwords, on : BOOLEAN]
    BY <1>1, SessionAfterTypes DEF ClientInv, Shapes
<1>3. SessionTrue'
    BY <1>1 DEF AnswerLeads, SessionTrue, Belief, accountFiles
<1>4. unsure' \in BOOLEAN
    BY <1>1
<1> QED  BY <1>1, <1>2, <1>3, <1>4, PromptKeeps

LEMMA GiveUpKeeps ==
    ASSUME ClientInv, ~AtPrompt, GiveUp, UNCHANGED <<accountFiles, flight>>,
           \A s \in 1..Slots : flight[s] = Nothing
    PROVE  ClientInv'
<1>1. /\ waiting' = Nothing /\ session' = session
      /\ unsure' = (unsure \/ waiting.cmd # "LME")
    BY DEF GiveUp
<1>2. SessionTrue'
    <2>1. CASE waiting.cmd = "LME"
        BY <1>1, <2>1 DEF ClientInv, BeliefInv, SessionTrue, Belief, accountFiles
    <2>2. CASE waiting.cmd # "LME"
        BY <1>1, <2>2 DEF SessionTrue
    <2> QED  BY <2>1, <2>2
<1>3. /\ session \in [uid : Users, pass : Passwords, on : BOOLEAN]
      /\ flight \in [1..Slots -> Datagram \cup {Nothing}]
    BY DEF ClientInv, Shapes, TypeOK
<1>4. unsure' \in BOOLEAN
    BY <1>1
<1> QED  BY <1>1, <1>2, <1>3, <1>4, PromptKeeps

LEMMA ReceiveKeeps ==
    ASSUME ClientInv, NEW s \in 1..Slots, Receive(s)
    PROVE  ClientInv'
<1>1. /\ ~AtPrompt /\ s \in UnderWay /\ flight[s] # Nothing /\ flight[s].kind = "answer"
    BY DEF Receive, AwaitsDatagram, UnderWay, Free
<1>2. Answers(s) /\ \A t \in 1..Slots : flight[t] # Nothing => t = s
    BY <1>1 DEF Answers, ClientInv, OneDatagram
<1>3. CASE Restart
    <2>1. \A t \in 1..Slots : ~Asks(t)
        BY <1>2, SlotTypes DEF ClientInv, Shapes, Asks, Answers
    <2> QED  BY <1>3, <2>1, RestartKeeps
<1>4. CASE /\ Finish(flight[s].status)
           /\ flight' = [flight EXCEPT ![s] = Nothing]
           /\ UNCHANGED accountFiles
    <2>1. flight[s].status \in Statuses
        BY <1>2, SlotTypes DEF ClientInv, Shapes, AnswerMessage
    <2>2. PICK status \in Statuses : flight[s].status = status
        BY <2>1
    <2>3. AnswerLeads(status) /\ Finish(status)
        BY <1>2, <1>4, <2>2 DEF ClientInv, BeliefInv
    <2>4. flight \in [1..Slots -> Datagram \cup {Nothing}]
        BY DEF ClientInv, Shapes, TypeOK
    <2>5. /\ \A t \in 1..Slots : flight'[t] = Nothing
          /\ flight' \in [1..Slots -> Datagram \cup {Nothing}]
        BY <1>2, <1>4, <2>4
    <2> QED  BY <1>1, <1>4, <2>3, <2>5, FinishKeeps
<1> QED  BY <1>3, <1>4 DEF Receive

\* The one place that needs answers in time: whoever gives up leaves nothing
\* under way for a later command to take for its answer.
LEMMA TimeOutKeeps ==
    ASSUME ClientInv, ~Late, TimeOut
    PROVE  ClientInv'
<1>1. ~AtPrompt /\ UnderWay = {}
    BY DEF TimeOut, AwaitsDatagram
<1>2. \A s \in 1..Slots : flight[s] = Nothing
    BY <1>1, NoneUnderWay DEF ClientInv
<1>3. CASE Restart
    BY <1>2, <1>3, RestartKeeps DEF Asks
<1>4. CASE GiveUp /\ UNCHANGED <<accountFiles, flight>>
    BY <1>1, <1>2, <1>4, GiveUpKeeps
<1> QED  BY <1>3, <1>4 DEF TimeOut

LEMMA ReadTcpKeeps ==
    ASSUME ClientInv, ReadTcp
    PROVE  ClientInv'
<1>1. /\ ~AtPrompt /\ waiting.cmd = "CPS" /\ waiting.answer # "none"
      /\ Finish(waiting.answer) /\ UNCHANGED <<accountFiles, flight>>
    BY DEF ReadTcp
<1>2. /\ \A s \in 1..Slots : flight[s] = Nothing
      /\ flight \in [1..Slots -> Datagram \cup {Nothing}]
    BY <1>1 DEF ClientInv, OneDatagram, AwaitsDatagram, Shapes, TypeOK
<1>3. waiting.answer \in Statuses
    BY <1>1, WaitingTypes DEF ClientInv, Shapes, Command
<1>4. PICK status \in Statuses : waiting.answer = status
    BY <1>3
<1>5. AnswerLeads(status) /\ Finish(status)
    BY <1>1, <1>4 DEF ClientInv, BeliefInv
<1> QED  BY <1>1, <1>2, <1>5, FinishKeeps

LEMMA ConnectionBreaksKeeps ==
    ASSUME ClientInv, ConnectionBreaks
    PROVE  ClientInv'
<1>1. /\ ~AtPrompt /\ waiting.cmd = "CPS" /\ GiveUp
      /\ UNCHANGED <<accountFiles, flight>>
    BY DEF ConnectionBreaks
<1>2. \A s \in 1..Slots : flight[s] = Nothing
    BY <1>1 DEF ClientInv, OneDatagram, AwaitsDatagram
<1> QED  BY <1>1, <1>2, GiveUpKeeps

LEMMA InitClientInv == Init => ClientInv
<1> SUFFICES ASSUME Init PROVE ClientInv
    OBVIOUS
<1>1. AccountsInv
    BY AccountsInitInv DEF Init
<1>2. Shapes
    BY <1>1, UidsAssumption DEF Init, Shapes, TypeOK, AccountsInv, StartState
<1>3. OneDatagram /\ RequestIsCommand
    BY DEF Init, OneDatagram, RequestIsCommand, Asks, AtPrompt
<1>4. BeliefInv
    BY UidsAssumption DEF Init, BeliefInv, Answers, AtPrompt, SessionTrue, Belief, StartState
<1> QED  BY <1>2, <1>3, <1>4 DEF ClientInv

LEMMA StepClientInv == ASSUME ClientInv, ~Late, [Next]_vars PROVE ClientInv'
<1> USE UidsAssumption
<1>1. session.uid \in Users /\ session.pass \in Passwords
    BY DEF ClientInv, Shapes, TypeOK
<1>2. \A s \in 1..Slots : AtPrompt => ~Asks(s)
    BY PromptIsQuiet DEF ClientInv, Asks
<1>3. ASSUME UserTypes
      PROVE  ClientInv'
    <2>1. ASSUME NEW u \in Own \cup Shared, NEW p \in Passwords, CmdLogin(u, p)
          PROVE  ClientInv'
        BY <2>1, IssueKeeps DEF CmdLogin, UdpCommands
    <2>2. CASE CmdLogout
        BY <1>1, <2>2, IssueKeeps DEF CmdLogout, UdpCommands
    <2>3. CASE CmdUnregister
        BY <1>1, <2>3, IssueKeeps DEF CmdUnregister, UdpCommands
    <2>4. CASE CmdMyEvents
        BY <1>1, <2>4, IssueKeeps DEF CmdMyEvents, UdpCommands
    <2>5. ASSUME NEW old \in Passwords, NEW new \in Passwords, CmdChangePassword(old, new)
          PROVE  ClientInv'
        BY <2>5, ChangePasswordKeeps
    <2>6. CASE Issue("LOU", session.uid, session.pass, TRUE)
        BY <1>1, <2>6, IssueKeeps DEF UdpCommands
    <2>7. CASE AtPrompt /\ Restart
        BY <1>2, <2>7, RestartKeeps
    <2> QED  BY <1>3, <2>1, <2>2, <2>3, <2>4, <2>5, <2>6, <2>7
             DEF UserTypes, CmdExit, EndOfInput
<1>4. ASSUME CommandEnds
      PROVE  ClientInv'
    BY <1>4, ReceiveKeeps, TimeOutKeeps, ReadTcpKeeps DEF CommandEnds
<1>5. CASE UNCHANGED vars
    <2>1. AccountsInv'
        BY <1>5, AccountsStep, AccountsInvIs DEF vars, accountVars, ClientInv, Shapes, TypeOK
    <2>2. /\ userDir' = userDir /\ password' = password /\ loggedIn' = loggedIn
          /\ session' = session /\ waiting' = waiting /\ unsure' = unsure /\ flight' = flight
        BY <1>5 DEF vars, accountVars, accountFiles, clientVars
    <2>3. Shapes'
        BY <2>1, <2>2 DEF ClientInv, Shapes, TypeOK, AccountsInv
    <2> QED  BY <2>2, <2>3
             DEF ClientInv, OneDatagram, RequestIsCommand, BeliefInv, AwaitsDatagram, AtPrompt,
                 Asks, Answers, Unserved, SessionTrue, AnswerLeads, Settles, SessionAfter, Belief
<1> QED  BY <1>3, <1>4, <1>5, ConnectionBreaksKeeps, ServeKeeps, ServeTcpKeeps,
            ServeOtherKeeps DEF Next

\* client_state changes when a command is answered and when a new client starts.
LEMMA SessionMoves ==
    ASSUME ClientInv, Next
    PROVE  \/ session' = session
           \/ session' = StartState
           \/ \E status \in Statuses :
                 AnswerLeads(status) /\ Finish(status) /\ UNCHANGED accountFiles
<1> DEFINE Answered ==
        \E status \in Statuses :
            AnswerLeads(status) /\ Finish(status) /\ UNCHANGED accountFiles
<1>1. CASE UserTypes
    BY <1>1 DEF UserTypes, CmdLogin, CmdLogout, CmdUnregister, CmdMyEvents,
                CmdChangePassword, CmdExit, EndOfInput, Issue, Restart
<1>2. ASSUME NEW s \in 1..Slots, Receive(s)
      PROVE  session' = StartState \/ Answered
    <2>1. Answers(s)
        BY <1>2 DEF Receive, UnderWay, Free, Answers
    <2>2. flight[s].status \in Statuses /\ AnswerLeads(flight[s].status)
        BY <2>1, SlotTypes DEF ClientInv, Shapes, BeliefInv, AnswerMessage
    <2> QED  BY <1>2, <2>2 DEF Receive, Restart
<1>3. ASSUME ReadTcp
      PROVE  Answered
    <2>1. waiting.answer \in Statuses /\ AnswerLeads(waiting.answer)
        BY <1>3, WaitingTypes DEF ReadTcp, ClientInv, Shapes, BeliefInv, Command
    <2> QED  BY <1>3, <2>1 DEF ReadTcp, accountFiles
<1>4. CASE TimeOut \/ ConnectionBreaks
    BY <1>4 DEF TimeOut, ConnectionBreaks, Restart, GiveUp
<1>5. ASSUME NEW s \in 1..Slots, Serve(s)
      PROVE  session' = session
    BY <1>5 DEF Serve, clientVars
<1>6. ASSUME ServeTcp \/ \E u \in Shared, p \in Passwords : ServeOther(u, p)
      PROVE  session' = session
    BY <1>6 DEF ServeTcp, ServeOther, clientVars
<1> QED  BY <1>1, <1>2, <1>3, <1>4, <1>5, <1>6 DEF Next, CommandEnds

-----------------------------------------------------------------------------
(* The theorems *)

\* In every run of the client against the server in which no answer is late, for
\* any numbers of users and of datagrams under way, ClientInv holds.
THEOREM ClientInvSafe == ASSUME ~Late PROVE Spec => []ClientInv
<1>1. ClientInv /\ [Next]_vars => ClientInv'
    BY StepClientInv
<1> QED  BY <1>1, InitClientInv, PTL DEF Spec

\* Files, client_state and datagrams keep their shapes.
THEOREM ClientTypeSafe == ASSUME ~Late PROVE Spec => []TypeOK
<1>1. ClientInv => TypeOK
    BY DEF ClientInv, Shapes
<1> QED  BY <1>1, ClientInvSafe, PTL

\* Unless a command went without an answer, is_logged_in and logged_password of a
\* client at its prompt are those of the account files (user.c:139-285, 795-858).
THEOREM SureBeliefSafe == ASSUME ~Late PROVE Spec => []SureBelief
<1>1. ClientInv => SureBelief
    BY DEF ClientInv, BeliefInv, SessionTrue, Belief, SureBelief
<1> QED  BY <1>1, ClientInvSafe, PTL

\* "User logged in successfully" (user.c:187) is true of the server's files when
\* it is printed, as long as no answer of an earlier command can come instead.
THEOREM LoginIsTrueSafe == ASSUME ~Late PROVE Spec => LoginIsTrue
<1> DEFINE LoggedInTruly ==
        ~session.on /\ session'.on /\ session'.uid \in Own
            => session'.uid \in loggedIn /\ password[session'.uid] = session'.pass
<1>1. ASSUME ClientInv, Next PROVE LoggedInTruly
    <2>1. CASE session' = session
        BY <2>1
    <2>2. CASE session' = StartState
        BY <2>2 DEF StartState
    <2>3. ASSUME NEW status \in Statuses, AnswerLeads(status), Finish(status),
                 UNCHANGED accountFiles, ~session.on, session'.on
          PROVE  session'.uid \in Own =>
                     session'.uid \in loggedIn /\ password[session'.uid] = session'.pass
        <3>1. Settles(status)
            BY <2>3 DEF Finish, SessionAfter, Settles, StartState, ClientInv, Shapes, TypeOK
        <3> QED  BY <2>3, <3>1 DEF AnswerLeads, Finish, Belief
    <2> QED  BY <1>1, <2>1, <2>2, <2>3, SessionMoves
<1> QED  BY <1>1, ClientInvSafe, PTL DEF Spec, LoginIsTrue
=============================================================================
