------------------------------ MODULE ESClient ------------------------------
(***************************************************************************)
(* A client (client/user.c), the accounts of the server, and the network   *)
(* between them.  The other clients are known by what the server does for  *)
(* them.                                                                   *)
(*                                                                         *)
(* Login, logout, unregister and the two queries travel in datagrams: a    *)
(* request or an answer may be lost or delayed, and datagrams overtake one *)
(* another.  The client waits five seconds for an answer and then gives    *)
(* up; the next command reads whatever datagram is there, and looks at its *)
(* status only.  A password is changed over TCP: there the client waits    *)
(* without a limit, until the answer comes or the connection breaks.       *)
(*                                                                         *)
(* The network does not make copies of a datagram.  A client that ends is  *)
(* followed by a new one at the same keyboard.  Commands that neither read *)
(* a datagram nor change client_state are left out.                        *)
(***************************************************************************)
EXTENDS Accounts

CONSTANTS
    Own,                \* the UIDs typed at this client and at no other
    Shared,             \* the UIDs typed at this client and at others
    DefaultUid,         \* "000000", what client_state starts with
    DefaultPassword,    \* "00000000"
    Slots,              \* bound: how many datagrams are under way at a time
    Late,               \* whether an answer may take longer than five seconds
    Nothing             \* no datagram, no command

ASSUME UidsAssumption ==
    /\ Own \cup Shared \cup {DefaultUid} \subseteq Users
    /\ DefaultUid \notin Own \cup Shared
    /\ Own \cap Shared = {}
    /\ DefaultPassword \in Passwords
ASSUME NetworkAssumption == Slots \in Nat /\ Late \in BOOLEAN

\* "LME" stands for LMR too: for the session they are the same request.
UdpCommands == {"LIN", "LOU", "UNR", "LME"}

\* The datagrams.  Of an answer the client only looks at the status.  awaited is
\* FALSE when the socket the request came from has been closed: its answer finds
\* no receiver and is not kept.
RequestMessage == [kind : {"request"}, awaited : BOOLEAN,
                   cmd : UdpCommands, uid : Users, pass : Passwords]
AnswerMessage == [kind : {"answer"}, awaited : {TRUE}, status : Statuses]
Datagram == RequestMessage \cup AnswerMessage

\* What a client that is not at its prompt waits for.  leave: it ends afterwards.
\* answer: the status that has come over TCP.
Command == [cmd : UdpCommands \cup {"CPS"}, uid : Users, pass : Passwords,
            new : Passwords, leave : BOOLEAN, answer : Statuses \cup {"none"}]

ASSUME NothingAssumption == Nothing \notin Datagram /\ Nothing \notin Command

VARIABLES
    session,    \* client_state: logged_uid, logged_password, is_logged_in
    waiting,    \* the command the client waits for, or Nothing
    unsure,     \* a command about the session got no answer, and none since
                \* was answered OK (the client does not know this)
    flight      \* the datagrams under way

clientVars == <<session, waiting, unsure>>
vars == <<accountVars, clientVars, flight>>

StartState == [uid |-> DefaultUid, pass |-> DefaultPassword, on |-> FALSE]

Init ==
    /\ AccountsInit
    /\ reply = NoReply
    /\ session = StartState
    /\ waiting = Nothing
    /\ unsure = FALSE
    /\ flight = [s \in 1..Slots |-> Nothing]

AtPrompt == waiting = Nothing

Free == {s \in 1..Slots : flight[s] = Nothing}
UnderWay == {s \in 1..Slots \ Free : flight[s].awaited}

-----------------------------------------------------------------------------
(* Commands at the prompt *)

\* sendto: the datagram goes under way or is lost.
Send(m) ==
    \/ UNCHANGED flight
    \/ \E s \in Free :
          /\ \A t \in Free : s <= t
          /\ flight' = [flight EXCEPT ![s] = m]

Issue(cmd, u, p, leave) ==
    /\ AtPrompt
    /\ waiting' = [cmd |-> cmd, uid |-> u, pass |-> p, new |-> p,
                   leave |-> leave, answer |-> "none"]
    /\ Send([kind |-> "request", awaited |-> TRUE, cmd |-> cmd, uid |-> u, pass |-> p])
    /\ reply' = NoReply
    /\ UNCHANGED <<accountFiles, session, unsure>>

\* While is_logged_in the command is refused without asking the server.
CmdLogin(u, p) == ~session.on /\ Issue("LIN", u, p, FALSE)

\* Logout and unregister do not ask is_logged_in: without a session they send
\* the UID and password of the last one, or the defaults.
CmdLogout == Issue("LOU", session.uid, session.pass, FALSE)

CmdUnregister == Issue("UNR", session.uid, session.pass, FALSE)

CmdMyEvents == session.on /\ Issue("LME", session.uid, session.pass, FALSE)

CmdChangePassword(old, new) ==
    /\ AtPrompt
    /\ waiting' = [cmd |-> "CPS", uid |-> session.uid, pass |-> old, new |-> new,
                   leave |-> FALSE, answer |-> "none"]
    /\ reply' = NoReply
    /\ UNCHANGED <<accountFiles, session, unsure, flight>>

\* The process ends and another is started: an answer under way to the old one is
\* gone, a request is carried out all the same.
Restart ==
    /\ session' = StartState
    /\ waiting' = Nothing
    /\ unsure' = FALSE
    /\ flight' = [s \in 1..Slots |->
                    CASE s \notin UnderWay -> flight[s]
                      [] s \in UnderWay /\ flight[s].kind = "answer" -> Nothing
                      [] OTHER -> [flight[s] EXCEPT !.awaited = FALSE]]
    /\ reply' = NoReply
    /\ UNCHANGED accountFiles

\* "exit" logs out first when there is a session.
CmdExit ==
    \/ session.on /\ Issue("LOU", session.uid, session.pass, TRUE)
    \/ ~session.on /\ AtPrompt /\ Restart

\* At the end of the input the client just ends.
EndOfInput == AtPrompt /\ Restart

-----------------------------------------------------------------------------
(* The server *)

\* LME and LMR test the account; whether there is anything to report is up to the
\* event files.
HandleMyEvents(u, p) ==
    /\ UNCHANGED accountFiles
    /\ \E status \in IF AuthenticateUser(u, p) = 0 THEN {"NOK"}
                     ELSE IF AuthenticateUser(u, p) = -1 THEN {"WRP"}
                     ELSE IF u \notin loggedIn THEN {"NLG"}
                     ELSE {"OK", "NOK"} :
          AnswerStatus("RME", u, 0, status)

Handle(m) ==
    \/ m.cmd = "LIN" /\ HandleLogin(m.uid, m.pass)
    \/ m.cmd = "LOU" /\ HandleLogout(m.uid, m.pass)
    \/ m.cmd = "UNR" /\ HandleUnregister(m.uid, m.pass)
    \/ m.cmd = "LME" /\ HandleMyEvents(m.uid, m.pass)

\* One datagram is read, carried out and answered; the answer may be lost.
Serve(s) ==
    /\ s \notin Free
    /\ flight[s].kind = "request"
    /\ Handle(flight[s])
    /\ \/ flight' = [flight EXCEPT ![s] = Nothing]
       \/ /\ flight[s].awaited
          /\ flight' = [flight EXCEPT ![s] = [kind |-> "answer", awaited |-> TRUE,
                                             status |-> reply'.status]]
    /\ UNCHANGED clientVars

ServeTcp ==
    /\ ~AtPrompt
    /\ waiting.cmd = "CPS"
    /\ waiting.answer = "none"
    /\ HandleChangePassword(waiting.uid, waiting.pass, waiting.new)
    /\ waiting' = [waiting EXCEPT !.answer = reply'.status]
    /\ UNCHANGED <<session, unsure, flight>>

\* Another client is served.
ServeOther(u, p) ==
    /\ \/ HandleLogin(u, p)
       \/ HandleLogout(u, p)
       \/ HandleUnregister(u, p)
       \/ \E new \in Passwords : HandleChangePassword(u, p, new)
    /\ UNCHANGED <<clientVars, flight>>

-----------------------------------------------------------------------------
(* The end of a command *)

AwaitsDatagram == ~AtPrompt /\ waiting.cmd # "CPS"

\* Slip: UNR leaves is_logged_in as it was.
SessionAfter_keepsFlag(status) ==
    CASE waiting.cmd = "LIN" /\ status \in {"OK", "REG"} ->
            [uid |-> waiting.uid, pass |-> waiting.pass, on |-> TRUE]
      [] waiting.cmd = "LOU" /\ status = "OK" -> [session EXCEPT !.on = FALSE]
      [] waiting.cmd = "CPS" /\ status = "OK" -> [session EXCEPT !.pass = waiting.new]
      [] OTHER -> session

\* Slip: LIN takes any status for a yes.
SessionAfter_anyStatus(status) ==
    CASE waiting.cmd = "LIN" -> [uid |-> waiting.uid, pass |-> waiting.pass, on |-> TRUE]
      [] waiting.cmd = "LOU" /\ status = "OK" -> [session EXCEPT !.on = FALSE]
      [] waiting.cmd = "UNR" /\ status = "OK" -> StartState
      [] waiting.cmd = "CPS" /\ status = "OK" -> [session EXCEPT !.pass = waiting.new]
      [] OTHER -> session

\* What a command makes of the status it was given.
SessionAfter(status) ==
    CASE waiting.cmd = "LIN" /\ status \in {"OK", "REG"} ->
            [uid |-> waiting.uid, pass |-> waiting.pass, on |-> TRUE]
      [] waiting.cmd = "LOU" /\ status = "OK" -> [session EXCEPT !.on = FALSE]
      [] waiting.cmd = "UNR" /\ status = "OK" -> StartState
      [] waiting.cmd = "CPS" /\ status = "OK" -> [session EXCEPT !.pass = waiting.new]
      [] OTHER -> session

\* The answer settles what an earlier missing one left open.
Settles(status) ==
    \/ waiting.cmd = "LIN" /\ status \in {"OK", "REG"}
    \/ waiting.cmd \in {"LOU", "UNR"} /\ status = "OK"

\* The command has been answered, with this status.
Finish(status) ==
    /\ session' = SessionAfter(status)
    /\ waiting' = Nothing
    /\ unsure' = (unsure /\ ~Settles(status))

\* The command goes without an answer.
GiveUp ==
    /\ waiting' = Nothing
    /\ unsure' = (unsure \/ waiting.cmd # "LME")
    /\ UNCHANGED session

\* recvfrom takes any datagram addressed to the client.
Receive(s) ==
    /\ AwaitsDatagram
    /\ s \in UnderWay
    /\ flight[s].kind = "answer"
    /\ \/ waiting.leave /\ Restart
       \/ /\ ~waiting.leave
          /\ Finish(flight[s].status)
          /\ flight' = [flight EXCEPT ![s] = Nothing]
          /\ reply' = NoReply
          /\ UNCHANGED accountFiles

TimeOut ==
    /\ AwaitsDatagram
    /\ Late \/ UnderWay = {}
    /\ \/ waiting.leave /\ Restart
       \/ /\ ~waiting.leave
          /\ GiveUp
          /\ reply' = NoReply
          /\ UNCHANGED <<accountFiles, flight>>

\* read on the connection returns the answer.
ReadTcp ==
    /\ ~AtPrompt
    /\ waiting.cmd = "CPS"
    /\ waiting.answer # "none"
    /\ Finish(waiting.answer)
    /\ reply' = NoReply
    /\ UNCHANGED <<accountFiles, flight>>

\* read returns without an answer, whether or not the server has carried it out.
ConnectionBreaks ==
    /\ ~AtPrompt
    /\ waiting.cmd = "CPS"
    /\ GiveUp
    /\ reply' = NoReply
    /\ UNCHANGED <<accountFiles, flight>>

-----------------------------------------------------------------------------
UserTypes ==
    \/ \E u \in Own \cup Shared, p \in Passwords : CmdLogin(u, p)
    \/ CmdLogout
    \/ CmdUnregister
    \/ CmdMyEvents
    \/ \E old, new \in Passwords : CmdChangePassword(old, new)
    \/ CmdExit
    \/ EndOfInput

CommandEnds ==
    \/ \E s \in 1..Slots : Receive(s)
    \/ TimeOut
    \/ ReadTcp

Next ==
    \/ UserTypes
    \/ CommandEnds
    \/ ConnectionBreaks
    \/ \E s \in 1..Slots : Serve(s)
    \/ ServeTcp
    \/ \E u \in Shared, p \in Passwords : ServeOther(u, p)

Spec == Init /\ [][Next]_vars

-----------------------------------------------------------------------------
(* Properties *)

\* Every file, the client's state and every datagram has its shape.
TypeOK ==
    /\ AccountsTypeOK
    /\ session \in [uid : Users, pass : Passwords, on : BOOLEAN]
    /\ waiting \in Command \cup {Nothing}
    /\ unsure \in BOOLEAN
    /\ flight \in [1..Slots -> Datagram \cup {Nothing}]

\* As long as answers are not late, a client that uses a UID of its own is right
\* about its session whenever it is at its prompt, unless a command about the
\* session went without an answer: is_logged_in says whether the login file is
\* there, and its password is the one in the password file.
SureBelief ==
    AtPrompt /\ ~unsure /\ session.uid \in Own =>
        /\ session.on <=> session.uid \in loggedIn
        /\ session.on => password[session.uid] = session.pass

\* user.c:187 prints "User logged in successfully" when it sets is_logged_in: then
\* the server knows this UID with this password, if nobody else uses the UID.
LoginIsTrue ==
    [][~session.on /\ session'.on /\ session'.uid \in Own
         => /\ session'.uid \in loggedIn
            /\ password[session'.uid] = session'.pass]_vars
=============================================================================
