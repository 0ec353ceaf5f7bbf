------------------------------ MODULE ESServer ------------------------------
(***************************************************************************)
(* The event server: every request a client can send, over the accounts    *)
(* and the events.  The account requests (LIN, LOU, UNR, CPS) are those of *)
(* Accounts; the event requests are udp_handlers.c's LME and LMR and       *)
(* tcp_handlers.c's CRE, CLS, LST, SED and RID.                            *)
(*                                                                         *)
(* main (ES.c) is one thread: it reads one request, calls one handler and  *)
(* only then looks at its sockets again.  A handler is one action, and the *)
(* clock moves between handlers (Tick).  Taking the answer off the         *)
(* network costs time too, so Tick clears it.  File operations succeed and *)
(* the process does not stop.                                              *)
(***************************************************************************)
EXTENDS Accounts, EventDatabase, FiniteSetsExt

CONSTANTS
    DateInputs,     \* the dates CRE is asked for, in minutes
    SeatInputs,     \* the attendances CRE is asked for
    FileInputs,     \* the names of the description CRE is asked for
    PeopleInputs    \* the numbers of seats RID is asked for

ASSUME InputsAssumption ==
    /\ DateInputs \subseteq Nat
    /\ SeatInputs \subseteq Nat
    /\ FileInputs \subseteq FileNames
    /\ PeopleInputs \subseteq Nat

vars == <<accountFiles, now, eventFiles, reply>>

Init == AccountsInit /\ EventsInit /\ reply = NoReply

\* The event numbers requests carry; 0 is out of range.
EidInputs == 0..MaxEid

-----------------------------------------------------------------------------
(* CRE *)

\* Slip: the attendance is not tested.
CreateRefusal_anyAttendance(u, p, seats, date, complete) ==
    IF IsDateBeforeNow(date) THEN "ERR"
    ELSE IF AuthenticateUser(u, p) = 0 THEN "NLG"
    ELSE IF AuthenticateUser(u, p) = -1 THEN "WRP"
    ELSE IF ~complete THEN "ERR"
    ELSE "none"

\* Everything handle_create_event tests before it calls create_event, in its
\* order.  complete: the description arrived within the second the server waits
\* for it (ES.c).  The login file is not among the tests.
CreateRefusal(u, p, seats, date, complete) ==
    IF IsDateBeforeNow(date) \/ seats \notin Attendances THEN "ERR"
    ELSE IF AuthenticateUser(u, p) = 0 THEN "NLG"
    ELSE IF AuthenticateUser(u, p) = -1 THEN "WRP"
    ELSE IF ~complete THEN "ERR"
    ELSE "none"

\* create_event has a number for it.  The answer is NOK when it could not open the
\* description, although the event is on sale from now on.
CreateWritten(u, p, seats, date, fname, e) ==
    /\ CreateRefusal(u, p, seats, date, TRUE) = "none"
    /\ IsNextEid(e)
    /\ CreateEvent(e, u, seats, date, fname)
    /\ IF CanOpen(fname)
       THEN AnswerStatus("RCE", u, e, "OK")
       ELSE AnswerStatus("RCE", u, 0, "NOK")

CreateRefused(u, p, seats, date, complete) ==
    /\ UNCHANGED eventFiles
    /\ LET refusal == CreateRefusal(u, p, seats, date, complete) IN
       \/ refusal # "none" /\ AnswerStatus("RCE", u, 0, refusal)
       \/ refusal = "none" /\ MaxEid \in Existing /\ AnswerStatus("RCE", u, 0, "NOK")

HandleCreateEvent(u, p, seats, date) ==
    /\ \/ \E e \in EIDs, fname \in FileInputs : CreateWritten(u, p, seats, date, fname, e)
       \/ \E complete \in BOOLEAN : CreateRefused(u, p, seats, date, complete)
    /\ UNCHANGED <<accountFiles, now>>

-----------------------------------------------------------------------------
(* CLS *)

\* The tests of handle_close_event before close_event.  Only a missing password
\* file (0) is tested for: a wrong password (-1) goes on to the next test.
CloseRefusal(u, p, e) ==
    IF e \notin EIDs THEN "ERR"
    ELSE IF AuthenticateUser(u, p) = 0 THEN "NOK"
    ELSE IF u \notin loggedIn THEN "NLG"
    ELSE CloseStatus(u, e)

HandleCloseEvent(u, p, e) ==
    /\ LET status == CloseRefusal(u, p, e) IN
       /\ ended' = IF status = "OK" THEN ended \cup {e} ELSE ended
       /\ AnswerStatus("RCL", u, e, status)
    /\ UNCHANGED <<accountFiles, now, start, res, created, eventRes, userRes>>

-----------------------------------------------------------------------------
(* RID *)

\* Slip: the login file is not tested.
ReserveRefusal_noLogin(u, p, e, people) ==
    IF e \notin EIDs \/ people \notin Bookings THEN "ERR"
    ELSE IF AuthenticateUser(u, p) # 1 THEN "WRP"
    ELSE IF e \notin Existing THEN "NOK"
    ELSE "none"

\* The tests of handle_reserve_seats that come before it looks at the event.
ReserveRefusal(u, p, e, people) ==
    IF e \notin EIDs \/ people \notin Bookings THEN "ERR"
    ELSE IF u \notin userDir \/ AuthenticateUser(u, p) = 0 THEN "NLG"
    ELSE IF AuthenticateUser(u, p) = -1 THEN "WRP"
    ELSE IF u \notin loggedIn THEN "NLG"
    ELSE IF e \notin Existing THEN "NOK"
    ELSE "none"

\* Slip: the seats asked for are not compared with the seats left.
ReserveOutcome_anyNumber(e, people) ==
    CASE EventState(AutoClosed({e}), e) = 0 -> "PST"
      [] EventState(AutoClosed({e}), e) = 3 -> "CLS"
      [] EventState(AutoClosed({e}), e) = 2 -> "SLD"
      [] EventState(AutoClosed({e}), e) = 1 -> "ACC"

\* The tests on the event, after auto_close_if_past.
ReserveOutcome(e, people) ==
    CASE EventState(AutoClosed({e}), e) = 0 -> "PST"
      [] EventState(AutoClosed({e}), e) = 3 -> "CLS"
      [] EventState(AutoClosed({e}), e) = 2 -> "SLD"
      [] EventState(AutoClosed({e}), e) = 1 ->
            IF people > AvailableSeats(e) THEN "REJ" ELSE "ACC"

ReserveAnswered(u, e, people) ==
    LET status == ReserveOutcome(e, people) IN
    /\ ended' = AutoClosed({e})
    /\ IF status = "ACC"
       THEN CreateReservation(e, u, people)
       ELSE UNCHANGED <<start, res, created, eventRes, userRes>>
    /\ Answer("RRI", u, e, status, IF status = "REJ" THEN {<<AvailableSeats(e)>>} ELSE {})

HandleReserveSeats(u, p, e, people) ==
    /\ LET refusal == ReserveRefusal(u, p, e, people) IN
       \/ /\ refusal = "none"
          /\ ReserveAnswered(u, e, people)
       \/ /\ refusal # "none"
          /\ AnswerStatus("RRI", u, e, refusal)
          /\ UNCHANGED eventFiles
    /\ UNCHANGED <<accountFiles, now>>

-----------------------------------------------------------------------------
(* LST, SED, LME and LMR: they answer a question, and close past events *)

\* Each event of es is closed if its date has passed and then reported.
ReportStates(rsp, u, es) ==
    /\ ended' = AutoClosed(es)
    /\ IF es = {}
       THEN AnswerStatus(rsp, u, 0, "NOK")
       ELSE Answer(rsp, u, 0, "OK", {<<e, EventState(AutoClosed(es), e)>> : e \in es})
    /\ UNCHANGED <<start, res, created, eventRes, userRes>>

HandleListEvents ==
    /\ ReportStates("RLS", NoUser, Existing)
    /\ UNCHANGED <<accountFiles, now>>

HandleShowEvent(e) ==
    /\ \/ /\ e \notin EIDs
          /\ AnswerStatus("RSE", NoUser, e, "ERR")
          /\ UNCHANGED ended
       \/ /\ e \in EIDs
          /\ ended' = AutoClosed({e})
          /\ IF HasDescription(e)
             THEN Answer("RSE", NoUser, e, "OK", {<<start[e].seats, res[e]>>})
             ELSE AnswerStatus("RSE", NoUser, e, "NOK")
    /\ UNCHANGED <<accountFiles, now, start, res, created, eventRes, userRes>>

\* LME and LMR test the account alike; "none" lets them go on.
QueryRefusal(u, p) ==
    IF AuthenticateUser(u, p) = 0 THEN "NOK"
    ELSE IF AuthenticateUser(u, p) = -1 THEN "WRP"
    ELSE IF u \notin loggedIn THEN "NLG"
    ELSE "none"

HandleMyEvents(u, p) ==
    /\ LET refusal == QueryRefusal(u, p) IN
       \/ refusal = "none" /\ ReportStates("RME", u, created[u])
       \/ refusal # "none" /\ AnswerStatus("RME", u, 0, refusal) /\ UNCHANGED eventFiles
    /\ UNCHANGED <<accountFiles, now>>

HandleMyReservations(u, p) ==
    /\ LET refusal == QueryRefusal(u, p)
           found == {<<f.eid, f.at, f.seats>> : f \in QueriedReservations(u)} IN
       \/ /\ refusal = "none"
          /\ Answer("RMR", u, 0, IF found = {} THEN "NOK" ELSE "OK", found)
       \/ /\ refusal # "none"
          /\ AnswerStatus("RMR", u, 0, refusal)
    /\ UNCHANGED <<accountFiles, now, eventFiles>>

-----------------------------------------------------------------------------
MalformedRequest(rsp) ==
    /\ AnswerMalformed(rsp)
    /\ UNCHANGED <<accountFiles, now, eventFiles>>

AccountRequest == AccountsNext /\ UNCHANGED <<now, eventFiles>>

Tick ==
    /\ now' \in {t \in Instants : t > now}
    /\ reply' = NoReply
    /\ UNCHANGED <<accountFiles, eventFiles>>

Next ==
    \/ AccountRequest
    \/ \E u \in Users, p \in Passwords :
          \/ \E seats \in SeatInputs, date \in DateInputs :
                HandleCreateEvent(u, p, seats, date)
          \/ \E e \in EidInputs : HandleCloseEvent(u, p, e)
          \/ \E e \in EidInputs, people \in PeopleInputs : HandleReserveSeats(u, p, e, people)
          \/ HandleMyEvents(u, p)
          \/ HandleMyReservations(u, p)
    \/ HandleListEvents
    \/ \E e \in EidInputs : HandleShowEvent(e)
    \/ \E rsp \in {"RCE", "RCL", "RRI", "RSE", "RME", "RMR"} : MalformedRequest(rsp)
    \/ Tick

Spec == Init /\ [][Next]_vars

-----------------------------------------------------------------------------
(* Properties *)

TypeOK == AccountsTypeOK /\ EventsTypeOK /\ ReplyTypeOK

\* RES never passes the attendance in START, so AvailableSeats, which RID and
\* get_event_state compute from the two files, is never negative.
NoOverbooking ==
    \A e \in EIDs : res[e] >= 0 /\ (e \in Existing => res[e] <= start[e].seats)

\* The seats of a set of reservation files.
SeatsIn(files) == MapThenSumSet(LAMBDA f : f.seats, files)

\* The two files of a reservation agree, and RES counts at least the seats in an
\* event's files.  It can count more: two bookings by one user of one event in
\* one second share a file name, the files keep the later one only and RES keeps
\* the sum, so a reservation is lost from the files but a seat is never sold twice.
LedgersWithinCounter ==
    /\ eventRes = userRes
    /\ \A e \in EIDs : SeatsIn({f \in eventRes : f.eid = e}) <= res[e]

\* Nothing is booked for an event after the second it starts: the date is tested
\* by auto_close_if_past, by the minute, and by get_event_state, by the second,
\* and it is the second test that covers the event's own minute.
SalesStopAtStart ==
    \A f \in eventRes : f.eid \in Existing /\ f.at <= EventTimestamp(start[f.eid].date)

\* The state a client sees of an event only moves on: active, sold out, past,
\* closed.  Neither a later request nor the passing of time brings one back.
StageOf(state) == CASE state = 1 -> 1 [] state = 2 -> 2 [] state = 0 -> 3 [] state = 3 -> 4

LifecycleOnlyAdvances ==
    [][\A e \in Existing :
         StageOf(EventState(ended, e)) <= StageOf(EventState(ended, e)')]_vars

\* END appears for one of two reasons only: the event's whole minute has gone
\* by, or its owner, logged in, closes it while it is active.
ClosedForAReason ==
    [][\A e \in ended' \ ended :
         \/ 60 * (start[e].date + 1) <= now
         \/ /\ reply'.rsp = "RCL" /\ reply'.status = "OK" /\ reply'.eid = e
            /\ reply'.uid = start[e].uid
            /\ reply'.uid \in loggedIn
            /\ EventState(ended, e) = 1]_vars

\* USERS/uid/CREATED, which LME reads, names the events that CLS lets the user close
\* and no others, also for a user who left and came back: a CRE that is answered NOK
\* half-way leaves an event with the user's UID in START, but not as one of theirs.
CreatedMatchesStart ==
    \A u \in Users : created[u] = {e \in Existing : IsEventOwner(u, e)}

\* Event numbers are dense and never reused, and START is never written again.
EventsPermanent ==
    [][/\ \A e \in Existing : start'[e] = start[e]
       /\ \A e \in Existing' : \A d \in 1..e : d \in Existing']_vars

\* "Past" is an answer of a single minute.  Every handler that reports a state or
\* books seats first closes events by the minute, so state 0 (or PST from RID) can
\* only be seen in the event's own minute; after it the event is closed (3, CLS).
\* With DstShift = 3600 it is not seen at all.
PastOnlyInItsMinute ==
    \A e \in Existing :
        \/ reply.rsp \in {"RLS", "RME"} /\ <<e, 0>> \in reply.data
        \/ reply.rsp = "RRI" /\ reply.status = "PST" /\ reply.eid = e
        => now \div 60 = start[e].date

\* The number of seats a REJ carries is what a next request can have: at least one
\* seat, none of them in a reservation file, of an event that is still active.
RejectTellsSeatsLeft ==
    (reply.rsp = "RRI" /\ reply.status = "REJ") =>
        LET e == reply.eid IN
        \A answer \in reply.data :
            /\ answer[1] >= 1
            /\ EventState(ended, e) = 1
            /\ SeatsIn({f \in eventRes : f.eid = e}) + answer[1] <= start[e].seats

\* LMR tells of every booking whose file is there, or of MaxQuery of them and then of
\* those whose files have the first names, each of them once, at the seats it was made for.
FirstReservationsTold ==
    reply.rsp = "RMR" /\ reply.status = "OK" =>
        LET files == FilesOf(reply.uid)
            told == {f \in files : <<f.eid, f.at, f.seats>> \in reply.data}
        IN /\ Cardinality(told) = Cardinality(reply.data)
           /\ Cardinality(told) =
                 IF Cardinality(files) < MaxQuery THEN Cardinality(files) ELSE MaxQuery
           /\ \A f \in told, g \in files \ told : Before(f, g)

\* The server keeps the promises of TicketOffice.  An event whose CRE was answered NOK
\* after START and RES counts as announced: it can be booked and nobody withdraws it
\* before its date.
Office == INSTANCE TicketOffice WITH
    Events   <- EIDs,
    NoOwner  <- NoUser,
    members  <- Registered,
    signedIn <- loggedIn,
    owner    <- [e \in EIDs |-> IF e \in Existing THEN start[e].uid ELSE NoUser],
    free     <- [e \in EIDs |-> IF e \in Existing THEN start[e].seats - res[e] ELSE 0],
    onSale   <- Existing \ ended

ImplementsTicketOffice == Office!Spec

-----------------------------------------------------------------------------
(* What the program says of itself, and the code does otherwise *)

\* utils.c:27: "Create new event (TCP, requires login)".
CreateRequiresLogin ==
    [][\A e \in Existing' \ Existing : start'[e].uid \in loggedIn]_vars

\* user.c:536: the NOK of CLS means "User does not exist or wrong password".
CloseRejectsWrongPassword ==
    [][\A u \in Users, p \in Passwords, e \in EIDs :
         (HandleCloseEvent(u, p, e) /\ AuthenticateUser(u, p) = -1)
            => reply'.status = "NOK"]_vars

\* event_database.c:322 answers PST, "já passou", once the event's date has
\* passed: CLS never closes an event whose whole minute has gone by.
CloseTellsPast ==
    [][\A u \in Users, p \in Passwords, e \in Existing \ ended :
         (HandleCloseEvent(u, p, e) /\ 60 * (start[e].date + 1) <= now)
            => reply'.status # "OK"]_vars

\* udp_handlers.c:410 reads "all the reservations" and :457 puts the most recent
\* first: the latest booking of the user is in the answer.
LatestReservationListed ==
    reply.rsp = "RMR" /\ reply.status = "OK" =>
        \A f \in FilesOf(reply.uid) :
            (\A g \in FilesOf(reply.uid) \ {f} : g.at < f.at) => <<f.eid, f.at, f.seats>> \in reply.data
=============================================================================
