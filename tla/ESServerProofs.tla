--------------------------- MODULE ESServerProofs ---------------------------
(***************************************************************************)
(* Proofs about ESServer, for any numbers of users, events, instants and   *)
(* any inputs.  EventsInv is the inductive invariant of the event files;   *)
(* each operation of EventDatabase keeps it (the lemmas of the first       *)
(* part), and each handler is one of these operations or changes no file   *)
(* (NextCases).                                                            *)
(***************************************************************************)
EXTENDS ESServer, AccountsProofs

EventsInv ==
    /\ EventsTypeOK
    /\ ended \subseteq Existing
    /\ NoOverbooking
    /\ eventRes = userRes
    /\ SalesStopAtStart
    /\ CreatedMatchesStart

-----------------------------------------------------------------------------
(* What a step of the server does to the disk: it is a step of the accounts, a *)
(* creation, a sale, some END files, or time passing; and nothing besides.     *)

Creation(u, seats, date, fname, e) ==
    /\ u \in Registered
    /\ IsNextEid(e)
    /\ CreateEvent(e, u, seats, date, fname)
    /\ UNCHANGED <<accountFiles, now>>

CreateStep ==
    \E u \in Users, seats \in Attendances, date \in Nat, fname \in FileNames, e \in EIDs :
        Creation(u, seats, date, fname, e)

CloseStep == /\ ended \subseteq ended'
             /\ ended' \subseteq Existing
             /\ UNCHANGED <<accountFiles, now, start, res, created, eventRes, userRes>>

Sale(u, e, people) ==
    /\ EventState(AutoClosed({e}), e) = 1
    /\ people <= AvailableSeats(e)
    /\ CreateReservation(e, u, people)
    /\ ended' = AutoClosed({e})
    /\ UNCHANGED <<accountFiles, now>>

SaleStep == \E u \in loggedIn, e \in Existing, people \in Bookings : Sale(u, e, people)

AccountStep == [AccountsNext]_accountFiles /\ UNCHANGED <<now, eventFiles>>

TickStep == now' \in Instants /\ UNCHANGED <<accountFiles, eventFiles>>

-----------------------------------------------------------------------------
(* The operations *)

LEMMA InitEventsInv == EventsInit => EventsInv
BY BoundsAssumption, MarksAssumption
DEF EventsInit, EventsInv, EventsTypeOK, Existing, NoOverbooking, SalesStopAtStart,
    CreatedMatchesStart, IsEventOwner, HasDescription, EIDs

LEMMA Numbers == Attendances \subseteq Nat /\ Bookings \subseteq Nat
BY DEF Attendances, Bookings

\* Whatever exists has an owner, a number of seats and a date, and a counter.
LEMMA StartFile ==
    ASSUME EventsTypeOK, NEW e \in Existing
    PROVE  /\ e \in EIDs
           /\ start[e].uid \in Users
           /\ start[e].seats \in Nat
           /\ start[e].date \in Nat
           /\ res[e] \in Nat
<1>1. e \in EIDs /\ start[e] \in EventFile
    BY DEF EventsTypeOK, Existing
<1>2. res[e] \in Nat
    BY <1>1 DEF EventsTypeOK
<1>3. start[e].uid \in Users /\ start[e].seats \in Attendances /\ start[e].date \in Nat
    BY <1>1 DEF EventFile
<1> QED  BY <1>1, <1>2, <1>3, Numbers

\* The number create_event takes is free, and nothing refers to it yet.
LEMMA NextEidIsFree ==
    ASSUME EventsTypeOK, NEW e \in EIDs, IsNextEid(e)
    PROVE  e \notin Existing
BY BoundsAssumption DEF IsNextEid, Existing, EIDs

LEMMA CreateEventKeeps == ASSUME EventsInv, CreateStep PROVE EventsInv'
<1>1. PICK u \in Users, seats \in Attendances, date \in Nat, fname \in FileNames, e \in EIDs :
        Creation(u, seats, date, fname, e)
    BY DEF CreateStep
<1> DEFINE file == [uid |-> u, fname |-> fname, seats |-> seats, date |-> date]
<1>2. /\ e \notin Existing /\ file # NoFile
      /\ file \in EventFile
    BY <1>1, NextEidIsFree, NotAnEventAssumption
    DEF Creation, EventsInv, EventFile, Attendances, FileNames
<1>3. /\ start' = [start EXCEPT ![e] = file]
      /\ res' = [res EXCEPT ![e] = 0]
      /\ created' = IF CanOpen(fname) THEN [created EXCEPT ![u] = @ \cup {e}] ELSE created
      /\ UNCHANGED <<now, ended, eventRes, userRes>>
    BY <1>1 DEF Creation, CreateEvent
<1>4. Existing' = Existing \cup {e}
    BY <1>2, <1>3 DEF Existing, EventsInv, EventsTypeOK
<1>5. EventsTypeOK'
    BY <1>2, <1>3 DEF EventsInv, EventsTypeOK
<1>6. NoOverbooking'
    BY <1>2, <1>3, <1>4 DEF EventsInv, EventsTypeOK, NoOverbooking, EIDs, EventFile, Attendances
<1>7. SalesStopAtStart'
    BY <1>2, <1>3, <1>4 DEF EventsInv, EventsTypeOK, SalesStopAtStart, EventTimestamp
<1>8. CreatedMatchesStart'
    <2>1. ASSUME NEW x \in EIDs, x # e
          PROVE  start'[x] = start[x] /\ (x \in Existing' <=> x \in Existing)
        <3>1. start'[x] = start[x]
            BY <1>3, <2>1 DEF EventsInv, EventsTypeOK
        <3>2. x \in Existing' <=> x \in Existing
            BY <1>4, <2>1
        <3> QED  BY <3>1, <3>2
    <2>2. start'[e] = file /\ e \in Existing' /\ Existing' \subseteq EIDs
        BY <1>3, <1>4 DEF EventsInv, EventsTypeOK, Existing
    <2>3. ASSUME NEW v \in Users, NEW x \in EIDs
          PROVE  x \in created'[v] <=> x \in Existing' /\ IsEventOwner(v, x)'
        <3>1. x \in created[v] <=> x \in Existing /\ IsEventOwner(v, x)
            BY DEF EventsInv, CreatedMatchesStart
        <3>2. created'[v] = IF CanOpen(fname) /\ v = u THEN created[v] \cup {e} ELSE created[v]
            BY <1>3 DEF EventsInv, EventsTypeOK
        <3>3. CASE x = e
            BY <1>2, <2>2, <3>1, <3>2, <3>3 DEF IsEventOwner, HasDescription
        <3>4. CASE x # e
            BY <2>1, <3>1, <3>2, <3>4 DEF IsEventOwner, HasDescription
        <3> QED  BY <3>3, <3>4
    <2>4. created' \in [Users -> SUBSET EIDs]
        BY <1>5 DEF EventsTypeOK
    <2> QED  BY <2>2, <2>3, <2>4 DEF CreatedMatchesStart
<1>9. (ended \subseteq Existing)' /\ (eventRes = userRes)'
    BY <1>3, <1>4 DEF EventsInv
<1> QED  BY <1>5, <1>6, <1>7, <1>8, <1>9 DEF EventsInv

\* Writing END files, by hand or by auto_close_if_past, disturbs nothing else.
LEMMA ClosingKeeps ==
    ASSUME EventsInv, ended' \subseteq Existing,
           UNCHANGED <<now, start, res, created, eventRes, userRes>>
    PROVE  EventsInv'
BY DEF EventsInv, EventsTypeOK, Existing, NoOverbooking, SalesStopAtStart,
       CreatedMatchesStart, IsEventOwner, HasDescription, EventTimestamp

LEMMA AutoClosedExist ==
    ASSUME EventsInv, NEW es
    PROVE  /\ AutoClosed(es) \subseteq Existing
           /\ ended \subseteq AutoClosed(es)
BY DEF EventsInv, AutoClosed

\* What state 1 of get_event_state stands for.
LEMMA ActiveMeans ==
    ASSUME EventsInv, NEW closed, NEW e \in Existing, EventState(closed, e) = 1
    PROVE  /\ e \notin closed
           /\ now <= EventTimestamp(start[e].date)
           /\ res[e] < start[e].seats
<1>1. start[e].date \in Nat /\ start[e].seats \in Nat /\ res[e] \in Nat
    BY StartFile DEF EventsInv
<1>2. now \in Nat
    BY ClockAssumption DEF EventsInv, EventsTypeOK
<1> QED  BY <1>1, <1>2, ClockAssumption DEF EventState, AvailableSeats, EventTimestamp

LEMMA CreateReservationKeeps ==
    ASSUME AccountsInv, EventsInv, SaleStep
    PROVE  EventsInv'
<1>1. PICK u \in loggedIn, e \in Existing, people \in Bookings : Sale(u, e, people)
    BY DEF SaleStep
<1> DEFINE r == [eid |-> e, uid |-> u, at |-> now, seats |-> people]
<1>2. /\ EventState(AutoClosed({e}), e) = 1
      /\ people <= AvailableSeats(e)
      /\ res' = [res EXCEPT ![e] = @ + people]
      /\ ended' = AutoClosed({e})
      /\ UNCHANGED <<now, start, created>>
    BY <1>1 DEF Sale, CreateReservation
<1>3. /\ e \in EIDs /\ u \in Users
      /\ start[e].seats \in Nat /\ res[e] \in Nat /\ people \in Nat
    BY StartFile, Numbers DEF EventsInv, AccountsInv, AccountsTypeOK
<1>4. r \in Reservation
    BY <1>3 DEF Reservation, EventsInv, EventsTypeOK
<1>5. /\ eventRes' \subseteq eventRes \cup {r}
      /\ userRes' \subseteq userRes \cup {r}
      /\ eventRes' = userRes'
    BY <1>1 DEF Sale, CreateReservation, WriteReservation, EventsInv
<1>6. Existing' = Existing
    BY <1>2 DEF Existing
<1>7. EventsTypeOK'
    <2>1. ended' \subseteq EIDs
        BY <1>2, AutoClosedExist DEF Existing
    <2>2. res' \in [EIDs -> Nat]
        BY <1>2, <1>3 DEF EventsInv, EventsTypeOK
    <2>3. eventRes' \subseteq Reservation /\ userRes' \subseteq Reservation
        BY <1>4, <1>5 DEF EventsInv, EventsTypeOK
    <2>4. UNCHANGED <<now, start, created>>
        BY <1>2
    <2> QED  BY <2>1, <2>2, <2>3, <2>4, Zenon DEF EventsInv, EventsTypeOK
<1>8. NoOverbooking'
    BY <1>2, <1>3, <1>6 DEF EventsInv, EventsTypeOK, NoOverbooking, AvailableSeats
<1>9. SalesStopAtStart'
    <2>1. now <= EventTimestamp(start[e].date)
        BY <1>2, ActiveMeans
    <2> QED  BY <1>2, <1>5, <1>6, <2>1 DEF EventsInv, SalesStopAtStart, EventTimestamp
<1>10. CreatedMatchesStart'
    BY <1>2, <1>6 DEF EventsInv, CreatedMatchesStart, IsEventOwner, HasDescription
<1>11. (ended \subseteq Existing)'
    BY <1>2, <1>6, AutoClosedExist
<1> QED  BY <1>5, <1>7, <1>8, <1>9, <1>10, <1>11 DEF EventsInv

LEMMA TickKeeps ==
    ASSUME EventsInv, now' \in Instants, UNCHANGED eventFiles
    PROVE  EventsInv'
BY DEF EventsInv, EventsTypeOK, Existing, NoOverbooking, SalesStopAtStart,
       CreatedMatchesStart, IsEventOwner, HasDescription, EventTimestamp, eventFiles

-----------------------------------------------------------------------------
(* The handlers *)

LEMMA CreateCases ==
    ASSUME AccountsInv, NEW u \in Users, NEW p \in Passwords,
           NEW seats \in SeatInputs, NEW date \in DateInputs,
           HandleCreateEvent(u, p, seats, date)
    PROVE  CreateStep \/ CloseStep \/ AccountStep
<1>1. CASE \E e \in EIDs, fname \in FileInputs : CreateWritten(u, p, seats, date, fname, e)
    <2>1. PICK e \in EIDs, fname \in FileInputs : CreateWritten(u, p, seats, date, fname, e)
        BY <1>1
    <2>2. seats \in Attendances /\ AuthenticateUser(u, p) # 0
        BY <2>1 DEF CreateWritten, CreateRefusal
    <2>3. u \in Registered
        BY <2>2, Authentication DEF AccountsInv
    <2>4. Creation(u, seats, date, fname, e)
        BY <2>1, <2>3 DEF Creation, CreateWritten, HandleCreateEvent
    <2>5. date \in Nat /\ fname \in FileNames
        BY InputsAssumption
    <2> QED  BY <2>2, <2>4, <2>5, Zenon DEF CreateStep
<1>2. CASE \E complete \in BOOLEAN : CreateRefused(u, p, seats, date, complete)
    BY <1>2 DEF CreateRefused, HandleCreateEvent, AccountStep
<1> QED  BY <1>1, <1>2 DEF HandleCreateEvent

LEMMA CloseCases ==
    ASSUME EventsInv, NEW u \in Users, NEW p \in Passwords, NEW e \in EidInputs,
           HandleCloseEvent(u, p, e)
    PROVE  CloseStep
<1>1. CloseRefusal(u, p, e) = "OK" => e \in Existing
    BY DEF CloseRefusal, CloseStatus
<1> QED  BY <1>1 DEF HandleCloseEvent, CloseStep, EventsInv

LEMMA ReserveCases ==
    ASSUME AccountsInv, EventsInv, NEW u \in Users, NEW p \in Passwords, NEW e \in EidInputs,
           NEW people \in PeopleInputs, HandleReserveSeats(u, p, e, people)
    PROVE  SaleStep \/ CloseStep \/ AccountStep
<1>1. CASE ReserveRefusal(u, p, e, people) = "none"
    <2>1. /\ u \in loggedIn /\ e \in Existing /\ people \in Bookings
          /\ ReserveAnswered(u, e, people)
          /\ UNCHANGED <<accountFiles, now>>
        BY <1>1 DEF ReserveRefusal, HandleReserveSeats
    <2>2. CASE ReserveOutcome(e, people) = "ACC"
        <3>1. EventState(AutoClosed({e}), e) = 1
            BY <2>2 DEF ReserveOutcome, EventState
        <3>2. people <= AvailableSeats(e)
            <4>1. people \in Int /\ AvailableSeats(e) \in Int
                BY <2>1, StartFile, Numbers DEF AvailableSeats, EventsInv
            <4> QED  BY <2>2, <3>1, <4>1 DEF ReserveOutcome
        <3>3. Sale(u, e, people)
            BY <2>1, <2>2, <3>1, <3>2 DEF ReserveAnswered, Sale
        <3>4. SaleStep
            BY <2>1, <3>3 DEF SaleStep
        <3> QED  BY <3>4
    <2>3. CASE ReserveOutcome(e, people) # "ACC"
        BY <2>1, <2>3, AutoClosedExist DEF ReserveAnswered, CloseStep
    <2> QED  BY <2>2, <2>3
<1>2. CASE ReserveRefusal(u, p, e, people) # "none"
    BY <1>2 DEF HandleReserveSeats, AccountStep
<1> QED  BY <1>1, <1>2

LEMMA NextCases ==
    ASSUME AccountsInv, EventsInv, [Next]_vars
    PROVE  CreateStep \/ CloseStep \/ SaleStep \/ AccountStep \/ TickStep
<1>1. CASE AccountRequest
    BY <1>1 DEF AccountRequest, AccountStep
<1>2. ASSUME NEW u \in Users, NEW p \in Passwords, NEW seats \in SeatInputs,
             NEW date \in DateInputs, HandleCreateEvent(u, p, seats, date)
      PROVE  CreateStep \/ CloseStep \/ AccountStep
    BY <1>2, CreateCases
<1>3. ASSUME NEW u \in Users, NEW p \in Passwords, NEW e \in EidInputs,
             HandleCloseEvent(u, p, e)
      PROVE  CloseStep
    BY <1>3, CloseCases
<1>4. ASSUME NEW u \in Users, NEW p \in Passwords, NEW e \in EidInputs,
             NEW people \in PeopleInputs, HandleReserveSeats(u, p, e, people)
      PROVE  SaleStep \/ CloseStep \/ AccountStep
    BY <1>4, ReserveCases
<1>5. ASSUME NEW u \in Users, NEW p \in Passwords, HandleMyEvents(u, p)
      PROVE  CloseStep \/ AccountStep
    BY <1>5, AutoClosedExist DEF HandleMyEvents, ReportStates, CloseStep, AccountStep
<1>6. ASSUME NEW u \in Users, NEW p \in Passwords, HandleMyReservations(u, p)
      PROVE  AccountStep
    BY <1>6 DEF HandleMyReservations, AccountStep
<1>7. CASE HandleListEvents
    BY <1>7, AutoClosedExist DEF HandleListEvents, ReportStates, CloseStep
<1>8. ASSUME NEW e \in EidInputs, HandleShowEvent(e)
      PROVE  CloseStep
    BY <1>8, AutoClosedExist DEF HandleShowEvent, CloseStep, EventsInv
<1>9. ASSUME NEW rsp, MalformedRequest(rsp)
      PROVE  AccountStep
    BY <1>9 DEF MalformedRequest, AccountStep
<1>10. CASE Tick
    BY <1>10 DEF Tick, TickStep
<1>11. CASE UNCHANGED vars
    BY <1>11 DEF vars, AccountStep
<1> QED  BY <1>1, <1>2, <1>3, <1>4, <1>5, <1>6, <1>7, <1>8, <1>9, <1>10, <1>11 DEF Next

-----------------------------------------------------------------------------
(* The invariants *)

IInv == AccountsInv /\ EventsInv

LEMMA InitIInv == Init => IInv
BY AccountsInitInv, InitEventsInv DEF Init, IInv

LEMMA StepIInv == IInv /\ [Next]_vars => IInv'
<1> SUFFICES ASSUME IInv, [Next]_vars
             PROVE  IInv'
    OBVIOUS
<1> USE DEF IInv
<1>1. CASE CreateStep
    <2>1. UNCHANGED accountFiles
        BY <1>1 DEF CreateStep, Creation
    <2> QED  BY <1>1, <2>1, CreateEventKeeps, AccountsStep
<1>2. CASE CloseStep
    BY <1>2, ClosingKeeps, AccountsStep DEF CloseStep
<1>3. CASE SaleStep
    <2>1. UNCHANGED accountFiles
        BY <1>3 DEF SaleStep, Sale
    <2> QED  BY <1>3, <2>1, CreateReservationKeeps, AccountsStep
<1>4. CASE AccountStep
    <2>1. now' \in Instants
        BY <1>4 DEF AccountStep, EventsInv, EventsTypeOK
    <2> QED  BY <1>4, <2>1, AccountsStep, TickKeeps DEF AccountStep
<1>5. CASE TickStep
    BY <1>5, TickKeeps, AccountsStep DEF TickStep
<1> QED  BY <1>1, <1>2, <1>3, <1>4, <1>5, NextCases

THEOREM InductiveInvariant == Spec => []IInv
BY InitIInv, StepIInv, PTL DEF Spec

\* The counter never passes the attendance: available_seats in
\* handle_reserve_seats is never negative and no seat is sold twice, whatever
\* requests arrive, in whatever order and at whatever times.
THEOREM NoOverbookingSafe == Spec => []NoOverbooking
BY InductiveInvariant, PTL DEF IInv, EventsInv

\* No reservation file is dated after the second its event starts.
THEOREM SalesStopSafe == Spec => []SalesStopAtStart
BY InductiveInvariant, PTL DEF IInv, EventsInv

\* The CREATED references and the owners CLS goes by agree, for users who leave and
\* come back too, whatever names CRE is given for the description.
THEOREM CreatedSafe == Spec => []CreatedMatchesStart
BY InductiveInvariant, PTL DEF IInv, EventsInv

\* The accounts are as safe in the whole server as by themselves: no request about an
\* event makes, changes or takes away a password, or opens a session.
THEOREM ServerCredentialsSafe == Spec => []SessionsRegistered /\ CredentialsChangeInSession
<1>1. ASSUME IInv, [Next]_vars
      PROVE  password' # password => InSession
    <2>1. CASE AccountStep
        BY <1>1, <2>1, AccountStepInSession DEF AccountStep, accountFiles, IInv
    <2>2. CASE CreateStep \/ CloseStep \/ SaleStep \/ TickStep
        BY <2>2 DEF CreateStep, Creation, CloseStep, SaleStep, Sale, TickStep, accountFiles
    <2> QED  BY <1>1, <2>1, <2>2, NextCases DEF IInv
<1>2. IInv /\ [Next]_vars => [InSession]_accountVars
    BY <1>1 DEF InSession
<1>3. IInv => SessionsRegistered
    BY DEF IInv, AccountsInv
<1> QED  BY <1>2, <1>3, InductiveInvariant, PTL DEF Spec, CredentialsChangeInSession, InSession

\* Every answer is a message of the protocol.  A handler's refusal chain is a
\* status for each of its outcomes.
LEMMA StepReplyTypeOK == ReplyTypeOK /\ [Next]_vars => ReplyTypeOK'
<1> SUFFICES ASSUME ReplyTypeOK, [Next]_vars
             PROVE  ReplyTypeOK'
    OBVIOUS
<1> USE DEF ReplyTypeOK, Answer, AnswerStatus, AnswerMalformed, NoReply,
            Statuses, UdpResponses, TcpResponses
<1>1. ASSUME NEW u \in Users, NEW p \in Passwords, HandleLogin(u, p)
      PROVE  ReplyTypeOK'
    BY <1>1 DEF HandleLogin
<1>2. ASSUME NEW u \in Users, NEW p \in Passwords, HandleLogout(u, p)
      PROVE  ReplyTypeOK'
    BY <1>2 DEF HandleLogout, LeaveRefusal
<1>3. ASSUME NEW u \in Users, NEW p \in Passwords, HandleUnregister(u, p)
      PROVE  ReplyTypeOK'
    BY <1>3 DEF HandleUnregister, LeaveRefusal
<1>4. ASSUME NEW u \in Users, NEW p \in Passwords, NEW new \in Passwords,
             HandleChangePassword(u, p, new)
      PROVE  ReplyTypeOK'
    BY <1>4 DEF HandleChangePassword
<1>5. CASE AccountRequest
    BY <1>1, <1>2, <1>3, <1>4, <1>5 DEF AccountRequest, AccountsNext, MalformedAccountRequest
<1>6. ASSUME NEW u \in Users, NEW p \in Passwords, NEW seats \in SeatInputs,
             NEW date \in DateInputs, HandleCreateEvent(u, p, seats, date)
      PROVE  ReplyTypeOK'
    BY <1>6 DEF HandleCreateEvent, CreateWritten, CreateRefused, CreateRefusal
<1>7. ASSUME NEW u \in Users, NEW p \in Passwords, NEW e \in EidInputs,
             HandleCloseEvent(u, p, e)
      PROVE  ReplyTypeOK'
    BY <1>7 DEF HandleCloseEvent, CloseRefusal, CloseStatus
<1>8. ASSUME NEW u \in Users, NEW p \in Passwords, NEW e \in EidInputs,
             NEW people \in PeopleInputs, HandleReserveSeats(u, p, e, people)
      PROVE  ReplyTypeOK'
    <2>1. EventState(AutoClosed({e}), e) \in 0..3
        BY DEF EventState
    <2>2. ReserveOutcome(e, people) \in {"PST", "CLS", "SLD", "REJ", "ACC"}
        BY <2>1 DEF ReserveOutcome
    <2> QED  BY <1>8, <2>2 DEF HandleReserveSeats, ReserveAnswered, ReserveRefusal
<1>9. ASSUME NEW u \in Users, NEW p \in Passwords,
             HandleMyEvents(u, p) \/ HandleMyReservations(u, p)
      PROVE  ReplyTypeOK'
    BY <1>9 DEF HandleMyEvents, HandleMyReservations, ReportStates, QueryRefusal
<1>10. CASE HandleListEvents
    BY <1>10 DEF HandleListEvents, ReportStates
<1>11. ASSUME NEW e \in EidInputs, HandleShowEvent(e)
       PROVE  ReplyTypeOK'
    BY <1>11 DEF HandleShowEvent
<1>12. ASSUME NEW rsp \in {"RCE", "RCL", "RRI", "RSE", "RME", "RMR"}, MalformedRequest(rsp)
       PROVE  ReplyTypeOK'
    BY <1>12 DEF MalformedRequest
<1>13. CASE Tick \/ UNCHANGED vars
    BY <1>13 DEF Tick, vars
<1> QED  BY <1>5, <1>6, <1>7, <1>8, <1>9, <1>10, <1>11, <1>12, <1>13 DEF Next

\* The files and the answers stay well formed for every value of the constants.
THEOREM TypeSafe == Spec => []TypeOK
<1>1. Init => ReplyTypeOK
    BY DEF Init, NoReply, ReplyTypeOK
<1>2. Spec => []ReplyTypeOK
    BY <1>1, StepReplyTypeOK, PTL DEF Spec
<1>3. IInv /\ ReplyTypeOK => TypeOK
    BY DEF IInv, AccountsInv, EventsInv, TypeOK
<1> QED  BY <1>2, <1>3, InductiveInvariant, PTL

-----------------------------------------------------------------------------
(* The server implements the ticket office *)

LEMMA InitOffice == Init => Office!Init
BY NotAnEventAssumption
DEF Init, AccountsInit, EventsInit, Office!Init, Registered, Existing, EIDs

\* The variables of the office as the mapping gives them.
ownerOf == [e \in EIDs |-> IF e \in Existing THEN start[e].uid ELSE NoUser]
freeOf == [e \in EIDs |-> IF e \in Existing THEN start[e].seats - res[e] ELSE 0]

LEMMA CreateIsAnnounce == ASSUME IInv, CreateStep PROVE Office!Next
<1>1. PICK u \in Users, seats \in Attendances, date \in Nat, fname \in FileNames, e \in EIDs :
        Creation(u, seats, date, fname, e)
    BY DEF CreateStep
<1> DEFINE file == [uid |-> u, fname |-> fname, seats |-> seats, date |-> date]
<1>2. e \notin Existing /\ EventsTypeOK
    BY <1>1, NextEidIsFree DEF Creation, IInv, EventsInv
<1>3. file \in EventFile /\ file # NoFile
    BY NotAnEventAssumption DEF EventFile, Attendances, FileNames
<1>4. Existing' = Existing \cup {e}
    BY <1>1, <1>2, <1>3 DEF Creation, CreateEvent, Existing, EventsTypeOK
<1>5. /\ start' = [start EXCEPT ![e] = file]
      /\ res' = [res EXCEPT ![e] = 0]
      /\ ended' = ended
    BY <1>1 DEF Creation, CreateEvent
<1>6. ownerOf' = [ownerOf EXCEPT ![e] = u] /\ ownerOf[e] = NoUser
    <2>1. start'[e] = file /\ e \in Existing'
        BY <1>2, <1>4, <1>5 DEF EventsTypeOK
    <2>2. ownerOf'[e] = u /\ ownerOf[e] = NoUser
        BY <1>2, <2>1 DEF ownerOf
    <2>3. ASSUME NEW x \in EIDs, x # e
          PROVE  ownerOf'[x] = ownerOf[x]
        BY <1>2, <1>4, <1>5, <2>3 DEF ownerOf, EventsTypeOK
    <2>4. DOMAIN ownerOf = EIDs /\ DOMAIN ownerOf' = EIDs
          /\ ownerOf = [x \in EIDs |-> ownerOf[x]] /\ ownerOf' = [x \in EIDs |-> ownerOf'[x]]
        BY DEF ownerOf
    <2> QED  BY <2>2, <2>3, <2>4
<1>7. freeOf' = [freeOf EXCEPT ![e] = seats]
    <2>1. start'[e] = file /\ res'[e] = 0 /\ e \in Existing'
        BY <1>2, <1>4, <1>5 DEF EventsTypeOK
    <2>2. freeOf'[e] = seats
        BY <2>1, Numbers DEF freeOf
    <2>3. ASSUME NEW x \in EIDs, x # e
          PROVE  freeOf'[x] = freeOf[x]
        BY <1>2, <1>4, <1>5, <2>3 DEF freeOf, EventsTypeOK
    <2>4. DOMAIN freeOf = EIDs /\ DOMAIN freeOf' = EIDs
          /\ freeOf = [x \in EIDs |-> freeOf[x]] /\ freeOf' = [x \in EIDs |-> freeOf'[x]]
        BY DEF freeOf
    <2> QED  BY <2>2, <2>3, <2>4
<1>8. (Existing \ ended)' = (Existing \ ended) \cup {e}
    BY <1>2, <1>4, <1>5 DEF IInv, EventsInv
<1>9. u \in Registered /\ UNCHANGED <<Registered, loggedIn>>
    <2>1. u \in Registered /\ UNCHANGED accountFiles
        BY <1>1 DEF Creation
    <2>2. UNCHANGED <<Registered, loggedIn>>
        BY <2>1 DEF accountFiles, Registered
    <2> QED  BY <2>1, <2>2
<1>10. \E size \in Office!Attendances : freeOf' = [freeOf EXCEPT ![e] = size]
    <2>1. seats \in Office!Attendances
        BY DEF Office!Attendances, Attendances
    <2> QED  BY <1>7, <2>1
<1>11. Office!Announce(u, e)
    BY <1>6, <1>8, <1>9, <1>10 DEF Office!Announce, ownerOf, freeOf
<1> QED  BY <1>11 DEF Office!Next

LEMMA CloseIsWithdraw == ASSUME IInv, CloseStep PROVE Office!Next \/ UNCHANGED Office!office
<1>1. Existing' = Existing /\ UNCHANGED <<Registered, loggedIn, ownerOf, freeOf>>
    BY DEF CloseStep, accountFiles, Existing, Registered, ownerOf, freeOf
<1>2. (Existing \ ended)' = (Existing \ ended) \ (ended' \ ended)
    BY <1>1 DEF CloseStep
<1> DEFINE es == (Existing \ ended) \cap ended'
<1>3. es \in SUBSET (Existing \ ended) /\ (Existing \ ended)' = (Existing \ ended) \ es
    BY <1>2
<1>4. Office!Withdraw(es)
    BY <1>1, <1>3 DEF Office!Withdraw, ownerOf, freeOf
<1> QED  BY <1>3, <1>4 DEF Office!Next

LEMMA SaleIsSell == ASSUME IInv, SaleStep PROVE Office!Next
<1>1. PICK u \in loggedIn, e \in Existing, people \in Bookings : Sale(u, e, people)
    BY DEF SaleStep
<1>2. e \notin AutoClosed({e}) /\ e \notin ended
    BY <1>1, ActiveMeans, AutoClosedExist DEF Sale, IInv
<1>3. ended' = ended
    BY <1>1, <1>2 DEF Sale, AutoClosed
<1>4. start' = start /\ res' = [res EXCEPT ![e] = @ + people] /\ Existing' = Existing
    BY <1>1 DEF Sale, CreateReservation, Existing
<1>5. /\ e \in EIDs /\ u \in Users
      /\ start[e].seats \in Nat /\ res[e] \in Nat /\ people \in Nat \ {0}
    BY StartFile DEF IInv, EventsInv, AccountsInv, AccountsTypeOK, Bookings
<1>6. UNCHANGED <<Registered, loggedIn, ownerOf>> /\ (Existing \ ended)' = Existing \ ended
    BY <1>1, <1>3, <1>4 DEF Sale, accountFiles, Registered, ownerOf
<1>7. people \in 1..freeOf[e]
    BY <1>1, <1>5 DEF Sale, freeOf, AvailableSeats
<1>8. freeOf' = [freeOf EXCEPT ![e] = @ - people]
    <2>1. res'[e] = res[e] + people /\ \A x \in EIDs : x # e => res'[x] = res[x]
        BY <1>4, <1>5 DEF IInv, EventsInv, EventsTypeOK
    <2>2. freeOf'[e] = freeOf[e] - people
        BY <1>4, <1>5, <2>1 DEF freeOf
    <2>3. ASSUME NEW x \in EIDs, x # e
          PROVE  freeOf'[x] = freeOf[x]
        BY <1>4, <2>1, <2>3 DEF freeOf
    <2>4. DOMAIN freeOf = EIDs /\ DOMAIN freeOf' = EIDs
          /\ freeOf = [x \in EIDs |-> freeOf[x]] /\ freeOf' = [x \in EIDs |-> freeOf'[x]]
        BY DEF freeOf
    <2> QED  BY <2>2, <2>3, <2>4
<1>9. Office!Sell(u, e)
    BY <1>2, <1>6, <1>7, <1>8 DEF Office!Sell, ownerOf, freeOf
<1> QED  BY <1>5, <1>9 DEF Office!Next

\* Account requests: LIN, LOU and UNR are SignIn, SignOut and Leave; the other
\* requests and CPS leave the members and the sessions as they are.
LEMMA AccountIsMember ==
    ASSUME IInv, AccountStep
    PROVE  Office!Next \/ UNCHANGED Office!office
<1> USE PasswordsAssumption DEF IInv, AccountsInv, AccountsTypeOK, SessionsRegistered, Registered
<1>1. UNCHANGED <<Existing, ownerOf, freeOf>> /\ (Existing \ ended)' = Existing \ ended
    BY DEF AccountStep, eventFiles, Existing, ownerOf, freeOf
<1>2. ASSUME NEW u \in Users, NEW p \in Passwords, HandleLogin(u, p)
      PROVE  Office!SignIn(u) \/ UNCHANGED <<Registered, loggedIn>>
    <2>1. CASE UNCHANGED <<userDir, password>> /\ LoginUser(u) /\ AuthenticateUser(u, p) = 1
        <3>1. u \in Registered
            BY <2>1, Authentication
        <3>2. Registered' = Registered \cup {u} /\ loggedIn' = loggedIn \cup {u}
            BY <2>1, <3>1 DEF LoginUser
        <3> QED  BY <1>1, <3>2 DEF Office!SignIn, ownerOf, freeOf
    <2>2. CASE RegisterUser(u, p) /\ LoginUser(u)
        <3>1. Registered' = Registered \cup {u} /\ loggedIn' = loggedIn \cup {u}
            BY <2>2 DEF RegisterUser, LoginUser
        <3> QED  BY <1>1, <3>1 DEF Office!SignIn, ownerOf, freeOf
    <2>3. CASE UNCHANGED accountFiles
        BY <2>3 DEF accountFiles
    <2> QED  BY <1>2, <2>1, <2>2, <2>3 DEF HandleLogin
<1>3. ASSUME NEW u \in Users, NEW p \in Passwords, HandleLogout(u, p)
      PROVE  Office!SignOut(u) \/ UNCHANGED <<Registered, loggedIn>>
    BY <1>1, <1>3
    DEF HandleLogout, MayLeave, LogoutUser, accountFiles, Office!SignOut, ownerOf, freeOf
<1>4. ASSUME NEW u \in Users, NEW p \in Passwords, HandleUnregister(u, p)
      PROVE  Office!Leave(u) \/ UNCHANGED <<Registered, loggedIn>>
    <2>1. CASE MayLeave(u, p) /\ UnregisterUser(u)
        <3>1. Registered' = Registered \ {u} /\ loggedIn' = loggedIn \ {u}
            BY <2>1 DEF UnregisterUser, LogoutUser
        <3> QED  BY <1>1, <2>1, <3>1 DEF Office!Leave, MayLeave, ownerOf, freeOf
    <2> QED  BY <1>4, <2>1 DEF HandleUnregister, accountFiles
<1>5. ASSUME NEW u \in Users, NEW p \in Passwords, NEW new \in Passwords,
             HandleChangePassword(u, p, new)
      PROVE  UNCHANGED <<Registered, loggedIn>>
    <2>1. CASE MayChangePassword(u, p) /\ password' = [password EXCEPT ![u] = new]
               /\ UNCHANGED loggedIn
        BY <2>1, Authentication DEF MayChangePassword
    <2> QED  BY <1>5, <2>1 DEF HandleChangePassword, accountFiles
<1>6. CASE UNCHANGED accountFiles
    BY <1>1, <1>6 DEF accountFiles, Office!office, ownerOf, freeOf
<1>7. UNCHANGED <<Registered, loggedIn>> => UNCHANGED Office!office
    BY <1>1 DEF Office!office, ownerOf, freeOf
<1>8. AccountsNext \/ UNCHANGED accountFiles
    BY DEF AccountStep
<1> QED  BY <1>2, <1>3, <1>4, <1>5, <1>6, <1>7, <1>8
         DEF AccountsNext, MalformedAccountRequest, Office!Next

\* The server implements the ticket office: seats are sold to members in session
\* only, never more than are free, only while the event is on sale, and an event
\* off sale stays off sale.
THEOREM ServerImplementsOffice == Spec => ImplementsTicketOffice
<1>1. IInv /\ [Next]_vars => [Office!Next]_(Office!office)
    <2> SUFFICES ASSUME IInv, [Next]_vars
                 PROVE  Office!Next \/ UNCHANGED Office!office
        OBVIOUS
    <2>1. CASE TickStep
        BY <2>1 DEF TickStep, accountFiles, eventFiles, Office!office, Registered, Existing
    <2> QED  BY <2>1, NextCases, CreateIsAnnounce, CloseIsWithdraw, SaleIsSell,
                AccountIsMember DEF IInv
<1> QED  BY <1>1, InitOffice, InductiveInvariant, PTL DEF Spec, ImplementsTicketOffice, Office!Spec
=============================================================================
