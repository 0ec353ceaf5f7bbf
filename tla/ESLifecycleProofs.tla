------------------------- MODULE ESLifecycleProofs -------------------------
(***************************************************************************)
(* Proofs about what the server's steps may do to an event that exists:    *)
(* its number and START are for good, its state only moves on, and END     *)
(* appears for one of two reasons.  They are action properties, proved     *)
(* from the inductive invariant of ESServerProofs.                         *)
(***************************************************************************)
EXTENDS ESServerProofs

\* What is known of an event besides StartFile: the clock and the shift are numbers.
LEMMA Clock == ASSUME IInv PROVE now \in Nat /\ DstShift \in Nat
BY ClockAssumption DEF IInv, EventsInv, EventsTypeOK

\* The minute test of auto_close_if_past and the second test of get_event_state.
LEMMA Minutes ==
    ASSUME NEW date \in Nat, NEW t \in Nat
    PROVE  /\ date < t \div 60 => 60 * (date + 1) <= t
           /\ 60 * date < t => date <= t \div 60
OBVIOUS

LEMMA ClosedByDate ==
    ASSUME IInv, NEW es, NEW e \in AutoClosed(es) \ ended
    PROVE  60 * (start[e].date + 1) <= now
<1>1. e \in Existing /\ start[e].date < now \div 60
    BY DEF AutoClosed, IsDateBeforeNow
<1>2. start[e].date \in Nat /\ now \in Nat
    BY <1>1, StartFile, Clock DEF IInv, EventsInv
<1> QED  BY <1>1, <1>2, Minutes

-----------------------------------------------------------------------------
(* END appears for a reason *)

ReasonToClose(e) ==
    \/ 60 * (start[e].date + 1) <= now
    \/ /\ reply'.rsp = "RCL" /\ reply'.status = "OK" /\ reply'.eid = e
       /\ reply'.uid = start[e].uid
       /\ reply'.uid \in loggedIn
       /\ EventState(ended, e) = 1

\* CLS: every test of handle_close_event and close_event has been passed.
LEMMA CloseReason ==
    ASSUME IInv, NEW u \in Users, NEW p \in Passwords, NEW e \in EidInputs,
           HandleCloseEvent(u, p, e), NEW x \in ended' \ ended
    PROVE  ReasonToClose(x)
<1>1. CloseRefusal(u, p, e) = "OK" /\ x = e
    BY DEF HandleCloseEvent
<1>2. u \in loggedIn /\ CloseStatus(u, e) = "OK"
    BY <1>1 DEF CloseRefusal
<1>3. start[e].uid = u /\ EventState(ended, e) \notin {0, 2, 3}
    BY <1>2 DEF CloseStatus, IsEventOwner
<1>4. EventState(ended, e) = 1
    BY <1>3 DEF EventState
<1>5. /\ reply'.rsp = "RCL" /\ reply'.status = "OK"
      /\ reply'.eid = e /\ reply'.uid = u
    BY <1>1 DEF HandleCloseEvent, AnswerStatus, Answer
<1> QED  BY <1>1, <1>2, <1>3, <1>4, <1>5 DEF ReasonToClose

\* Every other request that writes END does so in auto_close_if_past.
LEMMA EndCases ==
    ASSUME IInv, [Next]_vars, NEW x \in ended' \ ended
    PROVE  ReasonToClose(x)
<1>1. ASSUME NEW es, ended' = AutoClosed(es)
      PROVE  ReasonToClose(x)
    BY <1>1, ClosedByDate DEF ReasonToClose
<1>2. CASE AccountRequest \/ Tick \/ UNCHANGED vars
    BY <1>2 DEF AccountRequest, Tick, vars, eventFiles
<1>3. ASSUME NEW u \in Users, NEW p \in Passwords, NEW seats \in SeatInputs,
             NEW date \in DateInputs, HandleCreateEvent(u, p, seats, date)
      PROVE  FALSE
    BY <1>3 DEF HandleCreateEvent, CreateWritten, CreateRefused, CreateEvent, eventFiles
<1>4. ASSUME NEW u \in Users, NEW p \in Passwords, NEW e \in EidInputs,
             HandleCloseEvent(u, p, e)
      PROVE  ReasonToClose(x)
    BY <1>4, CloseReason
<1>5. ASSUME NEW u \in Users, NEW p \in Passwords, NEW e \in EidInputs,
             NEW people \in PeopleInputs, HandleReserveSeats(u, p, e, people)
      PROVE  ReasonToClose(x)
    BY <1>1, <1>5 DEF HandleReserveSeats, ReserveAnswered, eventFiles
<1>6. ASSUME NEW u \in Users, NEW p \in Passwords,
             HandleMyEvents(u, p) \/ HandleMyReservations(u, p)
      PROVE  ReasonToClose(x)
    BY <1>1, <1>6 DEF HandleMyEvents, HandleMyReservations, ReportStates, eventFiles
<1>7. CASE HandleListEvents
    BY <1>1, <1>7 DEF HandleListEvents, ReportStates
<1>8. ASSUME NEW e \in EidInputs, HandleShowEvent(e)
      PROVE  ReasonToClose(x)
    BY <1>1, <1>8 DEF HandleShowEvent
<1>9. ASSUME NEW rsp, MalformedRequest(rsp)
      PROVE  FALSE
    BY <1>9 DEF MalformedRequest, eventFiles
<1> QED  BY <1>2, <1>3, <1>4, <1>5, <1>6, <1>7, <1>8, <1>9 DEF Next

\* END appears because the event's minute has gone by, or because its owner, in
\* session, closes it while it is active (event_database.c:252-346).
THEOREM ClosedForAReasonSafe == Spec => ClosedForAReason
<1>1. IInv /\ [Next]_vars =>
        [\A e \in ended' \ ended :
         \/ 60 * (start[e].date + 1) <= now
         \/ /\ reply'.rsp = "RCL" /\ reply'.status = "OK" /\ reply'.eid = e
            /\ reply'.uid = start[e].uid
            /\ reply'.uid \in loggedIn
            /\ EventState(ended, e) = 1]_vars
    BY EndCases DEF ReasonToClose
<1> QED  BY <1>1, InductiveInvariant, PTL DEF Spec, ClosedForAReason

-----------------------------------------------------------------------------
(* Numbers and START are for good *)

\* The numbers in use are 1 to some number: get_next_eid counts on from the last.
Dense == \A e \in Existing : \A d \in 1..e : d \in Existing

\* START of an event that exists is never written again, and the next number
\* follows the numbers in use.
LEMMA StartKept ==
    ASSUME IInv, Dense, [Next]_vars
    PROVE  /\ \A e \in Existing : start'[e] = start[e] /\ res'[e] >= res[e]
           /\ Existing \subseteq Existing'
           /\ Dense'
<1> USE DEF IInv
<1>1. CASE CreateStep
    <2>1. PICK u \in Users, seats \in Attendances, date \in Nat, fname \in FileNames, n \in EIDs :
            Creation(u, seats, date, fname, n)
        BY <1>1 DEF CreateStep
    <2> DEFINE file == [uid |-> u, fname |-> fname, seats |-> seats, date |-> date]
    <2>2. /\ start' = [start EXCEPT ![n] = file] /\ res' = [res EXCEPT ![n] = 0]
          /\ IsNextEid(n) /\ n \in Nat \ {0}
        BY <2>1 DEF Creation, CreateEvent, EIDs
    <2>3. n \notin Existing /\ file # NoFile
        BY <2>1, NextEidIsFree, NotAnEventAssumption
        DEF Creation, EventsInv, EventFile, Attendances, FileNames
    <2>4. Existing' = Existing \cup {n}
        BY <2>2, <2>3 DEF Existing, EventsInv, EventsTypeOK
    <2>5. \A e \in Existing : start'[e] = start[e] /\ res'[e] >= res[e]
        BY <2>2, <2>3, StartFile DEF EventsInv, EventsTypeOK
    <2>6. \A d \in 1..n : d \in Existing'
        <3> SUFFICES ASSUME NEW d \in 1..n, d # n
                     PROVE  d \in Existing
            BY <2>4
        <3>1. n - 1 \in Existing /\ d \in 1..(n - 1)
            BY <2>2 DEF IsNextEid
        <3> QED  BY <3>1 DEF Dense
    <2> QED  BY <2>4, <2>5, <2>6 DEF Dense
<1>2. CASE SaleStep
    <2>1. PICK u \in loggedIn, e \in Existing, people \in Bookings : Sale(u, e, people)
        BY <1>2 DEF SaleStep
    <2>2. start' = start /\ res' = [res EXCEPT ![e] = @ + people] /\ people \in Nat
        BY <2>1, Numbers DEF Sale, CreateReservation
    <2>3. Existing' = Existing
        BY <2>2 DEF Existing
    <2>4. \A x \in Existing : start'[x] = start[x] /\ res'[x] >= res[x]
        BY <2>2, StartFile DEF EventsInv, EventsTypeOK
    <2> QED  BY <2>3, <2>4 DEF Dense
<1>3. CASE CloseStep \/ AccountStep \/ TickStep
    <2>1. start' = start /\ res' = res
        BY <1>3 DEF CloseStep, AccountStep, TickStep, eventFiles
    <2>2. Existing' = Existing
        BY <2>1 DEF Existing
    <2>3. \A x \in Existing : start'[x] = start[x] /\ res'[x] >= res[x]
        BY <2>1, StartFile DEF EventsInv
    <2> QED  BY <2>2, <2>3 DEF Dense
<1> QED  BY <1>1, <1>2, <1>3, NextCases

LEMMA DenseSafe == Spec => []Dense
<1>1. Init => Dense
    BY DEF Init, EventsInit, Dense, Existing
<1>2. IInv /\ Dense /\ [Next]_vars => Dense'
    BY StartKept
<1> QED  BY <1>1, <1>2, InductiveInvariant, PTL DEF Spec

\* An event number is given once, and a START file is written once
\* (file_system.c:202-230, event_database.c:36-50).
THEOREM EventsPermanentSafe == Spec => EventsPermanent
<1>1. IInv /\ Dense /\ [Next]_vars =>
        [/\ \A e \in Existing : start'[e] = start[e]
         /\ \A e \in Existing' : \A d \in 1..e : d \in Existing']_vars
    BY StartKept DEF Dense
<1> QED  BY <1>1, InductiveInvariant, DenseSafe, PTL DEF Spec, EventsPermanent

-----------------------------------------------------------------------------
(* The state a client sees only moves on *)

LEMMA EndsKept == ASSUME IInv, [Next]_vars PROVE ended \subseteq ended'
<1> USE DEF IInv
<1>1. CASE SaleStep
    BY <1>1, AutoClosedExist DEF SaleStep, Sale
<1>2. CASE CreateStep
    BY <1>2 DEF CreateStep, Creation, CreateEvent
<1>3. CASE CloseStep \/ AccountStep \/ TickStep
    BY <1>3 DEF CloseStep, AccountStep, TickStep, eventFiles
<1> QED  BY <1>1, <1>2, <1>3, NextCases

\* Every handler leaves the clock alone.
LEMMA OnlyTickMoves == ASSUME Next PROVE now' = now \/ Tick
<1>1. ASSUME NEW u \in Users, NEW p \in Passwords, NEW seats \in SeatInputs,
             NEW date \in DateInputs, HandleCreateEvent(u, p, seats, date)
      PROVE  now' = now
    BY <1>1 DEF HandleCreateEvent
<1>2. ASSUME NEW u \in Users, NEW p \in Passwords, NEW e \in EidInputs,
             HandleCloseEvent(u, p, e)
      PROVE  now' = now
    BY <1>2 DEF HandleCloseEvent
<1>3. ASSUME NEW u \in Users, NEW p \in Passwords, NEW e \in EidInputs,
             NEW people \in PeopleInputs, HandleReserveSeats(u, p, e, people)
      PROVE  now' = now
    BY <1>3 DEF HandleReserveSeats
<1>4. ASSUME NEW u \in Users, NEW p \in Passwords,
             HandleMyEvents(u, p) \/ HandleMyReservations(u, p)
      PROVE  now' = now
    BY <1>4 DEF HandleMyEvents, HandleMyReservations
<1>5. ASSUME AccountRequest \/ HandleListEvents
      PROVE  now' = now
    BY <1>5 DEF AccountRequest, HandleListEvents
<1>6. ASSUME NEW e \in EidInputs, HandleShowEvent(e)
      PROVE  now' = now
    BY <1>6 DEF HandleShowEvent
<1>7. ASSUME NEW rsp, MalformedRequest(rsp)
      PROVE  now' = now
    BY <1>7 DEF MalformedRequest
<1> QED  BY <1>1, <1>2, <1>3, <1>4, <1>5, <1>6, <1>7 DEF Next

LEMMA TimePasses == ASSUME IInv, [Next]_vars PROVE now' \in Nat /\ now' >= now
<1>1. now' = now \/ (now' \in Instants /\ now' > now)
    BY OnlyTickMoves DEF Tick, vars
<1>2. now \in Nat /\ now' \in Nat
    BY <1>1, Clock, ClockAssumption
<1> QED  BY <1>1, <1>2

\* Closed, past and sold out are each for good, and come in this order.
THEOREM LifecycleOnlyAdvancesSafe == Spec => LifecycleOnlyAdvances
<1>1. ASSUME IInv, Dense, [Next]_vars, NEW e \in Existing
      PROVE  StageOf(EventState(ended, e)) <= StageOf(EventState(ended, e)')
    <2>1. /\ start'[e] = start[e] /\ res'[e] >= res[e] /\ e \in Existing'
          /\ ended \subseteq ended' /\ now' \in Nat /\ now' >= now /\ now \in Nat
          /\ IInv'
        BY <1>1, StartKept, EndsKept, TimePasses, Clock, StepIInv
    <2>2. start[e].date \in Nat /\ start[e].seats \in Nat /\ res[e] \in Nat /\ res'[e] \in Nat
        BY <1>1, <2>1, StartFile, Zenon DEF IInv, EventsInv, EventsTypeOK, Existing
    <2> DEFINE before == EventState(ended, e)
               after == EventState(ended, e)'
    <2>3. /\ before \in 0..3 /\ after \in 0..3
          /\ before = 3 => after = 3
          /\ before = 0 => after \in {0, 3}
          /\ before = 2 => after \in {0, 2, 3}
        BY <2>1, <2>2, ClockAssumption DEF EventState, EventTimestamp, AvailableSeats
    <2> HIDE DEF before, after
    <2> QED  BY <2>3 DEF StageOf, before, after
<1>2. IInv /\ Dense /\ [Next]_vars =>
        [\A e \in Existing : StageOf(EventState(ended, e)) <= StageOf(EventState(ended, e)')]_vars
    BY <1>1
<1> QED  BY <1>2, InductiveInvariant, DenseSafe, PTL DEF Spec, LifecycleOnlyAdvances

-----------------------------------------------------------------------------
(* "Past" is the answer of one minute *)

\* State 0 after auto_close_if_past: the event's minute has begun and is not over.
LEMMA PastMinute ==
    ASSUME IInv, NEW es, NEW e \in es \cap Existing, EventState(AutoClosed(es), e) = 0
    PROVE  now \div 60 = start[e].date
<1>1. start[e].date \in Nat /\ now \in Nat /\ DstShift \in Nat
    BY StartFile, Clock DEF IInv, EventsInv
<1>2. e \notin AutoClosed(es) /\ EventTimestamp(start[e].date) < now
    BY DEF EventState
<1>3. ~(start[e].date < now \div 60)
    BY <1>2 DEF AutoClosed, IsDateBeforeNow
<1>4. 60 * start[e].date < now
    BY <1>1, <1>2 DEF EventTimestamp
<1>5. start[e].date <= now \div 60
    BY <1>1, <1>4, Minutes
<1>6. now \div 60 \in Nat
    BY <1>1
<1> QED  BY <1>1, <1>3, <1>5, <1>6

\* The answer to a request tells "past" of an event only in the event's minute.
PastToldInItsMinute ==
    \A e \in Existing :
        \/ reply'.rsp \in {"RLS", "RME"} /\ <<e, 0>> \in reply'.data
        \/ reply'.rsp = "RRI" /\ reply'.status = "PST" /\ reply'.eid = e
        => now \div 60 = start[e].date

LEMMA ReportedMinute ==
    ASSUME IInv, NEW rsp \in {"RLS", "RME"}, NEW u, NEW es \in SUBSET Existing,
           ReportStates(rsp, u, es)
    PROVE  PastToldInItsMinute
<1> USE DEF AnswerStatus, Answer
<1>1. reply'.rsp = rsp /\ reply'.data \subseteq {<<e, EventState(AutoClosed(es), e)>> : e \in es}
    BY DEF ReportStates
<1>2. ASSUME NEW e \in Existing, <<e, 0>> \in reply'.data
      PROVE  now \div 60 = start[e].date
    <2>1. PICK x \in es : <<e, 0>> = <<x, EventState(AutoClosed(es), x)>>
        BY <1>1, <1>2
    <2>2. e \in es \cap Existing /\ EventState(AutoClosed(es), e) = 0
        BY <2>1
    <2> QED  BY <2>2, PastMinute
<1> QED  BY <1>1, <1>2 DEF PastToldInItsMinute

LEMMA ReservedMinute ==
    ASSUME IInv, NEW u \in Users, NEW p \in Passwords, NEW e \in EidInputs,
           NEW people \in PeopleInputs, HandleReserveSeats(u, p, e, people)
    PROVE  PastToldInItsMinute
<1> USE DEF AnswerStatus, Answer
<1>1. reply'.rsp = "RRI" /\ reply'.eid = e
    BY DEF HandleReserveSeats, ReserveAnswered
<1>2. ASSUME e \in Existing, reply'.status = "PST"
      PROVE  now \div 60 = start[e].date
    <2>1. ReserveOutcome(e, people) = "PST"
        BY <1>2 DEF HandleReserveSeats, ReserveAnswered, ReserveRefusal
    <2>2. EventState(AutoClosed({e}), e) = 0
        BY <2>1 DEF ReserveOutcome, EventState
    <2> QED  BY <1>2, <2>2, PastMinute
<1> QED  BY <1>1, <1>2 DEF PastToldInItsMinute

LEMMA CreateAnswer ==
    ASSUME NEW u, NEW p, NEW seats, NEW date, HandleCreateEvent(u, p, seats, date)
    PROVE  reply'.rsp = "RCE"
<1>1. ASSUME NEW status, NEW e, AnswerStatus("RCE", u, e, status)
      PROVE  reply'.rsp = "RCE"
    BY <1>1 DEF AnswerStatus, Answer
<1>2. CASE \E e \in EIDs, fname \in FileInputs : CreateWritten(u, p, seats, date, fname, e)
    BY <1>1, <1>2 DEF CreateWritten
<1>3. CASE \E complete \in BOOLEAN : CreateRefused(u, p, seats, date, complete)
    BY <1>1, <1>3 DEF CreateRefused
<1> QED  BY <1>2, <1>3 DEF HandleCreateEvent

\* The other answers tell no state.
LEMMA ToldMinute == ASSUME IInv, Next PROVE PastToldInItsMinute
<1> USE DEF AnswerStatus, Answer, AnswerMalformed
<1>1. ASSUME reply'.rsp \notin {"RLS", "RME", "RRI"}
      PROVE  PastToldInItsMinute
    BY <1>1 DEF PastToldInItsMinute
<1>2. ASSUME reply'.data = {}, reply'.status # "PST"
      PROVE  PastToldInItsMinute
    BY <1>2 DEF PastToldInItsMinute
<1>3. CASE AccountRequest
    BY <1>1, <1>3 DEF AccountRequest, AccountsNext, HandleLogin, HandleLogout,
        HandleUnregister, HandleChangePassword, MalformedAccountRequest
<1>4. ASSUME NEW u \in Users, NEW p \in Passwords, NEW seats \in SeatInputs,
             NEW date \in DateInputs, HandleCreateEvent(u, p, seats, date)
      PROVE  PastToldInItsMinute
    BY <1>1, <1>4, CreateAnswer
<1>5. ASSUME NEW u \in Users, NEW p \in Passwords, NEW e \in EidInputs,
             HandleCloseEvent(u, p, e)
      PROVE  PastToldInItsMinute
    BY <1>1, <1>5 DEF HandleCloseEvent
<1>6. ASSUME NEW u \in Users, NEW p \in Passwords, HandleMyEvents(u, p)
      PROVE  PastToldInItsMinute
    <2>1. CASE ReportStates("RME", u, created[u])
        <3>1. created[u] \in SUBSET Existing
            BY DEF IInv, EventsInv, CreatedMatchesStart
        <3> QED  BY <2>1, <3>1, ReportedMinute
    <2>2. CASE QueryRefusal(u, p) # "none" /\ AnswerStatus("RME", u, 0, QueryRefusal(u, p))
        BY <1>2, <2>2 DEF QueryRefusal
    <2> QED  BY <1>6, <2>1, <2>2 DEF HandleMyEvents
<1>7. ASSUME NEW u \in Users, NEW p \in Passwords, HandleMyReservations(u, p)
      PROVE  PastToldInItsMinute
    BY <1>1, <1>7 DEF HandleMyReservations
<1>8. CASE HandleListEvents
    BY <1>8, ReportedMinute DEF HandleListEvents
<1>9. ASSUME NEW e \in EidInputs, HandleShowEvent(e)
      PROVE  PastToldInItsMinute
    BY <1>1, <1>9 DEF HandleShowEvent
<1>10. ASSUME NEW rsp, MalformedRequest(rsp)
       PROVE  PastToldInItsMinute
    BY <1>2, <1>10 DEF MalformedRequest
<1>11. CASE Tick
    BY <1>1, <1>11 DEF Tick, NoReply
<1> QED  BY <1>3, <1>4, <1>5, <1>6, <1>7, <1>8, <1>9, <1>10, <1>11, ReservedMinute DEF Next

\* No event begins to exist in the answers that tell states.
LEMMA OnlyCreateAdds ==
    ASSUME Next, reply'.rsp \in {"RLS", "RME", "RRI"}
    PROVE  start' = start
<1>1. ASSUME NEW u \in Users, NEW p \in Passwords, NEW seats \in SeatInputs,
             NEW date \in DateInputs, HandleCreateEvent(u, p, seats, date)
      PROVE  reply'.rsp = "RCE"
    BY <1>1, CreateAnswer
<1>2. ASSUME NEW u \in Users, NEW p \in Passwords, NEW e \in EidInputs,
             NEW people \in PeopleInputs, HandleReserveSeats(u, p, e, people)
      PROVE  start' = start
    BY <1>2 DEF HandleReserveSeats, ReserveAnswered, CreateReservation, eventFiles
<1>3. ASSUME NEW u \in Users, NEW p \in Passwords,
             \/ \E e \in EidInputs : HandleCloseEvent(u, p, e)
             \/ HandleMyEvents(u, p) \/ HandleMyReservations(u, p)
      PROVE  start' = start
    BY <1>3 DEF HandleCloseEvent, HandleMyEvents, HandleMyReservations, ReportStates, eventFiles
<1>4. ASSUME AccountRequest \/ HandleListEvents \/ Tick
      PROVE  start' = start
    BY <1>4 DEF AccountRequest, HandleListEvents, ReportStates, Tick, eventFiles
<1>5. ASSUME NEW e \in EidInputs, HandleShowEvent(e)
      PROVE  start' = start
    BY <1>5 DEF HandleShowEvent
<1>6. ASSUME NEW rsp, MalformedRequest(rsp)
      PROVE  start' = start
    BY <1>6 DEF MalformedRequest, eventFiles
<1> QED  BY <1>1, <1>2, <1>3, <1>4, <1>5, <1>6 DEF Next

\* Nobody is told "past" (LST, LME or the PST of RID) outside the event's own
\* minute: auto_close_if_past has closed it afterwards.
THEOREM PastOnlyInItsMinuteSafe == Spec => []PastOnlyInItsMinute
<1>1. Init => PastOnlyInItsMinute
    BY DEF Init, EventsInit, Existing, PastOnlyInItsMinute
<1>2. ASSUME IInv, Dense, PastOnlyInItsMinute, [Next]_vars
      PROVE  PastOnlyInItsMinute'
    <2>1. CASE UNCHANGED vars
        BY <1>2, <2>1 DEF vars, eventFiles, PastOnlyInItsMinute, Existing
    <2>2. CASE Next /\ reply' = NoReply
        BY <2>2 DEF PastOnlyInItsMinute, NoReply
    <2>3. CASE Next /\ now' = now
        <3>1. PastToldInItsMinute
            BY <1>2, <2>3, ToldMinute
        <3>2. \A e \in Existing : start'[e] = start[e]
            BY <1>2, StartKept
        <3>3. reply'.rsp \in {"RLS", "RME", "RRI"} => Existing' = Existing
            BY <2>3, OnlyCreateAdds DEF Existing
        <3> QED  BY <2>3, <3>1, <3>2, <3>3 DEF PastToldInItsMinute, PastOnlyInItsMinute
    <2> QED  BY <1>2, <2>1, <2>2, <2>3, OnlyTickMoves DEF Tick
<1> QED  BY <1>1, <1>2, InductiveInvariant, DenseSafe, PTL DEF Spec

\* CLS tells the owner that the event is past, also in the minutes after it, wherever
\* the local clock runs on standard time: close_event (event_database.c:322) misses the
\* past only where date_to_timestamp is a minute or more ahead of the date it was given.
THEOREM CloseTellsPastOnStandardTime == ASSUME DstShift < 60 PROVE Spec => CloseTellsPast
<1>1. ASSUME IInv, NEW u \in Users, NEW p \in Passwords, NEW e \in Existing \ ended,
             HandleCloseEvent(u, p, e), 60 * (start[e].date + 1) <= now
      PROVE  reply'.status # "OK"
    <2>1. start[e].date \in Nat /\ now \in Nat /\ DstShift \in Nat
        BY <1>1, StartFile, Clock DEF IInv, EventsInv
    <2>2. EventTimestamp(start[e].date) < now
        BY <1>1, <2>1 DEF EventTimestamp
    <2>3. EventState(ended, e) = 0
        BY <2>2 DEF EventState
    <2>4. CloseStatus(u, e) \in {"EOW", "PST"}
        BY <2>3 DEF CloseStatus
    <2>5. CloseRefusal(u, p, e) # "OK"
        BY <2>4 DEF CloseRefusal
    <2> QED  BY <1>1, <2>5 DEF HandleCloseEvent, AnswerStatus, Answer
<1>2. IInv /\ [Next]_vars =>
        [\A u \in Users, p \in Passwords, e \in Existing \ ended :
           (HandleCloseEvent(u, p, e) /\ 60 * (start[e].date + 1) <= now)
              => reply'.status # "OK"]_vars
    BY <1>1
<1> QED  BY <1>2, InductiveInvariant, PTL DEF Spec, CloseTellsPast
=============================================================================
