--------------------------- MODULE EventDatabase ---------------------------
(***************************************************************************)
(* The events and their reservations: event_database.c, the event files of *)
(* file_system.c and the two notions of "past" the code has, one from      *)
(* utils.c (by the minute) and one from date_to_timestamp (by the second). *)
(*                                                                         *)
(* EVENTS/eid holds START (written once), RES (the number of seats         *)
(* reserved), the description under the name in START, END (there when the *)
(* event is closed) and one file for each reservation; USERS/uid holds a   *)
(* reference in CREATED to each event of the user and, in RESERVED, a      *)
(* second file for each reservation.                                       *)
(*                                                                         *)
(* Time is counted in seconds of the server's local clock; an event's date *)
(* has minutes only.                                                       *)
(***************************************************************************)
EXTENDS Protocol, FiniteSets

CONSTANTS
    MaxEid,      \* MAX_EVENTS, the largest event number (999)
    MaxQuery,    \* MAX_RESERVATIONS_QUERY (50)
    Instants,    \* the values the clock takes, in seconds
    DstShift     \* seconds mktime adds to a date it reads with tm_isdst = 0:
                 \* 0, or 3600 for a date in daylight saving time

ASSUME BoundsAssumption == MaxEid \in Nat \ {0} /\ MaxQuery \in Nat \ {0}
ASSUME ClockAssumption == Instants \subseteq Nat /\ DstShift \in Nat
ASSUME NotAnEventAssumption ==
    NoFile \notin [uid : Users, fname : {"file", "path"}, seats : Nat, date : Nat]

VARIABLES
    now,         \* time(NULL)
    start,       \* START_eid.txt of each event number, or NoFile
    res,         \* RES_eid.txt, 0 when there is no file
    ended,       \* the events with a file END_eid.txt
    created,     \* for each user, the event numbers in USERS/uid/CREATED
    eventRes,    \* the files of all EVENTS/eid/RESERVATIONS
    userRes      \* the files of all USERS/uid/RESERVED

eventFiles == <<start, res, ended, created, eventRes, userRes>>

EIDs == 1..MaxEid

\* The attendances CRE accepts, and the numbers of seats RID accepts.
Attendances == 10..999
Bookings == 1..999

\* Fname, of which CRE tests nothing: "file" is a name that can be opened in
\* DESCRIPTION, "path" one that cannot, because it leads through a directory that is
\* not there or is a directory itself.
FileNames == {"file", "path"}
CanOpen(fname) == fname = "file"

EventFile == [uid : Users, fname : FileNames, seats : Attendances, date : Nat]

EventsInit ==
    /\ now \in Instants
    /\ start = [e \in EIDs |-> NoFile]
    /\ res = [e \in EIDs |-> 0]
    /\ ended = {}
    /\ created = [u \in Users |-> {}]
    /\ eventRes = {}
    /\ userRes = {}

-----------------------------------------------------------------------------
(* Time and state *)

Existing == {e \in EIDs : start[e] # NoFile}

\* date_to_timestamp: the first second of the event's minute.
EventTimestamp(date) == 60 * date + DstShift

\* Slip: the minute after the event still counts as not past.
IsDateBeforeNow_late(date) == date + 1 < now \div 60

\* is_date_before_now compares minutes, so the event's own minute is not past.
IsDateBeforeNow(date) == date < now \div 60

\* Slip: one seat too many is counted as free.
AvailableSeats_oneMore(e) == start[e].seats - res[e] + 1

AvailableSeats(e) == start[e].seats - res[e]

\* Slip: the state forgets to look at the date.
EventState_ignoresDate(closed, e) ==
    IF e \in closed THEN 3 ELSE IF AvailableSeats(e) <= 0 THEN 2 ELSE 1

\* get_event_state of an event with a START file: 3 closed, 0 past (by the
\* second), 2 sold out, 1 active.  "closed" is the set of events with END.
EventState(closed, e) ==
    IF e \in closed THEN 3
    ELSE IF EventTimestamp(start[e].date) < now THEN 0
    ELSE IF AvailableSeats(e) <= 0 THEN 2
    ELSE 1

\* Slip: the END files that are there already are not kept.
AutoClosed_reopens(es) ==
    {e \in es \cap Existing : IsDateBeforeNow(start[e].date)}

\* The END files after auto_close_if_past has run on each event of es.
AutoClosed(es) ==
    ended \cup {e \in es \cap Existing : IsDateBeforeNow(start[e].date)}

-----------------------------------------------------------------------------
(* Operations *)

\* Slip: the largest number in use is handed out again.
IsNextEid_reuses(e) ==
    /\ \A x \in Existing : x <= e
    /\ e = 1 \/ e \in Existing

\* get_next_eid: one more than the largest number in use; none is free once
\* MaxEid is in use.
IsNextEid(e) ==
    /\ \A x \in Existing : x < e
    /\ e = 1 \/ e - 1 \in Existing

\* Slip: the reference in CREATED is written before the description.
CreateEvent_referenceFirst(e, u, seats, date, fname) ==
    /\ start' = [start EXCEPT ![e] =
            [uid |-> u, fname |-> fname, seats |-> seats, date |-> date]]
    /\ res' = [res EXCEPT ![e] = 0]
    /\ created' = [created EXCEPT ![u] = @ \cup {e}]
    /\ UNCHANGED <<ended, eventRes, userRes>>

\* create_event stops after START and RES when it cannot open the description: the
\* event is there, without a description and without a reference in CREATED.
CreateEvent(e, u, seats, date, fname) ==
    /\ start' = [start EXCEPT ![e] =
            [uid |-> u, fname |-> fname, seats |-> seats, date |-> date]]
    /\ res' = [res EXCEPT ![e] = 0]
    /\ created' = IF CanOpen(fname) THEN [created EXCEPT ![u] = @ \cup {e}] ELSE created
    /\ UNCHANGED <<ended, eventRes, userRes>>

\* get_event succeeds: the file that START names can be read.
HasDescription(e) == e \in Existing /\ CanOpen(start[e].fname)

\* is_event_owner fails when get_event does.
IsEventOwner(u, e) == HasDescription(e) /\ start[e].uid = u

\* Slip: the owner is not compared.
CloseStatus_anyOwner(u, e) ==
    IF e \notin Existing THEN "NOE"
    ELSE CASE EventState(ended, e) = 3 -> "CLO"
           [] EventState(ended, e) = 0 -> "PST"
           [] EventState(ended, e) = 2 -> "SLD"
           [] OTHER                    -> "OK"

\* close_event's answer when it does not write END, "OK" when it does.
CloseStatus(u, e) ==
    IF e \notin Existing THEN "NOE"
    ELSE IF ~IsEventOwner(u, e) THEN "EOW"
    ELSE CASE EventState(ended, e) = 3 -> "CLO"
           [] EventState(ended, e) = 0 -> "PST"
           [] EventState(ended, e) = 2 -> "SLD"
           [] OTHER                    -> "OK"

Reservation == [eid : EIDs, uid : Users, at : Instants, seats : Bookings]

\* Both names of a reservation's files are made of uid, eid and the second it
\* was made in: fopen(..., "w") replaces an earlier file with the same name.
WriteReservation(files, r) ==
    {f \in files : <<f.eid, f.uid, f.at>> # <<r.eid, r.uid, r.at>>} \cup {r}

\* Slip: RES is set to the seats of this reservation instead of the sum.
CreateReservation_overwritesCounter(e, u, people) ==
    LET r == [eid |-> e, uid |-> u, at |-> now, seats |-> people] IN
    /\ eventRes' = WriteReservation(eventRes, r)
    /\ userRes' = WriteReservation(userRes, r)
    /\ res' = [res EXCEPT ![e] = people]
    /\ UNCHANGED <<start, created>>

\* create_reservation: the event's file, the user's file, then RES.
CreateReservation(e, u, people) ==
    LET r == [eid |-> e, uid |-> u, at |-> now, seats |-> people] IN
    /\ eventRes' = WriteReservation(eventRes, r)
    /\ userRes' = WriteReservation(userRes, r)
    /\ res' = [res EXCEPT ![e] = @ + people]
    /\ UNCHANGED <<start, created>>

\* alphasort on "R-eid-date_time": by event, then by the time of the booking.
Before(f, g) == f.eid < g.eid \/ (f.eid = g.eid /\ f.at < g.at)

FilesOf(u) == {f \in userRes : f.uid = u}

\* Slip: one file is read past the end of the array.
QueriedReservations_oneMore(u) ==
    {f \in FilesOf(u) : Cardinality({g \in FilesOf(u) : Before(g, f)}) <= MaxQuery}

\* handle_my_reservations reads at most MaxQuery files, in the order of the names.
QueriedReservations(u) ==
    {f \in FilesOf(u) : Cardinality({g \in FilesOf(u) : Before(g, f)}) < MaxQuery}

-----------------------------------------------------------------------------
\* The event files hold what the code writes into them.
EventsTypeOK ==
    /\ now \in Instants
    /\ start \in [EIDs -> EventFile \cup {NoFile}]
    /\ res \in [EIDs -> Nat]
    /\ ended \subseteq EIDs
    /\ created \in [Users -> SUBSET EIDs]
    /\ eventRes \subseteq Reservation
    /\ userRes \subseteq Reservation
=============================================================================
