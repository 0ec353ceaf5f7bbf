------------------------------- MODULE ESDisk -------------------------------
(***************************************************************************)
(* The handlers that write, one file operation at a time, on a disk that   *)
(* may fail and in a process that may stop (file_system.c,                 *)
(* event_database.c, user_database.c).                                     *)
(*                                                                         *)
(* A handler is a job that goes from step to step; no two run at once.     *)
(* mkdir and fopen(..., "w") can be refused.  fopen empties the file and   *)
(* fclose, whose result nobody looks at, fills it: when that fails the     *)
(* file stays empty (Torn) and the handler goes on.  The process can stop  *)
(* between any two steps, and is started again on what the disk holds:     *)
(* nothing is repaired.  Reading a file, stat, unlink and rmdir succeed.   *)
(*                                                                         *)
(* Requests that touch no file are left out, and of time only the second   *)
(* remains that names the files of a booking: every event is in the        *)
(* future.  ESServer has both, on a disk without faults.                   *)
(***************************************************************************)
EXTENDS Integers, FiniteSets

CONSTANTS
    Users,          \* the UIDs
    NoUser,         \* no UID
    NoFile,         \* in place of the contents of a file that does not exist
    Passwords,
    MaxEid,         \* MAX_EVENTS, the largest event number (999)
    SeatInputs,     \* the attendances CRE is asked for
    FileInputs,     \* the kinds of Fname CRE is asked for
    PeopleInputs,   \* the numbers of seats RID is asked for
    Instants,       \* the seconds, in local time, that bookings are made in
    Regulars,       \* users who are registered and logged in from the start and
                    \* send CRE, RID and CLS only
    FirstPassword,  \* what the Regulars log in with
    Torn,           \* the contents of a file that was emptied and not filled
    MaxFaults       \* bound: how often the disk fails or the process stops

\* Fname, of which CRE tests nothing: a name that can be opened in DESCRIPTION, and
\* one that cannot because it leads through a directory that is not there.
FileNames == {"file", "path"}
CanOpen(fname) == fname = "file"

ASSUME DiskAssumption ==
    /\ MaxEid \in Nat \ {0} /\ MaxFaults \in Nat
    /\ SeatInputs \subseteq Nat \ {0} /\ PeopleInputs \subseteq Nat \ {0}
    /\ FileInputs \subseteq FileNames /\ Instants \subseteq Nat
    /\ Regulars \subseteq Users /\ FirstPassword \in Passwords
    /\ NoFile # Torn /\ {NoFile, Torn} \cap (Passwords \cup Nat) = {}
    /\ NoUser \notin Users
    /\ {NoFile, Torn} \cap [uid : Users, fname : FileInputs, seats : SeatInputs] = {}

\* handle_create_event lets these attendances through.
ASSUME AttendanceAssumption == SeatInputs \subseteq 10..999

EIDs == 1..MaxEid
EventFile == [uid : Users, fname : FileInputs, seats : SeatInputs]

\* Both files of a booking are named after its event, its user and its second, so
\* two bookings can have the same name.
Bookings == EIDs \X Users \X Instants

VARIABLES
    userDir, createdDir, reservedDir,   \* the users with USERS/uid, .../CREATED, .../RESERVED
    password,       \* uid_pass.txt of each user, or NoFile, or Torn
    loggedIn,       \* the users with uid_login.txt
    eventDir,       \* the events with EVENTS/eid
    start, res,     \* START and RES of each event, or NoFile, or Torn
    described,      \* the events with a description that is not empty
    ended,          \* the events with END
    created,        \* for each user the event numbers in USERS/uid/CREATED
    eventRes,       \* the seats in each file of the events' RESERVATIONS, or NoFile, or Torn
    userRes,        \* the seats in each file of the users' RESERVED, or NoFile, or Torn
    job,            \* the handler that runs, and its next step
    faults,         \* how many faults there have been
    told,           \* the password each user was last told is theirs, or NoFile
    doubt,          \* the users whose password file may not be what they were told
    owner,          \* the user who was told RCE OK of each event, or NoUser
    sold,           \* for each event the seats of the bookings that were told ACC
    sales,          \* the seats of the last booking of each name that was told ACC, or NoFile
    shared,         \* the names that a later booking has written again
    leaked,         \* the seats counted in RES for bookings cut off before the answer
    marred          \* the events with a Torn file or a CRE that was cut off

userFiles == <<userDir, createdDir, reservedDir, password, loggedIn>>
eventFiles == <<eventDir, start, res, described, ended, created, eventRes, userRes>>
ghosts == <<told, doubt, owner, sold, sales, shared, leaked, marred>>
vars == <<userFiles, eventFiles, job, faults, ghosts>>

Job(step, rsp, u, p, e, fname, n, t, status) ==
    [do |-> step, rsp |-> rsp, uid |-> u, pass |-> p, eid |-> e, fname |-> fname,
     seats |-> n, at |-> t, status |-> status]

NoJob == Job("none", "none", NoUser, NoFile, 0, "none", 0, 0, "none")

Init ==
    /\ userDir = Regulars /\ createdDir = Regulars /\ reservedDir = Regulars
    /\ password = [u \in Users |-> IF u \in Regulars THEN FirstPassword ELSE NoFile]
    /\ loggedIn = Regulars
    /\ eventDir = {} /\ described = {} /\ ended = {}
    /\ start = [e \in EIDs |-> NoFile]
    /\ res = [e \in EIDs |-> NoFile]
    /\ created = [u \in Users |-> {}]
    /\ eventRes = [b \in Bookings |-> NoFile] /\ userRes = [b \in Bookings |-> NoFile]
    /\ job = NoJob
    /\ faults = 0
    /\ told = password
    /\ doubt = {}
    /\ owner = [e \in EIDs |-> NoUser]
    /\ sold = [e \in EIDs |-> 0] /\ leaked = [e \in EIDs |-> 0]
    /\ sales = [b \in Bookings |-> NoFile] /\ shared = {}
    /\ marred = {}

-----------------------------------------------------------------------------
(* What the handlers read *)

\* read_password_file finds no word in an empty file, so it is like a missing one.
AuthenticateUser(u, p) ==
    IF password[u] \in {NoFile, Torn} THEN 0 ELSE IF password[u] = p THEN 1 ELSE -1

\* The users AuthenticateUser finds a password of.
Members == {u \in Users : password[u] \notin {NoFile, Torn}}

Readable(e) == start[e] \notin {NoFile, Torn}

\* Slip: what fscanf leaves in reserved_seats is used even when it read nothing.
SeatsKnown_always(e) == Readable(e)

\* get_event_seats succeeds.
SeatsKnown(e) == Readable(e) /\ res[e] # Torn

\* What RES says; create_reservation takes 0 for a file it cannot read.
Reserved(e) == IF res[e] \in {NoFile, Torn} THEN 0 ELSE res[e]

\* get_event_state for an event in the future.
EventState(e) ==
    IF e \in ended THEN 3
    ELSE IF ~SeatsKnown(e) THEN -1
    ELSE IF Reserved(e) >= start[e].seats THEN 2
    ELSE 1

\* is_event_owner calls get_event, which fails on an event without a description.
IsEventOwner(u, e) == Readable(e) /\ e \in described /\ start[e].uid = u

\* get_next_eid looks at the directories only.
IsNextEid(e) == e \in EIDs /\ (\A d \in eventDir : d < e) /\ (e = 1 \/ e - 1 \in eventDir)

-----------------------------------------------------------------------------
(* A request arrives *)

BeginJob(j) ==
    /\ job = NoJob
    /\ job' = j
    /\ UNCHANGED <<userFiles, eventFiles, faults, ghosts>>

Begin(step, rsp, u, p, e, status) == BeginJob(Job(step, rsp, u, p, e, "none", 0, 0, status))

BeginLogin(u, p) ==
    \/ AuthenticateUser(u, p) = 1 /\ Begin("login", "RLI", u, p, 0, "OK")
    \/ /\ AuthenticateUser(u, p) = 0
       /\ Begin(IF u \in userDir THEN "password" ELSE "userDir", "RLI", u, p, 0, "REG")

BeginLogout(u, p) ==
    /\ AuthenticateUser(u, p) = 1 /\ u \in loggedIn
    /\ Begin("eraseLogin", "RLO", u, p, 0, "OK")

\* Slip: the password goes before the login file.
BeginUnregister_passwordFirst(u, p) ==
    /\ AuthenticateUser(u, p) = 1 /\ u \in loggedIn
    /\ Begin("erasePassword", "RUR", u, p, 0, "OK")

BeginUnregister(u, p) ==
    /\ AuthenticateUser(u, p) = 1 /\ u \in loggedIn
    /\ Begin("eraseLogin", "RUR", u, p, 0, "OK")

BeginChangePassword(u, old, new) ==
    /\ AuthenticateUser(u, old) = 1 /\ u \in loggedIn
    /\ Begin("password", "RCP", u, new, 0, "OK")

BeginCreate(u, p, fname, n) ==
    /\ AuthenticateUser(u, p) = 1
    /\ \E e \in EIDs :
          IsNextEid(e) /\ BeginJob(Job("eventDir", "RCE", u, p, e, fname, n, 0, "OK"))

BeginReserve(u, p, e, n, t) ==
    /\ AuthenticateUser(u, p) = 1 /\ u \in loggedIn
    /\ e \in eventDir
    /\ EventState(e) = 1
    /\ n <= start[e].seats - Reserved(e)
    /\ BeginJob(Job("eventReservation", "RRI", u, p, e, "none", n, t, "ACC"))

\* A state of -1 is not among those close_event stops at.
BeginClose(u, p, e) ==
    /\ AuthenticateUser(u, p) # 0 /\ u \in loggedIn
    /\ IsEventOwner(u, e)
    /\ EventState(e) \notin {2, 3}
    /\ Begin("end", "RCL", u, p, e, "OK")

-----------------------------------------------------------------------------
(* The steps *)

\* The disk does what it is told, or, as long as faults are left, does not.
Outcomes == {"done"} \cup IF faults < MaxFaults THEN {"refused", "torn"} ELSE {}

At(step) == job.do = step
Goto(step) == job' = [job EXCEPT !.do = step]
Conclude(status) == job' = [job EXCEPT !.do = "answer", !.status = status]

\* The job goes on with "next", or answers "failure" when the step was refused.
Proceed(o, next, failure) ==
    \/ o = "refused" /\ Conclude(failure)
    \/ o # "refused" /\ Goto(next)

\* A file after fopen(..., "w"), fprintf and fclose.
Written(o, before, contents) ==
    CASE o = "refused" -> before [] o = "torn" -> Torn [] o = "done" -> contents

MarredBy(o) == marred' = IF o = "torn" THEN marred \cup {job.eid} ELSE marred

\* create_user_directory: what has been made stays when the next mkdir fails.
MakeUserDir(o) ==
    /\ At("userDir") /\ o # "torn"
    /\ userDir' = IF o = "done" THEN userDir \cup {job.uid} ELSE userDir
    /\ Proceed(o, "createdDir", "ERR")
    /\ UNCHANGED <<createdDir, reservedDir, password, loggedIn, eventFiles, ghosts>>

MakeCreatedDir(o) ==
    /\ At("createdDir") /\ o # "torn"
    /\ createdDir' = IF o = "done" THEN createdDir \cup {job.uid} ELSE createdDir
    /\ Proceed(o, "reservedDir", "ERR")
    /\ UNCHANGED <<userDir, reservedDir, password, loggedIn, eventFiles, ghosts>>

MakeReservedDir(o) ==
    /\ At("reservedDir") /\ o # "torn"
    /\ reservedDir' = IF o = "done" THEN reservedDir \cup {job.uid} ELSE reservedDir
    /\ Proceed(o, "password", "ERR")
    /\ UNCHANGED <<userDir, createdDir, password, loggedIn, eventFiles, ghosts>>

\* Slip: the result of write_password_file is not looked at.
WritePassword_unchecked(o) ==
    /\ At("password")
    /\ password' = [password EXCEPT ![job.uid] = Written(o, @, job.pass)]
    /\ doubt' = CASE o = "done" -> doubt \ {job.uid}
                  [] o = "torn" -> doubt \cup {job.uid}
                  [] o = "refused" -> doubt
    /\ Goto(IF job.rsp = "RLI" THEN "login" ELSE "answer")
    /\ UNCHANGED <<userDir, createdDir, reservedDir, loggedIn, eventFiles,
                   told, owner, sold, sales, shared, leaked, marred>>

WritePassword(o) ==
    /\ At("password")
    /\ password' = [password EXCEPT ![job.uid] = Written(o, @, job.pass)]
    /\ doubt' = CASE o = "done" -> doubt \ {job.uid}
                  [] o = "torn" -> doubt \cup {job.uid}
                  [] o = "refused" -> doubt
    /\ IF job.rsp = "RLI" THEN Proceed(o, "login", "ERR") ELSE Proceed(o, "answer", "NOK")
    /\ UNCHANGED <<userDir, createdDir, reservedDir, loggedIn, eventFiles,
                   told, owner, sold, sales, shared, leaked, marred>>

\* create_login_file: nobody reads what is in it, nor looks at the result.
WriteLogin(o) ==
    /\ At("login")
    /\ loggedIn' = IF o = "refused" THEN loggedIn ELSE loggedIn \cup {job.uid}
    /\ Goto("answer")
    /\ UNCHANGED <<userDir, createdDir, reservedDir, password, eventFiles, ghosts>>

EraseLogin(o) ==
    /\ At("eraseLogin") /\ o = "done"
    /\ loggedIn' = loggedIn \ {job.uid}
    /\ Goto(IF job.rsp = "RUR" THEN "erasePassword" ELSE "answer")
    /\ UNCHANGED <<userDir, createdDir, reservedDir, password, eventFiles, ghosts>>

\* unregister_user erases the login file once more after this.
ErasePassword(o) ==
    /\ At("erasePassword") /\ o = "done"
    /\ password' = [password EXCEPT ![job.uid] = NoFile]
    /\ doubt' = doubt \ {job.uid}
    /\ Goto("answer")
    /\ UNCHANGED <<userDir, createdDir, reservedDir, loggedIn, eventFiles,
                   told, owner, sold, sales, shared, leaked, marred>>

\* Slip: the reference in CREATED is written before the directory is made.
MakeEventDir_referenceFirst(o) ==
    /\ At("eventDir") /\ o # "torn"
    /\ created' = [created EXCEPT ![job.uid] = @ \cup {job.eid}]
    /\ eventDir' = IF o = "done" THEN eventDir \cup {job.eid} ELSE eventDir
    /\ Proceed(o, "reservationsDir", "NOK")
    /\ UNCHANGED <<userFiles, start, res, described, ended, eventRes, userRes, ghosts>>

MakeEventDir(o) ==
    /\ At("eventDir") /\ o # "torn"
    /\ eventDir' = IF o = "done" THEN eventDir \cup {job.eid} ELSE eventDir
    /\ Proceed(o, "reservationsDir", "NOK")
    /\ UNCHANGED <<userFiles, start, res, described, ended, created, eventRes, userRes, ghosts>>

\* EVENTS/eid is removed again, so the number is free for the next CRE.
MakeReservationsDir(o) ==
    /\ At("reservationsDir") /\ o # "torn"
    /\ eventDir' = IF o = "done" THEN eventDir ELSE eventDir \ {job.eid}
    /\ Proceed(o, "descriptionDir", "NOK")
    /\ UNCHANGED <<userFiles, start, res, described, ended, created, eventRes, userRes, ghosts>>

\* rmdir of EVENTS/eid comes before that of RESERVATIONS in it, and fails: the
\* number is used up.
MakeDescriptionDir(o) ==
    /\ At("descriptionDir") /\ o # "torn"
    /\ Proceed(o, "start", "NOK")
    /\ UNCHANGED <<userFiles, eventFiles, ghosts>>

WriteStart(o) ==
    /\ At("start")
    /\ start' = [start EXCEPT ![job.eid] =
            Written(o, @, [uid |-> job.uid, fname |-> job.fname, seats |-> job.seats])]
    /\ MarredBy(o)
    /\ Proceed(o, "res", "NOK")
    /\ UNCHANGED <<userFiles, eventDir, res, described, ended, created, eventRes, userRes,
                   told, doubt, owner, sold, sales, shared, leaked>>

\* Slip: the event is answered for although RES could not be made.
WriteRes_unchecked(o) ==
    /\ At("res")
    /\ res' = [res EXCEPT ![job.eid] = Written(o, @, 0)]
    /\ MarredBy(o)
    /\ Goto("description")
    /\ UNCHANGED <<userFiles, eventDir, start, described, ended, created, eventRes, userRes,
                   told, doubt, owner, sold, sales, shared, leaked>>

\* Slip: the number of an event whose RES could not be made is given up, START and all.
WriteRes_freesNumber(o) ==
    /\ At("res")
    /\ res' = [res EXCEPT ![job.eid] = Written(o, @, 0)]
    /\ eventDir' = IF o = "refused" THEN eventDir \ {job.eid} ELSE eventDir
    /\ MarredBy(o)
    /\ Proceed(o, "description", "NOK")
    /\ UNCHANGED <<userFiles, start, described, ended, created, eventRes, userRes,
                   told, doubt, owner, sold, sales, shared, leaked>>

WriteRes(o) ==
    /\ At("res")
    /\ res' = [res EXCEPT ![job.eid] = Written(o, @, 0)]
    /\ MarredBy(o)
    /\ Proceed(o, "description", "NOK")
    /\ UNCHANGED <<userFiles, eventDir, start, described, ended, created, eventRes, userRes,
                   told, doubt, owner, sold, sales, shared, leaked>>

\* The event is on sale already when this is refused, by the disk or because there
\* is no opening a file of that name.
WriteDescription(o) ==
    /\ At("description")
    /\ IF CanOpen(job.fname)
       THEN /\ described' = IF o = "done" THEN described \cup {job.eid} ELSE described
            /\ Proceed(o, "createdReference", "NOK")
       ELSE /\ o = "done"
            /\ Conclude("NOK")
            /\ UNCHANGED described
    /\ MarredBy(o)
    /\ UNCHANGED <<userFiles, eventDir, start, res, ended, created, eventRes, userRes,
                   told, doubt, owner, sold, sales, shared, leaked>>

\* Nobody looks at whether this succeeds.
WriteCreatedReference(o) ==
    /\ At("createdReference")
    /\ created' = [created EXCEPT ![job.uid] =
            IF o = "refused" \/ job.uid \notin createdDir THEN @ ELSE @ \cup {job.eid}]
    /\ Goto("answer")
    /\ UNCHANGED <<userFiles, eventDir, start, res, described, ended, eventRes, userRes, ghosts>>

\* The name of both files of the booking the job is about.
Booking == <<job.eid, job.uid, job.at>>

\* A file that is there already is written over.
SharedBy(o) ==
    shared' = IF o # "refused" /\ eventRes[Booking] # NoFile THEN shared \cup {Booking} ELSE shared

\* Slip: the event's file is treated like the user's, as if it could be missed.
WriteEventReservation_unchecked(o) ==
    /\ At("eventReservation")
    /\ eventRes' = [eventRes EXCEPT ![Booking] = Written(o, @, job.seats)]
    /\ SharedBy(o)
    /\ MarredBy(o)
    /\ Goto("userReservation")
    /\ UNCHANGED <<userFiles, eventDir, start, res, described, ended, created, userRes,
                   told, doubt, owner, sold, sales, leaked>>

WriteEventReservation(o) ==
    /\ At("eventReservation")
    /\ eventRes' = [eventRes EXCEPT ![Booking] = Written(o, @, job.seats)]
    /\ SharedBy(o)
    /\ MarredBy(o)
    /\ Proceed(o, "userReservation", "ERR")
    /\ UNCHANGED <<userFiles, eventDir, start, res, described, ended, created, userRes,
                   told, doubt, owner, sold, sales, leaked>>

\* Nobody looks at whether this succeeds.
WriteUserReservation(o) ==
    /\ At("userReservation")
    /\ userRes' = IF job.uid \in reservedDir
                  THEN [userRes EXCEPT ![Booking] = Written(o, @, job.seats)]
                  ELSE userRes
    /\ Goto("counter")
    /\ UNCHANGED <<userFiles, eventDir, start, res, described, ended, created, eventRes, ghosts>>

\* Slip: the booking is accepted although RES could not be opened.
WriteCounter_unchecked(o) ==
    /\ At("counter")
    /\ res' = [res EXCEPT ![job.eid] = Written(o, @, Reserved(job.eid) + job.seats)]
    /\ MarredBy(o)
    /\ Goto("answer")
    /\ UNCHANGED <<userFiles, eventDir, start, described, ended, created, eventRes, userRes,
                   told, doubt, owner, sold, sales, shared, leaked>>

\* Slip: the seats are taken from the number in RES.
WriteCounter_subtracts(o) ==
    /\ At("counter")
    /\ res' = [res EXCEPT ![job.eid] = Written(o, @, Reserved(job.eid) - job.seats)]
    /\ MarredBy(o)
    /\ Proceed(o, "answer", "ERR")
    /\ UNCHANGED <<userFiles, eventDir, start, described, ended, created, eventRes, userRes,
                   told, doubt, owner, sold, sales, shared, leaked>>

WriteCounter(o) ==
    /\ At("counter")
    /\ res' = [res EXCEPT ![job.eid] = Written(o, @, Reserved(job.eid) + job.seats)]
    /\ MarredBy(o)
    /\ Proceed(o, "answer", "ERR")
    /\ UNCHANGED <<userFiles, eventDir, start, described, ended, created, eventRes, userRes,
                   told, doubt, owner, sold, sales, shared, leaked>>

WriteEnd(o) ==
    /\ At("end")
    /\ ended' = IF o = "refused" THEN ended ELSE ended \cup {job.eid}
    /\ Proceed(o, "answer", "NOE")
    /\ UNCHANGED <<userFiles, eventDir, start, res, described, created, eventRes, userRes, ghosts>>

FileOperation(o) ==
    \/ MakeUserDir(o) \/ MakeCreatedDir(o) \/ MakeReservedDir(o)
    \/ WritePassword(o) \/ WriteLogin(o) \/ EraseLogin(o) \/ ErasePassword(o)
    \/ MakeEventDir(o) \/ MakeReservationsDir(o) \/ MakeDescriptionDir(o)
    \/ WriteStart(o) \/ WriteRes(o) \/ WriteDescription(o) \/ WriteCreatedReference(o)
    \/ WriteEventReservation(o) \/ WriteUserReservation(o) \/ WriteCounter(o)
    \/ WriteEnd(o)

Step ==
    \E o \in Outcomes :
        /\ FileOperation(o)
        /\ faults' = faults + (IF o = "done" THEN 0 ELSE 1)

-----------------------------------------------------------------------------
(* The end of a handler *)

Answered(rsp, status) == job.rsp = rsp /\ job.status = status

SendAnswer ==
    /\ At("answer")
    /\ told' = [told EXCEPT ![job.uid] =
            IF Answered("RLI", "REG") \/ Answered("RCP", "OK") THEN job.pass
            ELSE IF Answered("RUR", "OK") THEN NoFile ELSE @]
    /\ owner' = IF Answered("RCE", "OK") THEN [owner EXCEPT ![job.eid] = job.uid] ELSE owner
    /\ sold' = IF Answered("RRI", "ACC") THEN [sold EXCEPT ![job.eid] = @ + job.seats] ELSE sold
    /\ sales' = IF Answered("RRI", "ACC") THEN [sales EXCEPT ![Booking] = job.seats] ELSE sales
    /\ job' = NoJob
    /\ UNCHANGED <<userFiles, eventFiles, faults, doubt, shared, leaked, marred>>

\* The process stops in the middle of a handler and is started again:
\* init_file_system finds USERS and EVENTS there and leaves them as they are.
Stop ==
    /\ job # NoJob
    /\ faults < MaxFaults
    /\ faults' = faults + 1
    /\ doubt' = IF job.rsp \in {"RLI", "RCP", "RUR"} THEN doubt \cup {job.uid} ELSE doubt
    /\ leaked' = IF At("answer") /\ Answered("RRI", "ACC")
                 THEN [leaked EXCEPT ![job.eid] = @ + job.seats] ELSE leaked
    /\ marred' = IF job.rsp = "RCE" THEN marred \cup {job.eid} ELSE marred
    /\ job' = NoJob
    /\ UNCHANGED <<userFiles, eventFiles, told, owner, sold, sales, shared>>

Next ==
    \/ \E u \in Users \ Regulars, p \in Passwords :
          \/ BeginLogin(u, p)
          \/ BeginLogout(u, p)
          \/ BeginUnregister(u, p)
          \/ \E new \in Passwords : BeginChangePassword(u, p, new)
    \/ \E u \in Users, p \in Passwords :
          \/ \E fname \in FileInputs, n \in SeatInputs : BeginCreate(u, p, fname, n)
          \/ \E e \in EIDs, n \in PeopleInputs, t \in Instants : BeginReserve(u, p, e, n, t)
          \/ \E e \in EIDs : BeginClose(u, p, e)
    \/ Step
    \/ SendAnswer
    \/ Stop

Spec == Init /\ [][Next]_vars

-----------------------------------------------------------------------------
(* Properties *)

\* Every file is missing, empty, or what the code writes into it.
TypeOK ==
    /\ userDir \subseteq Users /\ createdDir \subseteq Users /\ reservedDir \subseteq Users
    /\ password \in [Users -> Passwords \cup {NoFile, Torn}]
    /\ loggedIn \subseteq Users
    /\ eventDir \subseteq EIDs /\ described \subseteq EIDs /\ ended \subseteq EIDs
    /\ start \in [EIDs -> EventFile \cup {NoFile, Torn}]
    /\ res \in [EIDs -> Nat \cup {NoFile, Torn}]
    /\ created \in [Users -> SUBSET EIDs]
    /\ eventRes \in [Bookings -> PeopleInputs \cup {NoFile, Torn}]
    /\ userRes \in [Bookings -> PeopleInputs \cup {NoFile, Torn}]
    /\ faults \in 0..MaxFaults

\* No fault, and no stop at any point, makes the server tell more people ACC than
\* the event has seats: an empty RES stops the sale instead of starting it anew.
NeverOversold ==
    \A e \in EIDs : sold[e] > 0 => Readable(e) /\ sold[e] <= start[e].seats

\* RES, when it can be read, counts the seats told ACC and those of bookings cut
\* off between RES and the answer: a booking that is refused half-way takes none.
CounterExact ==
    job = NoJob =>
        \A e \in EIDs : res[e] \notin {NoFile, Torn} => res[e] = sold[e] + leaked[e]

\* Nobody is told ACC without a file in the event's RESERVATIONS, and the users'
\* files, which LMR shows, are as the event's: with the seats of the booking, or, when
\* another booking of the same user was made in the same second, of one of the two.
FilesCoverSales ==
    \A b \in Bookings : b[1] \notin marred =>
        /\ sales[b] # NoFile => eventRes[b] # NoFile
        /\ userRes[b] # NoFile => eventRes[b] # NoFile
        /\ b \notin shared => /\ sales[b] \in {eventRes[b], NoFile}
                            /\ userRes[b] \in {eventRes[b], NoFile, Torn}

\* An event whose owner was told RCE OK is there with START, RES and description,
\* under that owner's name, for good, unless one of these files is empty; so its
\* number is not given away again and the owner can close it.
TellsOwnEvents ==
    \A e \in EIDs \ marred :
        owner[e] # NoUser => IsEventOwner(owner[e], e) /\ res[e] # NoFile

\* An event that was refused with NOK and is on sale all the same, because its
\* description could not be opened, is in nobody's CREATED, and nobody can close it.
RefusedEventsUnowned ==
    job = NoJob =>
        \A e \in EIDs \ marred : owner[e] = NoUser =>
            \A u \in Users : e \notin created[u] /\ ~IsEventOwner(u, e)

\* LME never reports an event of somebody else: a reference in CREATED is to an
\* event whose START holds that UID, or is empty.
CreatedRefsTrue ==
    \A u \in Users : \A e \in created[u] : Readable(e) => start[e].uid = u

\* A login file has a password file beside it, at every moment of every handler:
\* LIN makes the password first, UNR erases it last.
SessionsHaveAccounts == \A u \in loggedIn : password[u] # NoFile

\* Whoever was told that a password is theirs, or that they are unregistered, finds
\* it so, unless writing the file failed or a request about the account was cut off.
ToldPasswordKept ==
    job = NoJob => \A u \in Users \ doubt : password[u] = told[u]

\* START names a description that cannot be opened.
Misnamed(e) == Readable(e) /\ ~CanOpen(start[e].fname)

\* The event's bookings that were told ACC have their files.
OnFile(e) ==
    \A b \in Bookings : b[1] = e /\ sales[b] # NoFile =>
        eventRes[b] # NoFile /\ (b \in shared \/ eventRes[b] = sales[b])

\* The event has an owner who can close it, or its Fname never let it have one, RES is
\* what was sold, and what was sold is in the reservation files.
Whole(e) ==
    /\ IsEventOwner(owner[e], e) \/ Misnamed(e)
    /\ res[e] = sold[e]
    /\ OnFile(e)

\* A fault or a stop spoils one account or one event and no more: damage does not
\* spread from a file to what is written later, nor from an event to the next number.
\* Without a fault an event is whole, but for the Fname that cannot be opened and the
\* bookings of one user in one second.
LossesWithinFaults ==
    job = NoJob =>
        Cardinality({u \in Users : password[u] # told[u]}) + Cardinality({e \in eventDir : ~Whole(e)})
            <= faults

\* The seats of a booking that is in RES, or would be if RES had not been torn, and
\* waits for its answer.
pending ==
    [e \in EIDs |-> IF At("answer") /\ Answered("RRI", "ACC") /\ job.eid = e THEN job.seats ELSE 0]

\* The office's view of the files and of what the users were told.
sessions == loggedIn \cap Members

ownerOf == [e \in EIDs |-> IF Readable(e) THEN start[e].uid ELSE NoUser]

freeOf ==
    [e \in EIDs |->
        IF Readable(e) THEN start[e].seats - sold[e] - leaked[e] - pending[e] ELSE 0]

onSaleOf == {e \in EIDs \ ended : Readable(e) /\ (res[e] # Torn \/ pending[e] > 0)}

\* Through every fault and stop the server is a ticket office whose sign-ins and
\* departures may be cut short, while every booking takes its seats once and from
\* seats that are free, by a member in session, an event keeps the owner and the size
\* of its START, and an event that goes off sale, by END or an empty RES, stays off.
Office == INSTANCE TicketOffice WITH
    Events   <- EIDs,
    NoOwner  <- NoUser,
    members  <- Members,
    signedIn <- sessions,
    owner    <- ownerOf,
    free     <- freeOf,
    onSale   <- onSaleOf

ImplementsCutShortOffice == Office!CutShortSpec
=============================================================================
