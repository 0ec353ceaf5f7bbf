---------------------------- MODULE ESDiskProofs ----------------------------
(***************************************************************************)
(* Proofs about ESDisk, for any numbers of users, events, seats and        *)
(* faults.  The inductive invariant says, for each step a handler can be   *)
(* at, what it has written so far: JobOK which steps belong to which       *)
(* request, AccountInv the password and login files, and for each event    *)
(* NewEvents what a CRE has made, Numbers the seats, Ledgers the           *)
(* reservation files and Papers the owner.  LossesInv counts what the      *)
(* faults have touched.  What a request found out when it was read is      *)
(* StillSo, and it is so until the request ends: with DiskInv, every file  *)
(* operation is a step of the ticket office or none.                       *)
(***************************************************************************)
EXTENDS ESDisk, FiniteSetTheorems, TLAPS

JobStatuses == {"none", "OK", "REG", "ACC", "NOK", "ERR", "NOE"}

JobOf(rsp, steps, eids, fnames, seats, instants) ==
    [do : steps \cup {"answer"}, rsp : {rsp}, uid : Users, pass : Passwords, eid : eids,
     fname : fnames, seats : seats, at : instants, status : JobStatuses]

LoginSteps == {"userDir", "createdDir", "reservedDir", "password", "login"}
CreateSteps == {"eventDir", "reservationsDir", "descriptionDir", "start", "res",
                "description", "createdReference"}
SaleSteps == {"eventReservation", "userReservation", "counter"}

LoginJob == JobOf("RLI", LoginSteps, {0}, {"none"}, {0}, {0})
LogoutJob == JobOf("RLO", {"eraseLogin"}, {0}, {"none"}, {0}, {0})
UnregisterJob == JobOf("RUR", {"eraseLogin", "erasePassword"}, {0}, {"none"}, {0}, {0})
PasswordJob == JobOf("RCP", {"password"}, {0}, {"none"}, {0}, {0})
CreateJob == JobOf("RCE", CreateSteps, EIDs, FileInputs, SeatInputs, {0})
SaleJob == JobOf("RRI", SaleSteps, EIDs, {"none"}, PeopleInputs, Instants)
CloseJob == JobOf("RCL", {"end"}, EIDs, {"none"}, {0}, {0})

AccountJob == LoginJob \cup LogoutJob \cup UnregisterJob \cup PasswordJob

JobOK == job \in {NoJob} \cup AccountJob \cup CreateJob \cup SaleJob \cup CloseJob

GhostsOK ==
    /\ told \in [Users -> Passwords \cup {NoFile}]
    /\ doubt \subseteq Users
    /\ owner \in [EIDs -> Users \cup {NoUser}]
    /\ sold \in [EIDs -> Nat] /\ leaked \in [EIDs -> Nat]
    /\ sales \in [Bookings -> PeopleInputs \cup {NoFile}]

Shapes == TypeOK /\ GhostsOK /\ JobOK

\* What the password file of u holds at this step, if every write has succeeded.
Expected(u) ==
    IF job.uid = u /\ (\/ Answered("RLI", "REG") /\ job.do \in {"login", "answer"}
                       \/ Answered("RCP", "OK") /\ At("answer"))
    THEN job.pass
    ELSE IF job.uid = u /\ Answered("RUR", "OK") /\ At("answer") THEN NoFile
    ELSE told[u]

AccountInv ==
    /\ SessionsHaveAccounts
    /\ At("login") => password[job.uid] # NoFile
    /\ At("erasePassword") => job.uid \notin loggedIn
    /\ job.rsp = "RLI" /\ job.do \in LoginSteps \ {"login"} => job.status = "REG"
    /\ job.rsp = "RCP" /\ At("password") => job.status = "OK"
    /\ job.rsp = "RUR" => job.status = "OK"
    /\ \A u \in Users \ doubt : password[u] = Expected(u)

\* Nothing but directories has been made for the event.
Untouched(e) ==
    /\ start[e] = NoFile /\ res[e] = NoFile
    /\ e \notin described /\ owner[e] = NoUser
    /\ \A u \in Users : e \notin created[u]

Titled(u, e) == Readable(e) /\ start[e].uid = u

\* The CRE that runs has written START.
Made ==
    /\ job.rsp = "RCE"
    /\ \/ job.do \in {"res", "description", "createdReference"}
       \/ At("answer") /\ job.status = "OK"

NewEvents ==
    /\ \A e \in EIDs \ eventDir : Untouched(e)
    /\ At("eventDir") => job.eid \notin eventDir
    /\ job.do \in {"reservationsDir", "descriptionDir", "start"} =>
          job.eid \in eventDir /\ Untouched(job.eid)
    /\ At("res") => res[job.eid] = NoFile
    /\ Made => start[job.eid] = Torn \/ Titled(job.uid, job.eid)
    /\ job.rsp = "RCE" /\ ~At("answer") => job.status = "OK"

\* Seats of this event are being booked, and the booking has not failed.
SaleOf(e) == job.rsp = "RRI" /\ job.eid = e /\ (At("answer") => job.status = "ACC")

Numbers(e) ==
    /\ res[e] = NoFile \/ ~Readable(e) => sold[e] = 0 /\ leaked[e] = 0
    /\ res[e] \notin {NoFile, Torn} =>
          res[e] = sold[e] + leaked[e] + (IF SaleOf(e) /\ At("answer") THEN job.seats ELSE 0)
    /\ Readable(e) =>
          sold[e] + leaked[e] + (IF SaleOf(e) THEN job.seats ELSE 0) <= start[e].seats
    /\ SaleOf(e) => /\ Readable(e) /\ job.status = "ACC"
                    /\ res[e] # (IF At("answer") THEN NoFile ELSE Torn)

\* The files of the bookings named b; the booking that is being made has its own file
\* once it is past the first step.
Ledgers(b) ==
    /\ sales[b] # NoFile => eventRes[b] # NoFile
    /\ userRes[b] # NoFile => eventRes[b] # NoFile
    /\ b \notin shared => /\ sales[b] \in {eventRes[b], NoFile}
                        /\ userRes[b] \in {eventRes[b], NoFile, Torn}
    /\ SaleOf(b[1]) /\ b = Booking /\ ~At("eventReservation") => eventRes[b] = job.seats

\* The event has all its files, and its owner is about to be told so.
Finished(e) ==
    /\ job.rsp = "RCE" /\ job.eid = e
    /\ At("createdReference") \/ (At("answer") /\ job.status = "OK")

Papers(e) ==
    /\ owner[e] # NoUser => IsEventOwner(owner[e], e) /\ res[e] # NoFile
    /\ owner[e] = NoUser /\ ~Finished(e) =>
          e \notin described /\ (\A u \in Users : e \notin created[u])
    /\ Finished(e) => IsEventOwner(job.uid, e) /\ res[e] # NoFile
    /\ job.eid = e /\ job.do \in {"res", "description"} =>
          Titled(job.uid, e) /\ start[e].fname = job.fname
    /\ job.eid = e /\ At("description") => res[e] # NoFile

References ==
    \A u \in Users : \A e \in created[u] : start[e] = Torn \/ Titled(u, e)

EventInv ==
    /\ NewEvents
    /\ References
    /\ \A e \in EIDs : Numbers(e)
    /\ \A b \in Bookings : b[1] \notin marred => Ledgers(b)
    /\ \A e \in EIDs \ marred : Papers(e)

DiskInv ==
    /\ Shapes
    /\ AccountInv
    /\ EventInv

-----------------------------------------------------------------------------
(* The job *)

\* What is left of a request when it goes on to another step.
SameRequest ==
    /\ job'.rsp = job.rsp /\ job'.uid = job.uid /\ job'.pass = job.pass
    /\ job'.eid = job.eid /\ job'.fname = job.fname
    /\ job'.seats = job.seats /\ job'.at = job.at

HasStep(rsp, step) ==
    \/ rsp = "RLI" /\ step \in LoginSteps
    \/ rsp = "RLO" /\ step = "eraseLogin"
    \/ rsp = "RUR" /\ step \in {"eraseLogin", "erasePassword"}
    \/ rsp = "RCP" /\ step = "password"
    \/ rsp = "RCE" /\ step \in CreateSteps
    \/ rsp = "RRI" /\ step \in SaleSteps
    \/ rsp = "RCL" /\ step = "end"
    \/ step = "answer"

AccountResponses == {"RLI", "RLO", "RUR", "RCP"}
EventResponses == {"RCE", "RRI", "RCL"}

\* The fields of a job, and whose steps the steps are.
LEMMA JobFields ==
    ASSUME JobOK
    PROVE  /\ job = NoJob <=> job.rsp = "none"
           /\ job = NoJob <=> job.do = "none"
           /\ job # NoJob => /\ job.rsp \in AccountResponses \cup EventResponses
                             /\ HasStep(job.rsp, job.do)
                             /\ job.uid \in Users /\ job.pass \in Passwords
           /\ job.status \in JobStatuses
           /\ job.rsp \in EventResponses => job.eid \in EIDs
           /\ job.rsp = "RCE" => job.fname \in FileInputs /\ job.seats \in SeatInputs
           /\ job.rsp = "RRI" => job.seats \in PeopleInputs /\ job.at \in Instants
<1> USE DEF HasStep, JobStatuses, LoginSteps, CreateSteps, SaleSteps, AccountResponses, EventResponses
<1>1. CASE job = NoJob
    BY <1>1 DEF NoJob, Job
<1>2. CASE job \in LoginJob
    BY <1>2 DEF LoginJob, JobOf, NoJob, Job
<1>3. CASE job \in LogoutJob \cup UnregisterJob \cup PasswordJob
    BY <1>3 DEF LogoutJob, UnregisterJob, PasswordJob, JobOf, NoJob, Job
<1>4. CASE job \in CreateJob
    BY <1>4 DEF CreateJob, JobOf, NoJob, Job
<1>5. CASE job \in SaleJob \cup CloseJob
    BY <1>5 DEF SaleJob, CloseJob, JobOf, NoJob, Job
<1> QED  BY <1>1, <1>2, <1>3, <1>4, <1>5 DEF JobOK, AccountJob

\* A job that goes on to a step of its own request, or to the answer.
LEMMA JobGoesOn ==
    ASSUME JobOK, job # NoJob, NEW step, NEW status \in JobStatuses,
           HasStep(job.rsp, step),
           \/ job' = [job EXCEPT !.do = step] /\ status = job.status
           \/ job' = [job EXCEPT !.do = step, !.status = status]
    PROVE  /\ JobOK' /\ SameRequest
           /\ job'.do = step /\ job'.status = status
<1> USE DEF HasStep, SameRequest, JobOK, AccountJob
<1>1. CASE job \in LoginJob
    <2>1. job' \in LoginJob
        BY <1>1 DEF LoginJob, JobOf
    <2> QED  BY <1>1, <2>1 DEF LoginJob, JobOf
<1>2. CASE job \in LogoutJob
    <2>1. job' \in LogoutJob
        BY <1>2 DEF LogoutJob, JobOf
    <2> QED  BY <1>2, <2>1 DEF LogoutJob, JobOf
<1>3. CASE job \in UnregisterJob
    <2>1. job' \in UnregisterJob
        BY <1>3 DEF UnregisterJob, JobOf
    <2> QED  BY <1>3, <2>1 DEF UnregisterJob, JobOf
<1>4. CASE job \in PasswordJob
    <2>1. job' \in PasswordJob
        BY <1>4 DEF PasswordJob, JobOf
    <2> QED  BY <1>4, <2>1 DEF PasswordJob, JobOf
<1>5. CASE job \in CreateJob
    <2>1. job' \in CreateJob
        BY <1>5 DEF CreateJob, JobOf
    <2> QED  BY <1>5, <2>1 DEF CreateJob, JobOf
<1>6. CASE job \in SaleJob
    <2>1. job' \in SaleJob
        BY <1>6 DEF SaleJob, JobOf
    <2> QED  BY <1>6, <2>1 DEF SaleJob, JobOf
<1>7. CASE job \in CloseJob
    <2>1. job' \in CloseJob
        BY <1>7 DEF CloseJob, JobOf
    <2> QED  BY <1>7, <2>1 DEF CloseJob, JobOf
<1> QED  BY <1>1, <1>2, <1>3, <1>4, <1>5, <1>6, <1>7

Moved(o, next, failure) ==
    /\ JobOK' /\ SameRequest
    /\ o = "refused" => job'.do = "answer" /\ job'.status = failure
    /\ o # "refused" => job'.do = next /\ job'.status = job.status

LEMMA ProceedMoves ==
    ASSUME JobOK, job # NoJob, NEW o, NEW next, NEW failure \in JobStatuses,
           HasStep(job.rsp, next),
           Proceed(o, next, failure) \/ (o # "refused" /\ Goto(next))
    PROVE  Moved(o, next, failure)
<1>1. CASE o = "refused" /\ Conclude(failure)
    BY <1>1, JobGoesOn DEF Conclude, Moved, HasStep
<1>2. CASE o # "refused" /\ Goto(next)
    BY <1>2, JobGoesOn, JobFields DEF Goto, Moved
<1> QED  BY <1>1, <1>2 DEF Proceed

\* Where each operation on the user files takes the job.
LEMMA AccountMoves ==
    ASSUME JobOK, NEW o
    PROVE  /\ MakeUserDir(o) => job.rsp = "RLI" /\ Moved(o, "createdDir", "ERR")
           /\ MakeCreatedDir(o) => job.rsp = "RLI" /\ Moved(o, "reservedDir", "ERR")
           /\ MakeReservedDir(o) => job.rsp = "RLI" /\ Moved(o, "password", "ERR")
           /\ WritePassword(o) => job.rsp \in {"RLI", "RCP"}
           /\ WritePassword(o) /\ job.rsp = "RLI" => Moved(o, "login", "ERR")
           /\ WritePassword(o) /\ job.rsp = "RCP" => Moved(o, "answer", "NOK")
           /\ EraseLogin(o) => job.rsp \in {"RUR", "RLO"}
           /\ EraseLogin(o) /\ job.rsp = "RUR" => Moved("done", "erasePassword", "NOK")
           /\ EraseLogin(o) /\ job.rsp = "RLO" => Moved("done", "answer", "NOK")
           /\ WriteLogin(o) => job.rsp = "RLI" /\ Moved("done", "answer", "NOK")
           /\ ErasePassword(o) => job.rsp = "RUR" /\ Moved("done", "answer", "NOK")
<1> USE JobFields, ProceedMoves
        DEF At, HasStep, JobStatuses, LoginSteps, CreateSteps, SaleSteps,
            AccountResponses, EventResponses
<1>1. MakeUserDir(o) => job.rsp = "RLI" /\ Moved(o, "createdDir", "ERR")
    BY DEF MakeUserDir
<1>2. MakeCreatedDir(o) => job.rsp = "RLI" /\ Moved(o, "reservedDir", "ERR")
    BY DEF MakeCreatedDir
<1>3. MakeReservedDir(o) => job.rsp = "RLI" /\ Moved(o, "password", "ERR")
    BY DEF MakeReservedDir
<1>4. WritePassword(o) => job.rsp \in {"RLI", "RCP"}
    BY DEF WritePassword
<1>5. WritePassword(o) /\ job.rsp = "RLI" => Moved(o, "login", "ERR")
    BY DEF WritePassword
<1>6. WritePassword(o) /\ job.rsp = "RCP" => Moved(o, "answer", "NOK")
    BY DEF WritePassword
<1>7. EraseLogin(o) => job.rsp \in {"RUR", "RLO"}
    BY DEF EraseLogin
<1>8. EraseLogin(o) /\ job.rsp = "RUR" => Moved("done", "erasePassword", "NOK")
    BY DEF EraseLogin
<1>9. EraseLogin(o) /\ job.rsp = "RLO" => Moved("done", "answer", "NOK")
    BY DEF EraseLogin
<1>10. WriteLogin(o) => job.rsp = "RLI" /\ Moved("done", "answer", "NOK")
    BY DEF WriteLogin
<1>11. ErasePassword(o) => job.rsp = "RUR" /\ Moved("done", "answer", "NOK")
    BY DEF ErasePassword
<1> QED  BY <1>1, <1>2, <1>3, <1>4, <1>5, <1>6, <1>7, <1>8, <1>9, <1>10, <1>11

\* Where each operation on the event files takes the job.
LEMMA EventMoves ==
    ASSUME JobOK, NEW o
    PROVE  /\ MakeEventDir(o) => job.rsp = "RCE" /\ Moved(o, "reservationsDir", "NOK")
           /\ MakeReservationsDir(o) => job.rsp = "RCE" /\ Moved(o, "descriptionDir", "NOK")
           /\ MakeDescriptionDir(o) => job.rsp = "RCE" /\ Moved(o, "start", "NOK")
           /\ WriteStart(o) => job.rsp = "RCE" /\ Moved(o, "res", "NOK")
           /\ WriteRes(o) => job.rsp = "RCE" /\ Moved(o, "description", "NOK")
           /\ WriteDescription(o) =>
                 /\ job.rsp = "RCE"
                 /\ Moved(IF CanOpen(job.fname) THEN o ELSE "refused", "createdReference", "NOK")
           /\ WriteCreatedReference(o) => job.rsp = "RCE" /\ Moved("done", "answer", "NOK")
           /\ WriteEventReservation(o) => job.rsp = "RRI" /\ Moved(o, "userReservation", "ERR")
           /\ WriteUserReservation(o) => job.rsp = "RRI" /\ Moved("done", "counter", "ERR")
           /\ WriteCounter(o) => job.rsp = "RRI" /\ Moved(o, "answer", "ERR")
           /\ WriteEnd(o) => job.rsp = "RCL" /\ Moved(o, "answer", "NOE")
<1> USE JobFields, ProceedMoves
        DEF At, HasStep, JobStatuses, LoginSteps, CreateSteps, SaleSteps,
            AccountResponses, EventResponses
<1>1. MakeEventDir(o) => job.rsp = "RCE" /\ Moved(o, "reservationsDir", "NOK")
    BY DEF MakeEventDir
<1>2. MakeReservationsDir(o) => job.rsp = "RCE" /\ Moved(o, "descriptionDir", "NOK")
    BY DEF MakeReservationsDir
<1>3. MakeDescriptionDir(o) => job.rsp = "RCE" /\ Moved(o, "start", "NOK")
    BY DEF MakeDescriptionDir
<1>4. WriteStart(o) => job.rsp = "RCE" /\ Moved(o, "res", "NOK")
    BY DEF WriteStart
<1>5. WriteRes(o) => job.rsp = "RCE" /\ Moved(o, "description", "NOK")
    BY DEF WriteRes
<1>6. WriteDescription(o) =>
          /\ job.rsp = "RCE"
          /\ Moved(IF CanOpen(job.fname) THEN o ELSE "refused", "createdReference", "NOK")
    <2>1. WriteDescription(o) => job.rsp = "RCE" /\ job # NoJob
        BY DEF WriteDescription
    <2>2. WriteDescription(o) /\ CanOpen(job.fname) => Moved(o, "createdReference", "NOK")
        BY <2>1 DEF WriteDescription
    <2>3. WriteDescription(o) /\ ~CanOpen(job.fname) => Proceed("refused", "createdReference", "NOK")
        BY DEF WriteDescription, Proceed
    <2>4. WriteDescription(o) /\ ~CanOpen(job.fname) => Moved("refused", "createdReference", "NOK")
        BY <2>1, <2>3
    <2> QED  BY <2>1, <2>2, <2>4
<1>7. WriteCreatedReference(o) => job.rsp = "RCE" /\ Moved("done", "answer", "NOK")
    BY DEF WriteCreatedReference
<1>8. WriteEventReservation(o) => job.rsp = "RRI" /\ Moved(o, "userReservation", "ERR")
    BY DEF WriteEventReservation
<1>9. WriteUserReservation(o) => job.rsp = "RRI" /\ Moved("done", "counter", "ERR")
    BY DEF WriteUserReservation
<1>10. WriteCounter(o) => job.rsp = "RRI" /\ Moved(o, "answer", "ERR")
    BY DEF WriteCounter
<1>11. WriteEnd(o) => job.rsp = "RCL" /\ Moved(o, "answer", "NOE")
    BY DEF WriteEnd
<1> QED  BY <1>1, <1>2, <1>3, <1>4, <1>5, <1>6, <1>7, <1>8, <1>9, <1>10, <1>11

\* A request that was just read.
LEMMA Begins ==
    ASSUME JobOK,
           NEW step, NEW rsp, NEW u \in Users, NEW p \in Passwords, NEW e, NEW fname, NEW n,
           NEW t, NEW status \in JobStatuses,
           HasStep(rsp, step),
           \/ rsp \in AccountResponses /\ e = 0 /\ fname = "none" /\ n = 0 /\ t = 0
           \/ rsp = "RCE" /\ e \in EIDs /\ fname \in FileInputs /\ n \in SeatInputs /\ t = 0
           \/ rsp = "RRI" /\ e \in EIDs /\ fname = "none" /\ n \in PeopleInputs /\ t \in Instants
           \/ rsp = "RCL" /\ e \in EIDs /\ fname = "none" /\ n = 0 /\ t = 0,
           BeginJob(Job(step, rsp, u, p, e, fname, n, t, status))
    PROVE  /\ JobOK'
           /\ job'.do = step /\ job'.rsp = rsp /\ job'.uid = u /\ job'.pass = p
           /\ job'.eid = e /\ job'.seats = n /\ job'.status = status
<1>1. job' = [do |-> step, rsp |-> rsp, uid |-> u, pass |-> p, eid |-> e, fname |-> fname,
              seats |-> n, at |-> t, status |-> status]
    BY DEF BeginJob, Job
<1> USE DEF HasStep, AccountResponses, AccountJob
<1>2. CASE rsp = "RLI"
    BY <1>1, <1>2 DEF JobOK, LoginJob, JobOf
<1>3. CASE rsp = "RLO"
    BY <1>1, <1>3 DEF JobOK, LogoutJob, JobOf
<1>4. CASE rsp = "RUR"
    BY <1>1, <1>4 DEF JobOK, UnregisterJob, JobOf
<1>5. CASE rsp = "RCP"
    BY <1>1, <1>5 DEF JobOK, PasswordJob, JobOf
<1>6. CASE rsp = "RCE"
    BY <1>1, <1>6 DEF JobOK, CreateJob, JobOf
<1>7. CASE rsp = "RRI"
    BY <1>1, <1>7 DEF JobOK, SaleJob, JobOf
<1>8. CASE rsp = "RCL"
    BY <1>1, <1>8 DEF JobOK, CloseJob, JobOf
<1> QED  BY <1>2, <1>3, <1>4, <1>5, <1>6, <1>7, <1>8

\* A request with no Fname, no seats and no second.
LEMMA BeginsPlainly ==
    ASSUME JobOK,
           NEW step, NEW rsp, NEW u \in Users, NEW p \in Passwords, NEW e,
           NEW status \in JobStatuses,
           HasStep(rsp, step),
           \/ rsp \in AccountResponses /\ e = 0
           \/ rsp = "RCL" /\ e \in EIDs,
           Begin(step, rsp, u, p, e, status)
    PROVE  /\ JobOK'
           /\ job'.do = step /\ job'.rsp = rsp /\ job'.uid = u /\ job'.eid = e
           /\ job'.status = status
BY Begins DEF Begin

LEMMA SendAnswerMoves == ASSUME JobOK, SendAnswer PROVE JobOK' /\ job' = NoJob
BY DEF SendAnswer, JobOK

LEMMA StopMoves == ASSUME JobOK, Stop PROVE JobOK' /\ job' = NoJob
BY DEF Stop, JobOK

-----------------------------------------------------------------------------
(* Types *)

\* fopen, fprintf and fclose leave the file as it was, empty, or filled.
LEMMA WrittenIs ==
    ASSUME NEW o \in Outcomes, NEW before, NEW contents
    PROVE  /\ o = "refused" => Written(o, before, contents) = before
           /\ o = "torn" => Written(o, before, contents) = Torn
           /\ o = "done" => Written(o, before, contents) = contents
           /\ Written(o, before, contents) \in {before, Torn, contents}
BY DEF Outcomes, Written

LEMMA ReservedIsNat ==
    ASSUME TypeOK, NEW e \in EIDs
    PROVE  Reserved(e) \in Nat
BY DEF TypeOK, Reserved

\* A job that books has the name of a booking.
LEMMA BookingIsName ==
    ASSUME JobOK, job.rsp = "RRI"
    PROVE  Booking \in Bookings /\ Booking[1] = job.eid
BY JobFields DEF Booking, Bookings, EventResponses

LEMMA StepTypes ==
    ASSUME Shapes, NEW o \in Outcomes, FileOperation(o),
           faults' = faults + (IF o = "done" THEN 0 ELSE 1)
    PROVE  TypeOK' /\ GhostsOK'
<1> USE DEF Shapes
<1>1. faults' \in 0..MaxFaults
    BY DiskAssumption DEF TypeOK, Outcomes
<1> HIDE DEF Shapes
<1>2. TypeOK /\ GhostsOK /\ JobOK
    BY DEF Shapes
<1>3. job # NoJob
    BY <1>2, JobFields DEF At, FileOperation, MakeUserDir, MakeCreatedDir, MakeReservedDir,
       WritePassword, WriteLogin, EraseLogin, ErasePassword, MakeEventDir,
       MakeReservationsDir, MakeDescriptionDir, WriteStart, WriteRes, WriteDescription,
       WriteCreatedReference, WriteEventReservation, WriteUserReservation, WriteCounter,
       WriteEnd
<1>4. job.uid \in Users /\ job.pass \in Passwords
    BY <1>2, <1>3, JobFields
<1>5. MakeUserDir(o) \/ MakeCreatedDir(o) \/ MakeReservedDir(o) => TypeOK' /\ GhostsOK'
    BY <1>1, <1>2, <1>4 DEF MakeUserDir, MakeCreatedDir, MakeReservedDir, eventFiles, ghosts,
       TypeOK, GhostsOK
<1>6. ASSUME WritePassword(o) PROVE TypeOK' /\ GhostsOK'
    <2>1. /\ UNCHANGED <<userDir, createdDir, reservedDir, loggedIn, eventFiles,
                         told, owner, sold, sales, leaked>>
          /\ password' = [password EXCEPT ![job.uid] = Written(o, @, job.pass)]
          /\ doubt' \subseteq doubt \cup {job.uid}
        BY <1>6 DEF WritePassword, Outcomes
    <2>2. Written(o, password[job.uid], job.pass) \in Passwords \cup {NoFile, Torn}
        BY <1>2, <1>4, WrittenIs DEF TypeOK
    <2> QED  BY <1>1, <1>2, <1>4, <2>1, <2>2 DEF eventFiles, TypeOK, GhostsOK
<1>7. WriteLogin(o) \/ EraseLogin(o) \/ ErasePassword(o) => TypeOK' /\ GhostsOK'
    BY <1>1, <1>2, <1>4 DEF WriteLogin, EraseLogin, ErasePassword, eventFiles, ghosts,
       TypeOK, GhostsOK
<1>8. ASSUME job.rsp \in EventResponses PROVE job.eid \in EIDs
    BY <1>2, <1>8, JobFields
<1>9. MakeEventDir(o) \/ MakeReservationsDir(o) \/ MakeDescriptionDir(o) => TypeOK' /\ GhostsOK'
    BY <1>1, <1>2, <1>8, EventMoves DEF MakeEventDir, MakeReservationsDir, MakeDescriptionDir,
       userFiles, eventFiles, ghosts, TypeOK, GhostsOK, EventResponses
<1>10. ASSUME WriteStart(o) PROVE TypeOK' /\ GhostsOK'
    <2>1. /\ job.rsp = "RCE" /\ job.eid \in EIDs
          /\ job.fname \in FileInputs /\ job.seats \in SeatInputs
        BY <1>2, <1>8, <1>10, EventMoves, JobFields DEF EventResponses
    <2> DEFINE file == [uid |-> job.uid, fname |-> job.fname, seats |-> job.seats]
    <2>2. file \in EventFile
        BY <1>4, <2>1 DEF EventFile
    <2> HIDE DEF file
    <2>3. start' = [start EXCEPT ![job.eid] = Written(o, @, file)]
        BY <1>10 DEF WriteStart, file
    <2>4. Written(o, start[job.eid], file) \in EventFile \cup {NoFile, Torn}
        BY <1>2, <2>1, <2>2, WrittenIs DEF TypeOK
    <2>5. start' \in [EIDs -> EventFile \cup {NoFile, Torn}]
        BY <1>2, <2>1, <2>3, <2>4 DEF TypeOK
    <2> QED  BY <1>1, <1>2, <1>10, <2>5 DEF WriteStart, userFiles, TypeOK, GhostsOK
<1>11. ASSUME WriteRes(o) \/ WriteCounter(o) PROVE TypeOK' /\ GhostsOK'
    <2>1. job.eid \in EIDs
        BY <1>2, <1>8, <1>11, EventMoves DEF EventResponses
    <2>2. job.rsp = "RRI" => job.seats \in Nat
        BY <1>2, JobFields, DiskAssumption
    <2>3. WriteCounter(o) => Reserved(job.eid) + job.seats \in Nat
        BY <1>2, <2>1, <2>2, EventMoves, ReservedIsNat
    <2>4. PICK n \in Nat : res' = [res EXCEPT ![job.eid] = Written(o, @, n)]
        BY <1>11, <2>3 DEF WriteRes, WriteCounter
    <2>5. Written(o, res[job.eid], n) \in Nat \cup {NoFile, Torn}
        BY <1>2, <2>1, WrittenIs DEF TypeOK
    <2>6. res' \in [EIDs -> Nat \cup {NoFile, Torn}]
        BY <1>2, <2>1, <2>4, <2>5 DEF TypeOK
    <2> QED  BY <1>1, <1>2, <1>11, <2>6 DEF WriteRes, WriteCounter, userFiles, TypeOK, GhostsOK
<1>12. ASSUME WriteDescription(o) \/ WriteCreatedReference(o) PROVE TypeOK' /\ GhostsOK'
    <2>1. job.eid \in EIDs
        BY <1>2, <1>8, <1>12, EventMoves DEF EventResponses
    <2>2. CASE WriteDescription(o)
        BY <1>1, <1>2, <2>1, <2>2 DEF WriteDescription, userFiles, TypeOK, GhostsOK
    <2>3. CASE WriteCreatedReference(o)
        <3>1. created' \in [Users -> SUBSET EIDs]
            BY <1>2, <1>4, <2>1, <2>3 DEF WriteCreatedReference, TypeOK
        <3> QED  BY <1>1, <1>2, <2>3, <3>1 DEF WriteCreatedReference, userFiles, ghosts,
                 TypeOK, GhostsOK
    <2> QED  BY <1>12, <2>2, <2>3
<1>13. ASSUME WriteEventReservation(o) \/ WriteUserReservation(o) PROVE TypeOK' /\ GhostsOK'
    <2>1. job.seats \in PeopleInputs /\ Booking \in Bookings
        BY <1>2, <1>13, BookingIsName, EventMoves, JobFields
    <2> DEFINE Marks == PeopleInputs \cup {NoFile, Torn}
    <2>2. ASSUME NEW f \in [Bookings -> Marks]
          PROVE  [f EXCEPT ![Booking] = Written(o, @, job.seats)] \in [Bookings -> Marks]
        <3>1. Written(o, f[Booking], job.seats) \in Marks
            BY <2>1, WrittenIs
        <3> QED  BY <2>1, <3>1
    <2>3. eventRes' \in [Bookings -> Marks] /\ userRes' \in [Bookings -> Marks]
        BY <1>2, <1>13, <2>2 DEF WriteEventReservation, WriteUserReservation, TypeOK
    <2> QED  BY <1>1, <1>2, <1>13, <2>3 DEF WriteEventReservation, WriteUserReservation,
             userFiles, ghosts, TypeOK, GhostsOK
<1>14. WriteEnd(o) => TypeOK' /\ GhostsOK'
    BY <1>1, <1>2, <1>8, EventMoves DEF WriteEnd, userFiles, ghosts, TypeOK, GhostsOK,
       EventResponses
<1> QED  BY <1>5, <1>6, <1>7, <1>9, <1>10, <1>11, <1>12, <1>13, <1>14 DEF FileOperation

-----------------------------------------------------------------------------
(* What a step is: a request that was let in, a file operation, an answer or a *)
(* stop.                                                                       *)

\* What the tests of a handler have found out before its first file operation.
Admitted ==
    \/ /\ job.do = "login" /\ job.rsp = "RLI" /\ job.status = "OK"
       /\ password[job.uid] # NoFile
    \/ job.do \in {"userDir", "password"} /\ job.rsp = "RLI" /\ job.status = "REG"
    \/ job.do = "eraseLogin" /\ job.rsp \in {"RLO", "RUR"} /\ job.status = "OK"
    \/ job.do = "password" /\ job.rsp = "RCP" /\ job.status = "OK"
    \/ /\ job.do = "eventDir" /\ job.rsp = "RCE" /\ job.status = "OK"
       /\ job.eid \notin eventDir
    \/ /\ job.do = "eventReservation" /\ job.rsp = "RRI" /\ job.status = "ACC"
       /\ Readable(job.eid) /\ res[job.eid] # Torn
       /\ Reserved(job.eid) + job.seats <= start[job.eid].seats
    \/ job.do = "end" /\ job.rsp = "RCL"

NewRequest ==
    /\ job = NoJob
    /\ JobOK' /\ Admitted'
    /\ UNCHANGED <<userFiles, eventFiles, faults, ghosts>>

LEMMA AccountRequestsAdmitted ==
    ASSUME Shapes, NEW u \in Users, NEW p \in Passwords, NEW new \in Passwords,
           \/ BeginLogin(u, p) \/ BeginLogout(u, p) \/ BeginUnregister(u, p)
           \/ BeginChangePassword(u, p, new)
    PROVE  NewRequest
<1> USE DEF HasStep, JobStatuses, AccountResponses, LoginSteps, Shapes
<1>1. ASSUME NEW step, NEW rsp, NEW q, NEW e, NEW status, Begin(step, rsp, u, q, e, status)
      PROVE  job = NoJob /\ UNCHANGED <<userFiles, eventFiles, faults, ghosts>>
    BY <1>1 DEF Begin, BeginJob
<1>2. CASE BeginLogin(u, p)
    <2>1. CASE AuthenticateUser(u, p) = 1 /\ Begin("login", "RLI", u, p, 0, "OK")
        <3>1. password[u] # NoFile
            BY <2>1 DEF AuthenticateUser
        <3> QED  BY <1>1, <2>1, <3>1, BeginsPlainly DEF NewRequest, Admitted, userFiles
    <2>2. CASE \E step \in {"userDir", "password"} : Begin(step, "RLI", u, p, 0, "REG")
        BY <1>1, <2>2, BeginsPlainly DEF NewRequest, Admitted
    <2> QED  BY <1>2, <2>1, <2>2 DEF BeginLogin
<1>3. CASE BeginLogout(u, p) \/ BeginUnregister(u, p)
    BY <1>1, <1>3, BeginsPlainly DEF BeginLogout, BeginUnregister, NewRequest, Admitted
<1>4. CASE BeginChangePassword(u, p, new)
    <2>1. Begin("password", "RCP", u, new, 0, "OK")
        BY <1>4 DEF BeginChangePassword
    <2>2. JobOK' /\ job'.do = "password" /\ job'.rsp = "RCP" /\ job'.status = "OK"
        BY <2>1, BeginsPlainly
    <2>3. job = NoJob /\ UNCHANGED <<userFiles, eventFiles, faults, ghosts>>
        BY <1>1, <2>1
    <2> QED  BY <2>2, <2>3 DEF NewRequest, Admitted
<1> QED  BY <1>2, <1>3, <1>4

LEMMA EventRequestsAdmitted ==
    ASSUME Shapes, NEW u \in Users, NEW p \in Passwords,
           \/ \E fname \in FileInputs, n \in SeatInputs : BeginCreate(u, p, fname, n)
           \/ \E e \in EIDs, n \in PeopleInputs, t \in Instants : BeginReserve(u, p, e, n, t)
           \/ \E e \in EIDs : BeginClose(u, p, e)
    PROVE  NewRequest
<1> USE DEF HasStep, JobStatuses, AccountResponses, CreateSteps, SaleSteps, Shapes
<1>1. ASSUME NEW j, BeginJob(j)
      PROVE  job = NoJob /\ UNCHANGED <<userFiles, eventFiles, faults, ghosts>>
    BY <1>1 DEF BeginJob
<1>2. ASSUME NEW fname \in FileInputs, NEW n \in SeatInputs, BeginCreate(u, p, fname, n)
      PROVE  NewRequest
    <2>1. PICK e \in EIDs :
             IsNextEid(e) /\ BeginJob(Job("eventDir", "RCE", u, p, e, fname, n, 0, "OK"))
        BY <1>2 DEF BeginCreate
    <2>2. e \notin eventDir
        BY <2>1 DEF IsNextEid, EIDs
    <2> QED  BY <1>1, <2>1, <2>2, Begins DEF NewRequest, Admitted, eventFiles
<1>3. ASSUME NEW e \in EIDs, NEW n \in PeopleInputs, NEW t \in Instants,
             BeginReserve(u, p, e, n, t)
      PROVE  NewRequest
    <2>1. /\ EventState(e) = 1 /\ n <= start[e].seats - Reserved(e)
          /\ BeginJob(Job("eventReservation", "RRI", u, p, e, "none", n, t, "ACC"))
        BY <1>3 DEF BeginReserve
    <2>2. Readable(e) /\ res[e] # Torn
        BY <2>1 DEF EventState, SeatsKnown
    <2>3. start[e].seats \in Nat /\ Reserved(e) \in Nat /\ n \in Nat
        BY <2>2, ReservedIsNat, DiskAssumption DEF TypeOK, Readable, EventFile
    <2>4. Reserved(e) + n <= start[e].seats
        BY <2>1, <2>3
    <2>5. job = NoJob /\ UNCHANGED <<userFiles, eventFiles, faults, ghosts>>
        BY <1>1, <2>1
    <2>6. /\ JobOK'
          /\ job'.do = "eventReservation" /\ job'.rsp = "RRI" /\ job'.eid = e
          /\ job'.seats = n /\ job'.status = "ACC"
        BY <2>1, Begins
    <2> QED  BY <2>2, <2>4, <2>5, <2>6 DEF NewRequest, Admitted, eventFiles, Readable, Reserved
<1>4. ASSUME NEW e \in EIDs, BeginClose(u, p, e) PROVE NewRequest
    BY <1>1, <1>4, BeginsPlainly DEF BeginClose, Begin, NewRequest, Admitted
<1> QED  BY <1>2, <1>3, <1>4

LEMMA NextCases ==
    ASSUME Shapes, Next
    PROVE  NewRequest \/ Step \/ SendAnswer \/ Stop
BY AccountRequestsAdmitted, EventRequestsAdmitted DEF Next

\* The handler of an account request touches no event file, and the other way round.
LEMMA StepKinds ==
    ASSUME Shapes, NEW o, FileOperation(o)
    PROVE  /\ JobOK' /\ SameRequest /\ job # NoJob
           /\ job.rsp \in AccountResponses \/ WriteEnd(o) =>
                 UNCHANGED <<eventDir, start, res, described, created, eventRes, userRes,
                             owner, sold, sales, shared, leaked, marred>>
           /\ job.rsp \in EventResponses => UNCHANGED <<password, loggedIn, told, doubt>>
<1> USE DEF Shapes, AccountResponses, EventResponses
<1>1. CASE MakeUserDir(o) \/ MakeCreatedDir(o) \/ MakeReservedDir(o)
    BY <1>1, AccountMoves, JobFields
    DEF Moved, MakeUserDir, MakeCreatedDir, MakeReservedDir, eventFiles, ghosts
<1>2. CASE WritePassword(o)
    BY <1>2, AccountMoves, JobFields DEF Moved, WritePassword, eventFiles
<1>3. CASE WriteLogin(o)
    BY <1>3, AccountMoves, JobFields DEF Moved, WriteLogin, eventFiles, ghosts
<1>4. CASE EraseLogin(o)
    BY <1>4, AccountMoves, JobFields DEF Moved, EraseLogin, eventFiles, ghosts
<1>5. CASE ErasePassword(o)
    BY <1>5, AccountMoves, JobFields DEF Moved, ErasePassword, eventFiles, ghosts
<1>6. CASE MakeEventDir(o) \/ MakeReservationsDir(o) \/ MakeDescriptionDir(o)
    BY <1>6, EventMoves, JobFields
    DEF Moved, MakeEventDir, MakeReservationsDir, MakeDescriptionDir, userFiles, ghosts
<1>7. CASE WriteStart(o) \/ WriteRes(o)
    BY <1>7, EventMoves, JobFields DEF Moved, WriteStart, WriteRes, userFiles
<1>8. CASE WriteDescription(o) \/ WriteCreatedReference(o)
    BY <1>8, EventMoves, JobFields DEF Moved, WriteDescription, WriteCreatedReference,
       userFiles, ghosts
<1>9. CASE WriteEventReservation(o) \/ WriteUserReservation(o) \/ WriteCounter(o)
    BY <1>9, EventMoves, JobFields DEF Moved, WriteEventReservation, WriteUserReservation,
       WriteCounter, userFiles, ghosts
<1>10. CASE WriteEnd(o)
    BY <1>10, EventMoves, JobFields DEF Moved, WriteEnd, userFiles, ghosts
<1> QED  BY <1>1, <1>2, <1>3, <1>4, <1>5, <1>6, <1>7, <1>8, <1>9, <1>10 DEF FileOperation

LEMMA ShapesKept == ASSUME Shapes, [Next]_vars PROVE Shapes'
<1>1. CASE NewRequest
    BY <1>1 DEF NewRequest, Shapes, TypeOK, GhostsOK, userFiles, eventFiles, ghosts
<1>2. CASE Step
    BY <1>2, StepTypes, StepKinds DEF Step, Shapes
<1>3. CASE SendAnswer
    <2>1. JobOK'
        BY <1>3, SendAnswerMoves DEF Shapes
    <2>2. TypeOK'
        BY <1>3 DEF SendAnswer, Shapes, TypeOK, userFiles, eventFiles
    <2>3. job.uid \in Users /\ job.pass \in Passwords
        BY <1>3, JobFields DEF SendAnswer, Shapes, At
    <2>4. told' \in [Users -> Passwords \cup {NoFile}]
        BY <1>3, <2>3 DEF SendAnswer, Shapes, GhostsOK
    <2>5. job.rsp \in EventResponses => job.eid \in EIDs
        BY JobFields DEF Shapes
    <2>6. owner' \in [EIDs -> Users \cup {NoUser}]
        BY <1>3, <2>3, <2>5 DEF SendAnswer, Shapes, GhostsOK, Answered, EventResponses
    <2>7. job.rsp = "RRI" => job.seats \in Nat
        BY JobFields, DiskAssumption DEF Shapes
    <2>8. sold' \in [EIDs -> Nat]
        BY <1>3, <2>5, <2>7 DEF SendAnswer, Shapes, GhostsOK, Answered, EventResponses
    <2>9. sales' \in [Bookings -> PeopleInputs \cup {NoFile}]
        <3>1. job.rsp = "RRI" => Booking \in Bookings /\ job.seats \in PeopleInputs
            BY BookingIsName, JobFields DEF Shapes
        <3> QED  BY <1>3, <3>1 DEF SendAnswer, Shapes, GhostsOK, Answered
    <2> QED  BY <1>3, <2>1, <2>2, <2>4, <2>6, <2>8, <2>9 DEF SendAnswer, Shapes, GhostsOK
<1>4. CASE Stop
    <2>1. JobOK'
        BY <1>4, StopMoves DEF Shapes
    <2>2. TypeOK'
        BY <1>4, DiskAssumption DEF Stop, Shapes, TypeOK, userFiles, eventFiles
    <2>3. job.uid \in Users
        BY <1>4, JobFields DEF Stop, Shapes
    <2>4. job.rsp = "RRI" => job.eid \in EIDs /\ job.seats \in Nat
        BY JobFields, DiskAssumption DEF Shapes, EventResponses
    <2>5. leaked' \in [EIDs -> Nat]
        BY <1>4, <2>4 DEF Stop, Shapes, GhostsOK, Answered
    <2> QED  BY <1>4, <2>1, <2>2, <2>3, <2>5 DEF Stop, Shapes, GhostsOK
<1>5. CASE UNCHANGED vars
    BY <1>5 DEF vars, userFiles, eventFiles, ghosts, Shapes, TypeOK, GhostsOK, JobOK
<1> QED  BY <1>1, <1>2, <1>3, <1>4, <1>5, NextCases

\* The step a job is at is one of its own request, now and after any step.
OwnStep == IF job.rsp = "none" THEN job.do = "none" ELSE HasStep(job.rsp, job.do)

LEMMA OwnSteps ==
    /\ JobOK => OwnStep
    /\ JobOK' => OwnStep'
<1>1. JobOK => OwnStep
    BY JobFields DEF OwnStep
<1> QED  BY <1>1, PTL

-----------------------------------------------------------------------------
(* The accounts *)

LEMMA AccountInvKept == ASSUME Shapes, AccountInv, [Next]_vars PROVE AccountInv'
<1> USE DEF SessionsHaveAccounts, AccountInv, Expected, Answered, At, LoginSteps
<1>1. Shapes'
    BY ShapesKept
<1>2. CASE NewRequest
    <2>1. \A u \in Users \ doubt : password[u] = told[u]
        BY <1>2 DEF NewRequest, NoJob, Job
    <2>2. /\ UNCHANGED <<password, loggedIn, told, doubt>>
          /\ job'.do # "erasePassword"
        BY <1>2 DEF NewRequest, Admitted, userFiles, ghosts
    <2>3. /\ job'.do = "login" => password[job'.uid] # NoFile /\ job'.status = "OK"
          /\ job'.rsp = "RLI" /\ job'.do \in LoginSteps \ {"login"} => job'.status = "REG"
          /\ job'.rsp = "RCP" /\ job'.do = "password" => job'.status = "OK"
          /\ job'.rsp = "RUR" => job'.status = "OK"
          /\ job'.do # "answer"
        BY <1>2 DEF NewRequest, Admitted, userFiles
    <2>4. \A u \in Users : Expected(u)' = told[u]
        BY <2>2, <2>3
    <2>5. SessionsHaveAccounts'
        BY <2>2
    <2> QED  BY <2>1, <2>2, <2>3, <2>4, <2>5
<1>3. ASSUME NEW o \in Outcomes, FileOperation(o) PROVE AccountInv'
    <2>1. CASE job.rsp \in EventResponses
        <3>1. UNCHANGED <<password, loggedIn, told, doubt>> /\ SameRequest /\ OwnStep'
            BY <1>1, <1>3, <2>1, StepKinds, OwnSteps DEF Shapes
        <3> QED  BY <2>1, <3>1 DEF EventResponses, SameRequest, OwnStep, HasStep,
                 CreateSteps, SaleSteps
    <2>2. CASE MakeUserDir(o) \/ MakeCreatedDir(o) \/ MakeReservedDir(o)
        <3>1. /\ UNCHANGED <<password, loggedIn, told, doubt>> /\ SameRequest
              /\ job.rsp = "RLI" /\ job.status = "REG"
              /\ \/ job'.do = "answer" /\ job'.status = "ERR"
                 \/ job'.do \in LoginSteps \ {"login"} /\ job'.status = "REG"
              /\ job.do \notin {"login", "answer"}
            BY <2>2, AccountMoves
            DEF Shapes, Moved, MakeUserDir, MakeCreatedDir, MakeReservedDir, ghosts
        <3> QED  BY <3>1 DEF SameRequest
    <2>3. CASE WritePassword(o)
        <3>1. /\ UNCHANGED <<loggedIn, told>> /\ SameRequest
              /\ job.do = "password" /\ job.rsp \in {"RLI", "RCP"}
              /\ IF o = "refused" THEN job'.do = "answer" /\ job'.status \in {"ERR", "NOK"}
                 ELSE /\ job'.do = (IF job.rsp = "RLI" THEN "login" ELSE "answer")
                      /\ job'.status = job.status
            BY <2>3, AccountMoves DEF Shapes, Moved, WritePassword
        <3>2. job.uid \in Users /\ job.pass \in Passwords /\ password \in [Users -> Passwords \cup {NoFile, Torn}]
            BY <3>1, JobFields DEF Shapes, TypeOK
        <3>3. password' = [password EXCEPT ![job.uid] = Written(o, @, job.pass)]
            BY <2>3 DEF WritePassword
        <3>4. CASE o = "refused"
            <4>1. password' = password
                BY <3>2, <3>3, <3>4, WrittenIs
            <4>2. doubt' = doubt
                BY <2>3, <3>4 DEF WritePassword
            <4> QED  BY <3>1, <3>4, <4>1, <4>2 DEF SameRequest
        <3>5. CASE o = "torn"
            <4>1. Written(o, password[job.uid], job.pass) = Torn
                BY <3>5, WrittenIs
            <4>3. password' = [password EXCEPT ![job.uid] = Torn]
                BY <3>2, <3>3, <4>1
            <4>2. doubt' = doubt \cup {job.uid}
                BY <2>3, <3>5 DEF WritePassword
            <4> QED  BY <3>1, <3>2, <3>5, <4>2, <4>3, DiskAssumption DEF SameRequest
        <3>6. CASE o = "done"
            <4>1. Written(o, password[job.uid], job.pass) = job.pass
                BY <3>6, WrittenIs
            <4>3. password' = [password EXCEPT ![job.uid] = job.pass]
                BY <3>2, <3>3, <4>1
            <4>2. doubt' = doubt \ {job.uid}
                BY <2>3, <3>6 DEF WritePassword
            <4> QED  BY <3>1, <3>2, <3>6, <4>2, <4>3, DiskAssumption DEF SameRequest
        <3> QED  BY <3>4, <3>5, <3>6 DEF Outcomes
    <2>4. CASE WriteLogin(o)
        <3>1. /\ UNCHANGED <<password, told, doubt>> /\ SameRequest
              /\ job.rsp = "RLI" /\ job.do = "login"
              /\ job'.do = "answer" /\ job'.status = job.status
              /\ loggedIn' \subseteq loggedIn \cup {job.uid}
            BY <2>4, AccountMoves DEF Shapes, Moved, WriteLogin, ghosts
        <3> QED  BY <3>1 DEF SameRequest
    <2>5. CASE EraseLogin(o)
        <3>1. /\ UNCHANGED <<password, told, doubt>> /\ SameRequest
              /\ job.rsp \in {"RUR", "RLO"} /\ job.do = "eraseLogin"
              /\ job'.do = (IF job.rsp = "RUR" THEN "erasePassword" ELSE "answer")
              /\ job'.status = job.status
              /\ loggedIn' = loggedIn \ {job.uid}
            BY <2>5, AccountMoves DEF Shapes, Moved, EraseLogin, ghosts
        <3> QED  BY <3>1 DEF SameRequest
    <2>6. CASE ErasePassword(o)
        <3>1. /\ UNCHANGED <<loggedIn, told>> /\ SameRequest
              /\ job.rsp = "RUR" /\ job.do = "erasePassword"
              /\ job'.do = "answer" /\ job'.status = job.status
              /\ doubt' = doubt \ {job.uid}
              /\ password' = [password EXCEPT ![job.uid] = NoFile]
            BY <2>6, AccountMoves DEF Shapes, Moved, ErasePassword
        <3>2. job.uid \in Users /\ password \in [Users -> Passwords \cup {NoFile, Torn}]
            BY <3>1, JobFields DEF Shapes, TypeOK
        <3> QED  BY <3>1, <3>2 DEF SameRequest
    <2> QED  BY <1>3, <2>1, <2>2, <2>3, <2>4, <2>5, <2>6, EventMoves
             DEF FileOperation, EventResponses, Shapes
<1>4. CASE SendAnswer
    <2>1. /\ UNCHANGED <<password, loggedIn, doubt>>
          /\ job'.do = "none" /\ job'.rsp = "none"
          /\ job.do = "answer" /\ job.uid \in Users /\ told \in [Users -> Passwords \cup {NoFile}]
          /\ told' = [told EXCEPT ![job.uid] =
                IF Answered("RLI", "REG") \/ Answered("RCP", "OK") THEN job.pass
                ELSE IF Answered("RUR", "OK") THEN NoFile ELSE @]
        BY <1>4, JobFields DEF SendAnswer, Shapes, GhostsOK, userFiles, NoJob, Job
    <2>2. \A u \in Users : told'[u] = Expected(u)
        BY <2>1
    <2>3. \A u \in Users : Expected(u)' = told'[u]
        BY <2>1
    <2> QED  BY <2>1, <2>2, <2>3
<1>5. CASE Stop
    BY <1>5, StopMoves, JobFields DEF Stop, Shapes, GhostsOK, userFiles, NoJob, Job
<1>6. CASE UNCHANGED vars
    BY <1>6 DEF vars, userFiles, ghosts
<1> QED  BY <1>2, <1>3, <1>4, <1>5, <1>6, NextCases DEF Step

-----------------------------------------------------------------------------
(* The events *)

eventState == <<eventDir, start, res, described, created, eventRes, userRes,
                owner, sold, sales, shared, leaked, marred>>

NeitherCreateNorSale == OwnStep /\ job.rsp \notin {"RCE", "RRI"}

\* Without a CRE or RID the event invariant is about the files and the ghosts only.
LEMMA QuietSteps ==
    ASSUME EventInv, UNCHANGED eventState,
           NeitherCreateNorSale, NeitherCreateNorSale'
    PROVE  EventInv'
<1> USE DEF eventState, EventInv
<1>1. /\ job.do \notin CreateSteps \cup SaleSteps /\ job.rsp \notin {"RCE", "RRI"}
      /\ job'.do \notin CreateSteps \cup SaleSteps /\ job'.rsp \notin {"RCE", "RRI"}
    BY DEF NeitherCreateNorSale, OwnStep, HasStep, LoginSteps, CreateSteps, SaleSteps
<1>2. /\ \A e : ~SaleOf(e) /\ ~SaleOf(e)' /\ ~Finished(e) /\ ~Finished(e)'
      /\ ~Made /\ ~Made'
    BY <1>1 DEF SaleOf, Finished, Made
<1>3. NewEvents' /\ References'
    BY <1>1, <1>2 DEF NewEvents, References, Untouched, Titled, Readable, At, CreateSteps
<1>4. ASSUME NEW e \in EIDs PROVE Numbers(e)'
    BY <1>2 DEF Numbers, Readable
<1>5. ASSUME NEW e \in EIDs \ marred PROVE Papers(e)'
    BY <1>1, <1>2 DEF Papers, IsEventOwner, Readable, Titled, At, CreateSteps
<1>6. ASSUME NEW b \in Bookings, b[1] \notin marred PROVE Ledgers(b)'
    BY <1>2, <1>6 DEF Ledgers
<1> QED  BY <1>3, <1>4, <1>5, <1>6

LEMMA AccountStepsQuiet ==
    ASSUME Shapes, Shapes', NEW o, FileOperation(o),
           job.rsp \in AccountResponses \/ WriteEnd(o)
    PROVE  UNCHANGED eventState /\ NeitherCreateNorSale /\ NeitherCreateNorSale'
<1>1. UNCHANGED eventState /\ SameRequest /\ job.rsp \notin {"RCE", "RRI"}
    BY StepKinds, EventMoves DEF eventState, Shapes, AccountResponses
<1> QED  BY <1>1, OwnSteps DEF NeitherCreateNorSale, SameRequest, Shapes

(* What the operations on the event files do, without Written. *)

Refused(o, status) == o = "refused" => job'.do = "answer" /\ job'.status = status
Goes(o, next) == o # "refused" => job'.do = next /\ job'.status = job.status
Mars(o) == marred' = IF o = "torn" THEN marred \cup {job.eid} ELSE marred

LEMMA EventFilesAreNotMarks == \A f \in EventFile : f # NoFile /\ f # Torn
BY DiskAssumption DEF EventFile

LEMMA WriteStartEffect ==
    ASSUME Shapes, NEW o \in Outcomes, WriteStart(o)
    PROVE  /\ job.rsp = "RCE" /\ job.do = "start" /\ job.eid \in EIDs /\ SameRequest
           /\ Refused(o, "NOK") /\ Goes(o, "res") /\ Mars(o)
           /\ \A d \in EIDs \ {job.eid} : start'[d] = start[d]
           /\ o = "refused" => start'[job.eid] = start[job.eid]
           /\ o = "torn" => start'[job.eid] = Torn
           /\ o = "done" => /\ start'[job.eid] \in EventFile /\ start'[job.eid].uid = job.uid
                            /\ start'[job.eid].fname = job.fname
           /\ UNCHANGED <<eventDir, res, described, created, eventRes, userRes,
                          owner, sold, sales, shared, leaked>>
<1>1. /\ job.rsp = "RCE" /\ Moved(o, "res", "NOK")
      /\ job.uid \in Users /\ job.eid \in EIDs
      /\ job.fname \in FileInputs /\ job.seats \in SeatInputs
    BY EventMoves, JobFields DEF Shapes, EventResponses
<1> DEFINE file == [uid |-> job.uid, fname |-> job.fname, seats |-> job.seats]
<1>2. file \in EventFile /\ file.uid = job.uid /\ file.fname = job.fname
    BY <1>1 DEF EventFile
<1> HIDE DEF file
<1>3. start' = [start EXCEPT ![job.eid] = Written(o, start[job.eid], file)]
    BY DEF WriteStart, file
<1>4. start'[job.eid] = Written(o, start[job.eid], file)
    BY <1>1, <1>3 DEF Shapes, TypeOK
<1>5. \A d \in EIDs \ {job.eid} : start'[d] = start[d]
    BY <1>1, <1>3 DEF Shapes, TypeOK
<1> QED  BY <1>1, <1>2, <1>4, <1>5, WrittenIs
         DEF WriteStart, At, Moved, MarredBy, Refused, Goes, Mars

\* The number that WriteRes and WriteCounter put into RES.
Count == IF At("res") THEN 0 ELSE Reserved(job.eid) + job.seats

LEMMA WriteResEffect ==
    ASSUME Shapes, NEW o \in Outcomes, WriteRes(o) \/ WriteCounter(o)
    PROVE  /\ job.eid \in EIDs /\ SameRequest /\ Mars(o) /\ Count \in Nat
           /\ WriteRes(o) => /\ job.rsp = "RCE" /\ job.do = "res"
                             /\ Refused(o, "NOK") /\ Goes(o, "description")
           /\ WriteCounter(o) => /\ job.rsp = "RRI" /\ job.do = "counter" /\ job.seats \in Nat
                                 /\ Refused(o, "ERR") /\ Goes(o, "answer")
           /\ \A d \in EIDs \ {job.eid} : res'[d] = res[d]
           /\ o = "refused" => res'[job.eid] = res[job.eid]
           /\ o = "torn" => res'[job.eid] = Torn
           /\ o = "done" => res'[job.eid] = Count
           /\ UNCHANGED <<eventDir, start, described, created, eventRes, userRes,
                          owner, sold, sales, shared, leaked>>
<1>1. /\ job.eid \in EIDs
      /\ WriteRes(o) => job.rsp = "RCE" /\ Moved(o, "description", "NOK")
      /\ WriteCounter(o) => job.rsp = "RRI" /\ Moved(o, "answer", "ERR") /\ job.seats \in Nat
    BY EventMoves, JobFields, DiskAssumption DEF Shapes, EventResponses
<1>2. Count \in Nat
    <2>1. Reserved(job.eid) \in Nat
        BY <1>1, ReservedIsNat DEF Shapes
    <2> QED  BY <1>1, <2>1 DEF Count, WriteRes, WriteCounter, At
<1>3. res' = [res EXCEPT ![job.eid] = Written(o, res[job.eid], Count)]
    BY DEF WriteRes, WriteCounter, Count, At
<1>4. res'[job.eid] = Written(o, res[job.eid], Count)
    BY <1>1, <1>3 DEF Shapes, TypeOK
<1>5. \A d \in EIDs \ {job.eid} : res'[d] = res[d]
    BY <1>1, <1>3 DEF Shapes, TypeOK
<1>6. /\ Mars(o)
      /\ WriteRes(o) => job.do = "res"
      /\ WriteCounter(o) => job.do = "counter"
      /\ UNCHANGED <<eventDir, start, described, created, eventRes, userRes,
                     owner, sold, sales, shared, leaked>>
    BY DEF WriteRes, WriteCounter, MarredBy, Mars, At
<1>7. /\ SameRequest
      /\ WriteRes(o) => Refused(o, "NOK") /\ Goes(o, "description")
      /\ WriteCounter(o) => Refused(o, "ERR") /\ Goes(o, "answer")
    BY <1>1 DEF Moved, Refused, Goes
<1> QED  BY <1>1, <1>2, <1>4, <1>5, <1>6, <1>7, WrittenIs

LEMMA WriteDescriptionEffect ==
    ASSUME Shapes, NEW o \in Outcomes, WriteDescription(o)
    PROVE  /\ job.rsp = "RCE" /\ job.do = "description" /\ job.eid \in EIDs /\ SameRequest
           /\ ~CanOpen(job.fname) => o = "done" /\ described' = described
           /\ IF CanOpen(job.fname) /\ o # "refused"
              THEN job'.do = "createdReference" /\ job'.status = job.status
              ELSE job'.do = "answer" /\ job'.status = "NOK"
           /\ CanOpen(job.fname) =>
                 described' = IF o = "done" THEN described \cup {job.eid} ELSE described
           /\ Mars(o)
           /\ UNCHANGED <<eventDir, start, res, created, eventRes, userRes,
                          owner, sold, sales, shared, leaked>>
<1>1. /\ job.rsp = "RCE" /\ job.eid \in EIDs
      /\ Moved(IF CanOpen(job.fname) THEN o ELSE "refused", "createdReference", "NOK")
    BY EventMoves, JobFields DEF Shapes, EventResponses
<1> QED  BY <1>1 DEF WriteDescription, At, Moved, MarredBy, Mars

LEMMA WriteCreatedReferenceEffect ==
    ASSUME Shapes, NEW o \in Outcomes, WriteCreatedReference(o)
    PROVE  /\ job.rsp = "RCE" /\ job.do = "createdReference" /\ job.eid \in EIDs
           /\ job.uid \in Users /\ SameRequest
           /\ job'.do = "answer" /\ job'.status = job.status
           /\ \A u \in Users \ {job.uid} : created'[u] = created[u]
           /\ created'[job.uid] \in {created[job.uid], created[job.uid] \cup {job.eid}}
           /\ UNCHANGED <<eventDir, start, res, described, eventRes, userRes,
                          owner, sold, sales, shared, leaked, marred>>
<1>1. /\ job.rsp = "RCE" /\ Moved("done", "answer", "NOK")
      /\ job.uid \in Users /\ job.eid \in EIDs
    BY EventMoves, JobFields DEF Shapes, EventResponses
<1>2. /\ \A u \in Users \ {job.uid} : created'[u] = created[u]
      /\ created'[job.uid] \in {created[job.uid], created[job.uid] \cup {job.eid}}
    BY <1>1 DEF WriteCreatedReference, Shapes, TypeOK
<1> QED  BY <1>1, <1>2 DEF WriteCreatedReference, At, Moved, ghosts

LEMMA WriteReservationEffect ==
    ASSUME Shapes, NEW o \in Outcomes, WriteEventReservation(o) \/ WriteUserReservation(o)
    PROVE  /\ job.rsp = "RRI" /\ job.eid \in EIDs /\ SameRequest
           /\ Booking \in Bookings /\ Booking[1] = job.eid
           /\ job.seats \in Nat /\ job.seats # NoFile
           /\ WriteEventReservation(o) =>
                 /\ job.do = "eventReservation"
                 /\ Refused(o, "ERR") /\ Goes(o, "userReservation") /\ Mars(o)
                 /\ \A b \in Bookings \ {Booking} : eventRes'[b] = eventRes[b]
                 /\ o = "refused" => eventRes'[Booking] = eventRes[Booking]
                 /\ o = "done" => eventRes'[Booking] = job.seats
                 /\ SharedBy(o) /\ userRes' = userRes
           /\ WriteUserReservation(o) =>
                 /\ job.do = "userReservation"
                 /\ job'.do = "counter" /\ job'.status = job.status
                 /\ \A b \in Bookings \ {Booking} : userRes'[b] = userRes[b]
                 /\ userRes'[Booking] \in {userRes[Booking], Torn, job.seats}
                 /\ UNCHANGED <<eventRes, shared, marred>>
           /\ UNCHANGED <<eventDir, start, res, described, created, owner, sold, sales, leaked>>
<1>1. /\ job.rsp = "RRI" /\ job.eid \in EIDs /\ job.seats \in Nat /\ job.seats # NoFile
      /\ Booking \in Bookings /\ Booking[1] = job.eid
      /\ WriteEventReservation(o) => Moved(o, "userReservation", "ERR")
      /\ WriteUserReservation(o) => Moved("done", "counter", "ERR")
    BY EventMoves, JobFields, BookingIsName, DiskAssumption DEF Shapes, EventResponses
<1>3. CASE WriteEventReservation(o)
    <2>1. eventRes'[Booking] = Written(o, eventRes[Booking], job.seats)
        BY <1>1, <1>3 DEF WriteEventReservation, Shapes, TypeOK
    <2>2. \A b \in Bookings \ {Booking} : eventRes'[b] = eventRes[b]
        BY <1>1, <1>3 DEF WriteEventReservation, Shapes, TypeOK
    <2> QED  BY <1>1, <1>3, <2>1, <2>2, WrittenIs
             DEF WriteEventReservation, WriteUserReservation, At, Moved, MarredBy, Refused, Goes, Mars
<1>4. CASE WriteUserReservation(o)
    <2>1. userRes'[Booking] \in {userRes[Booking], Written(o, userRes[Booking], job.seats)}
        BY <1>1, <1>4 DEF WriteUserReservation, Shapes, TypeOK
    <2>2. \A b \in Bookings \ {Booking} : userRes'[b] = userRes[b]
        BY <1>1, <1>4 DEF WriteUserReservation, Shapes, TypeOK
    <2> QED  BY <1>1, <1>4, <2>1, <2>2, WrittenIs
             DEF WriteEventReservation, WriteUserReservation, At, Moved, ghosts
<1> QED  BY <1>1, <1>3, <1>4

-----------------------------------------------------------------------------
(* What has been made of an event *)

LEMMA MadeIsThere ==
    ASSUME Shapes, NewEvents, Made
    PROVE  job.eid \in eventDir
BY JobFields, DiskAssumption
DEF Shapes, NewEvents, Made, Untouched, Titled, Readable, EventResponses

LEMMA CreateStepsKeepNewEvents ==
    ASSUME Shapes, EventInv, NEW o \in Outcomes, FileOperation(o), job.rsp = "RCE"
    PROVE  NewEvents' /\ References'
<1>1. job.eid \in EIDs /\ job.uid \in Users /\ job.seats \in SeatInputs
    BY JobFields DEF EventResponses, Shapes
<1>2. NewEvents /\ References /\ (Made => job.eid \in eventDir)
    BY MadeIsThere DEF EventInv
<1> USE DEF SameRequest, NewEvents, References, Untouched, Titled, Readable, Made, At
<1>3. CASE MakeEventDir(o)
    <2>1. /\ job.do = "eventDir" /\ job'.do \in {"reservationsDir", "answer"}
          /\ job'.rsp = "RCE" /\ job'.eid = job.eid /\ job.status = "OK"
          /\ job'.do = "answer" => job'.status = "NOK"
          /\ job'.do # "answer" => eventDir' = eventDir \cup {job.eid} /\ job'.status = "OK"
          /\ eventDir \subseteq eventDir'
          /\ UNCHANGED <<start, res, described, created, owner>>
        BY <1>1, <1>2, <1>3, EventMoves DEF Moved, MakeEventDir, userFiles, ghosts, Shapes, Outcomes
    <2>2. Untouched(job.eid)
        BY <1>1, <1>2, <2>1
    <2> QED  BY <1>2, <2>1, <2>2
<1>4. CASE MakeReservationsDir(o) \/ MakeDescriptionDir(o)
    <2>1. /\ job.do \in {"reservationsDir", "descriptionDir"}
          /\ job'.do \in {"descriptionDir", "start", "answer"}
          /\ job'.rsp = "RCE" /\ job'.eid = job.eid /\ job.status = "OK"
          /\ job'.do = "answer" => job'.status = "NOK"
          /\ job'.do # "answer" => eventDir' = eventDir /\ job'.status = "OK"
          /\ eventDir \ {job.eid} \subseteq eventDir'
          /\ UNCHANGED <<start, res, described, created, owner>>
        BY <1>1, <1>2, <1>4, EventMoves
        DEF Moved, MakeReservationsDir, MakeDescriptionDir, userFiles, eventFiles, ghosts, Shapes,
            Outcomes
    <2>2. job.eid \in eventDir /\ Untouched(job.eid)
        BY <1>2, <2>1
    <2>3. \A e \in EIDs \ eventDir' : Untouched(e)'
        BY <1>2, <2>1, <2>2
    <2> QED  BY <1>2, <2>1, <2>2, <2>3
<1>6. CASE WriteStart(o)
    <2>1. /\ job.do = "start" /\ job.eid \in eventDir /\ Untouched(job.eid) /\ job.status = "OK"
          /\ job'.rsp = "RCE" /\ job'.eid = job.eid /\ job'.uid = job.uid
          /\ \A d \in EIDs \ {job.eid} : start'[d] = start[d]
          /\ UNCHANGED <<eventDir, res, described, created, owner>>
        BY <1>2, <1>6, WriteStartEffect
    <2>2. \/ job'.do = "answer" /\ job'.status = "NOK"
          \/ /\ job'.do = "res" /\ job'.status = "OK"
             /\ start'[job.eid] = Torn \/ Titled(job.uid, job.eid)'
        BY <1>6, <2>1, WriteStartEffect, EventFilesAreNotMarks DEF Refused, Goes, Outcomes
    <2>3. \A e \in EIDs \ eventDir' : Untouched(e)'
        BY <1>2, <2>1
    <2>4. References'
        BY <1>2, <2>1 DEF Shapes, TypeOK
    <2> QED  BY <2>1, <2>2, <2>3, <2>4
<1>7. CASE WriteRes(o)
    <2>1. Made /\ job.eid \in eventDir /\ job.status = "OK"
        BY <1>1, <1>2, <1>7, WriteResEffect
    <2>2. \A e \in EIDs \ eventDir' : Untouched(e)'
        BY <1>2, <1>7, <2>1, WriteResEffect
    <2>3. References'
        BY <1>2, <1>7, WriteResEffect
    <2> QED  BY <1>2, <1>7, <2>1, <2>2, <2>3, WriteResEffect DEF Refused, Goes
<1>8. CASE WriteDescription(o)
    BY <1>1, <1>2, <1>8, WriteDescriptionEffect DEF Refused, Goes
<1>9. CASE WriteCreatedReference(o)
    BY <1>1, <1>2, <1>9, WriteCreatedReferenceEffect
<1> QED  BY <1>3, <1>4, <1>6, <1>7, <1>8, <1>9, AccountMoves, EventMoves
         DEF FileOperation, Shapes

\* What a RID does to the event it books, at each of its steps.
LEMMA SaleStepEffect ==
    ASSUME Shapes, NEW o \in Outcomes, FileOperation(o), job.rsp = "RRI"
    PROVE  \/ WriteEventReservation(o) \/ WriteUserReservation(o) \/ WriteCounter(o)
BY AccountMoves, EventMoves DEF FileOperation, Shapes

LEMMA SaleStepsKeepNewEvents ==
    ASSUME Shapes, EventInv, NEW o \in Outcomes, FileOperation(o), job.rsp = "RRI"
    PROVE  NewEvents' /\ References'
<1>1. /\ job.eid \in EIDs /\ job.do \in SaleSteps
      /\ job'.rsp = "RRI" /\ job'.do \in SaleSteps \cup {"answer"}
      /\ \A d \in EIDs \ {job.eid} : res'[d] = res[d]
      /\ UNCHANGED <<eventDir, start, described, created, owner>>
    BY SaleStepEffect, WriteReservationEffect, WriteResEffect
    DEF SaleSteps, SameRequest, Refused, Goes
<1>2. Readable(job.eid)
    BY <1>1 DEF EventInv, Numbers, SaleOf, SaleSteps, At
<1>3. job.eid \in eventDir
    BY <1>1, <1>2 DEF EventInv, NewEvents, Untouched, Readable
<1>4. \A e \in EIDs \ eventDir' : Untouched(e)'
    BY <1>1, <1>3 DEF EventInv, NewEvents, Untouched
<1>5. References'
    BY <1>1 DEF EventInv, References, Titled, Readable
<1>6. /\ job'.do \notin {"eventDir", "reservationsDir", "descriptionDir", "start", "res"}
      /\ ~Made'
    BY <1>1 DEF SaleSteps, Made
<1> QED  BY <1>1, <1>4, <1>5, <1>6 DEF NewEvents, At

-----------------------------------------------------------------------------
(* The seats *)

LEMMA CreateStepsKeepNumbers ==
    ASSUME Shapes, EventInv, NEW o \in Outcomes, FileOperation(o), job.rsp = "RCE",
           NEW e \in EIDs
    PROVE  Numbers(e)'
<1>1. job.eid \in EIDs /\ SameRequest
    BY JobFields, StepKinds DEF EventResponses, Shapes
<1>2. ~SaleOf(e) /\ ~SaleOf(e)'
    BY <1>1 DEF SaleOf, SameRequest
<1>3. Numbers(e)
    BY DEF EventInv
<1>4. CASE UNCHANGED <<start, res, sold, leaked>>
    BY <1>2, <1>3, <1>4 DEF Numbers, Readable
<1>5. CASE WriteStart(o)
    <2>1. res[job.eid] = NoFile
        BY <1>5, WriteStartEffect DEF EventInv, NewEvents, Untouched
    <2>2. /\ start'[job.eid] \in EventFile \/ start'[job.eid] \in {Torn, start[job.eid]}
          /\ \A d \in EIDs \ {job.eid} : start'[d] = start[d]
          /\ UNCHANGED <<res, sold, leaked>>
        BY <1>5, WriteStartEffect DEF Outcomes
    <2>3. CASE e # job.eid
        BY <1>2, <1>3, <2>2, <2>3 DEF Numbers, Readable
    <2>4. CASE e = job.eid
        <3>1. sold[e] = 0 /\ leaked[e] = 0
            BY <1>3, <2>1, <2>4 DEF Numbers
        <3>2. Readable(e)' => start'[e].seats \in Nat
            <4>1. start[e] = NoFile
                BY <1>5, <2>4, WriteStartEffect DEF EventInv, NewEvents, Untouched
            <4> QED  BY <2>2, <2>4, <4>1, DiskAssumption DEF Readable, EventFile
        <3> QED  BY <1>2, <2>1, <2>2, <2>4, <3>1, <3>2 DEF Numbers
    <2> QED  BY <2>3, <2>4
<1>6. CASE WriteRes(o)
    <2>1. res[job.eid] = NoFile /\ At("res")
        BY <1>6, WriteResEffect DEF EventInv, NewEvents, At
    <2>2. /\ res'[job.eid] \in {0, Torn, res[job.eid]}
          /\ \A d \in EIDs \ {job.eid} : res'[d] = res[d]
          /\ UNCHANGED <<start, sold, leaked>>
        BY <1>6, <2>1, WriteResEffect DEF Outcomes, Count
    <2>3. CASE e # job.eid
        BY <1>2, <1>3, <2>2, <2>3 DEF Numbers, Readable
    <2>4. CASE e = job.eid
        <3>1. sold[e] = 0 /\ leaked[e] = 0
            BY <1>3, <2>1, <2>4 DEF Numbers
        <3> QED  BY <1>2, <1>3, <2>2, <2>4, <3>1 DEF Numbers, Readable
    <2> QED  BY <2>3, <2>4
<1>7. CASE \/ MakeEventDir(o) \/ MakeReservationsDir(o) \/ MakeDescriptionDir(o)
          \/ WriteDescription(o) \/ WriteCreatedReference(o)
    BY <1>4, <1>7 DEF MakeEventDir, MakeReservationsDir, MakeDescriptionDir, WriteDescription,
       WriteCreatedReference, eventFiles, ghosts
<1> QED  BY <1>5, <1>6, <1>7, AccountMoves, EventMoves DEF FileOperation, Shapes

LEMMA SaleStepsKeepNumbers ==
    ASSUME Shapes, EventInv, NEW o \in Outcomes, FileOperation(o), job.rsp = "RRI",
           NEW e \in EIDs
    PROVE  Numbers(e)'
<1>1. /\ job.eid \in EIDs /\ job.seats \in Nat /\ job'.rsp = "RRI"
      /\ job'.eid = job.eid /\ job'.seats = job.seats
      /\ job.do \in SaleSteps
      /\ UNCHANGED <<start, sold, leaked>>
    BY SaleStepEffect, WriteReservationEffect, WriteResEffect, JobFields, DiskAssumption
    DEF SaleSteps, SameRequest, Shapes
<1>2. Numbers(e) /\ sold[e] \in Nat /\ leaked[e] \in Nat
    BY DEF EventInv, Shapes, GhostsOK
<1>3. CASE e # job.eid
    <2>1. res'[e] = res[e]
        BY <1>3, SaleStepEffect, WriteReservationEffect, WriteResEffect
    <2>2. ~SaleOf(e) /\ ~SaleOf(e)'
        BY <1>1, <1>3 DEF SaleOf
    <2> QED  BY <1>1, <1>2, <2>1, <2>2 DEF Numbers, Readable
<1>4. CASE e = job.eid
    <2>1. SaleOf(e) /\ ~At("answer") /\ job.status = "ACC" /\ Readable(e) /\ res[e] # Torn
        BY <1>1, <1>2, <1>4 DEF SaleOf, Numbers, At, SaleSteps
    <2>2. start[e] \in EventFile /\ start[e].seats \in Nat
        BY <2>1, DiskAssumption DEF Shapes, TypeOK, Readable, EventFile
    <2>3. CASE WriteEventReservation(o) \/ WriteUserReservation(o)
        <3>1. /\ res' = res
              /\ \/ job'.do = "answer" /\ job'.status = "ERR"
                 \/ job'.do \in SaleSteps /\ job'.status = "ACC"
            BY <2>1, <2>3, WriteReservationEffect DEF Refused, Goes, SaleSteps
        <3>2. ~(SaleOf(e) /\ At("answer"))'
            BY <3>1 DEF SaleOf, At, SaleSteps
        <3>3. SaleOf(e)' => ~At("answer")' /\ job'.status = "ACC"
            BY <3>1 DEF SaleOf, At, SaleSteps
        <3> QED  BY <1>1, <1>2, <1>4, <2>1, <2>2, <3>1, <3>2, <3>3 DEF Numbers, Readable
    <2>4. CASE WriteCounter(o)
        <3>1. /\ job.do = "counter" /\ job'.do = "answer" /\ Count = Reserved(e) + job.seats
              /\ Count \in Nat
              /\ \/ o = "refused" /\ job'.status = "ERR" /\ res'[e] = res[e]
                 \/ o = "torn" /\ job'.status = "ACC" /\ res'[e] = Torn
                 \/ o = "done" /\ job'.status = "ACC" /\ res'[e] = Count
            BY <1>4, <2>1, <2>4, WriteResEffect DEF Refused, Goes, Outcomes, Count, At
        <3>2. Reserved(e) = sold[e] + leaked[e]
            BY <1>2, <2>1 DEF Numbers, Reserved
        <3>3. sold[e] + leaked[e] + job.seats <= start[e].seats
            BY <1>2, <2>1 DEF Numbers
        <3>4. CASE o = "refused"
            <4>1. ~SaleOf(e)'
                BY <3>1, <3>4 DEF SaleOf, At
            <4> QED  BY <1>1, <1>2, <2>1, <2>2, <3>1, <3>3, <3>4, <4>1 DEF Numbers, Readable
        <3>5. CASE o # "refused"
            <4>1. SaleOf(e)' /\ At("answer")' /\ job'.status = "ACC"
                BY <1>1, <1>4, <3>1, <3>5 DEF SaleOf, At
            <4>2. res'[e] = Torn \/ res'[e] = sold[e] + leaked[e] + job.seats
                BY <3>1, <3>2, <3>5
            <4>3. res'[e] # NoFile
                BY <3>1, <3>5, DiskAssumption
            <4>4. Readable(e)'
                BY <1>1, <2>1 DEF Readable
            <4> QED  BY <1>1, <3>3, <4>1, <4>2, <4>3, <4>4 DEF Numbers
        <3> QED  BY <3>4, <3>5
    <2> QED  BY <2>3, <2>4, SaleStepEffect
<1> QED  BY <1>3, <1>4

-----------------------------------------------------------------------------
(* The reservation files *)

LEMMA CreateStepsKeepLedgers ==
    ASSUME Shapes, EventInv, NEW o \in Outcomes, FileOperation(o), job.rsp = "RCE"
    PROVE  /\ marred \subseteq marred'
           /\ \A b \in Bookings : b[1] \notin marred' => Ledgers(b)'
<1>1. /\ UNCHANGED <<sales, shared, eventRes, userRes>>
      /\ marred \subseteq marred'
    <2>1. CASE MakeEventDir(o) \/ MakeReservationsDir(o) \/ MakeDescriptionDir(o)
        BY <2>1 DEF MakeEventDir, MakeReservationsDir, MakeDescriptionDir, eventFiles, ghosts
    <2>2. CASE WriteStart(o) \/ WriteRes(o) \/ WriteDescription(o)
        BY <2>2 DEF WriteStart, WriteRes, WriteDescription, MarredBy
    <2>3. CASE WriteCreatedReference(o)
        BY <2>3 DEF WriteCreatedReference, ghosts
    <2> QED  BY <2>1, <2>2, <2>3, AccountMoves, EventMoves DEF FileOperation, Shapes
<1>2. \A e : ~SaleOf(e) /\ ~SaleOf(e)'
    BY StepKinds DEF SaleOf, SameRequest
<1> QED  BY <1>1, <1>2 DEF EventInv, Ledgers

LEMMA SaleStepsKeepLedgers ==
    ASSUME Shapes, EventInv, NEW o \in Outcomes, FileOperation(o), job.rsp = "RRI"
    PROVE  /\ marred \subseteq marred'
           /\ \A b \in Bookings : b[1] \notin marred' => Ledgers(b)'
<1>1. /\ marred \subseteq marred'
      /\ job.eid \in EIDs /\ job.seats \in Nat /\ job'.rsp = "RRI"
      /\ job'.eid = job.eid /\ job'.seats = job.seats
      /\ Booking' = Booking /\ Booking \in Bookings /\ Booking[1] = job.eid
      /\ sales' = sales
    BY SaleStepEffect, WriteReservationEffect, WriteResEffect, BookingIsName
    DEF SameRequest, Booking, Mars, Shapes
<1> SUFFICES ASSUME NEW b \in Bookings, b[1] \notin marred' PROVE Ledgers(b)'
    BY <1>1
<1>2. b[1] \notin marred /\ Ledgers(b)
    BY <1>1 DEF EventInv
<1>3. CASE b # Booking
    <2>1. /\ eventRes'[b] = eventRes[b] /\ userRes'[b] = userRes[b]
          /\ b \in shared' <=> b \in shared
        <3>1. CASE WriteEventReservation(o)
            BY <1>3, <3>1, WriteReservationEffect DEF SharedBy
        <3>2. CASE WriteUserReservation(o)
            BY <1>3, <3>2, WriteReservationEffect
        <3>3. CASE WriteCounter(o)
            BY <3>3, WriteResEffect
        <3> QED  BY <3>1, <3>2, <3>3, SaleStepEffect
    <2> QED  BY <1>1, <1>2, <1>3, <2>1 DEF Ledgers
<1>4. CASE b = Booking
    <2>1. CASE WriteEventReservation(o)
        <3>1. /\ job.do = "eventReservation" /\ userRes' = userRes /\ o # "torn"
              /\ SharedBy(o) /\ job.seats # NoFile
              /\ o = "refused" => /\ job'.do = "answer" /\ job'.status = "ERR"
                                  /\ eventRes'[b] = eventRes[b]
              /\ o = "done" => job'.do = "userReservation" /\ eventRes'[b] = job.seats
            BY <1>1, <1>4, <2>1, WriteReservationEffect DEF Refused, Goes, Mars
        <3>2. CASE o = "refused"
            <4>1. ~SaleOf(b[1])' /\ shared' = shared
                BY <3>1, <3>2 DEF SaleOf, At, SharedBy
            <4> QED  BY <1>1, <1>2, <3>1, <3>2, <4>1 DEF Ledgers
        <3>3. CASE o = "done"
            <4>1. b \notin shared' => b \notin shared /\ eventRes[b] = NoFile
                BY <1>4, <3>1, <3>3 DEF SharedBy
            <4>2. b \notin shared' => sales[b] = NoFile /\ userRes[b] = NoFile
                BY <1>2, <4>1 DEF Ledgers
            <4> QED  BY <1>1, <3>1, <3>3, <4>2 DEF Ledgers
        <3> QED  BY <3>1, <3>2, <3>3 DEF Outcomes
    <2>2. CASE WriteUserReservation(o)
        <3>1. /\ job.do = "userReservation" /\ job'.do = "counter" /\ job.seats # NoFile
              /\ UNCHANGED <<eventRes, shared>>
              /\ userRes'[b] \in {userRes[b], Torn, job.seats}
            BY <1>4, <2>2, WriteReservationEffect
        <3>2. SaleOf(b[1]) /\ ~At("eventReservation")
            BY <1>1, <1>4, <3>1 DEF SaleOf, At
        <3>3. eventRes[b] = job.seats
            BY <1>2, <1>4, <3>2 DEF Ledgers
        <3> QED  BY <1>1, <1>2, <3>1, <3>3 DEF Ledgers
    <2>3. CASE WriteCounter(o)
        <3>1. /\ job.do = "counter" /\ SaleOf(b[1])
              /\ UNCHANGED <<eventRes, userRes, shared>>
            BY <1>1, <1>4, <2>3, WriteResEffect DEF SaleOf, At
        <3> QED  BY <1>1, <1>2, <1>4, <3>1 DEF Ledgers, At
    <2> QED  BY <2>1, <2>2, <2>3, SaleStepEffect
<1> QED  BY <1>3, <1>4

-----------------------------------------------------------------------------
(* The owner *)

LEMMA CreateStepsKeepPapers ==
    ASSUME Shapes, EventInv, NEW o \in Outcomes, FileOperation(o), job.rsp = "RCE",
           NEW e \in EIDs, e \notin marred'
    PROVE  Papers(e)'
<1>1. /\ job.eid \in EIDs /\ job.uid \in Users
      /\ job'.rsp = "RCE" /\ job'.eid = job.eid /\ job'.uid = job.uid
      /\ job'.fname = job.fname
    BY JobFields, StepKinds DEF EventResponses, Shapes, SameRequest
<1>2. Papers(e)
    BY CreateStepsKeepLedgers DEF EventInv
<1> USE DEF At
<1>3. CASE MakeEventDir(o) \/ MakeReservationsDir(o) \/ MakeDescriptionDir(o)
    <2>1. /\ UNCHANGED <<start, res, described, created, owner>>
          /\ job.do \in {"eventDir", "reservationsDir", "descriptionDir"}
          /\ \/ job'.do = "answer" /\ job'.status = "NOK"
             \/ job'.do \in {"reservationsDir", "descriptionDir", "start"}
        BY <1>3, EventMoves
        DEF MakeEventDir, MakeReservationsDir, MakeDescriptionDir, userFiles, eventFiles,
            ghosts, Moved, Shapes
    <2>2. ~Finished(e) /\ ~Finished(e)'
        BY <2>1 DEF Finished
    <2> QED  BY <1>2, <2>1, <2>2 DEF Papers, IsEventOwner, Readable
<1>4. CASE WriteStart(o)
    <2>1. /\ job.do = "start" /\ UNCHANGED <<res, described, created, owner>>
          /\ owner[job.eid] = NoUser
          /\ \A d \in EIDs \ {job.eid} : start'[d] = start[d]
          /\ \/ job'.do = "answer" /\ job'.status = "NOK"
             \/ job'.do = "res" /\ (job.eid = e => (Titled(job.uid, e) /\ start[e].fname = job.fname)')
        <3>1. /\ job.do = "start" /\ UNCHANGED <<res, described, created, owner>>
              /\ \A d \in EIDs \ {job.eid} : start'[d] = start[d]
              /\ Refused(o, "NOK") /\ Goes(o, "res")
              /\ o = "torn" => job.eid # e
            BY <1>4, WriteStartEffect DEF Mars
        <3>2. owner[job.eid] = NoUser
            BY <3>1 DEF EventInv, NewEvents, Untouched
        <3>3. o = "done" /\ job.eid = e => (Titled(job.uid, e) /\ start[e].fname = job.fname)'
            BY <1>1, <1>4, WriteStartEffect, EventFilesAreNotMarks DEF Titled, Readable
        <3> QED  BY <3>1, <3>2, <3>3 DEF Refused, Goes, Outcomes
    <2>2. ~Finished(e) /\ ~Finished(e)'
        BY <2>1 DEF Finished
    <2>3. CASE e # job.eid
        BY <1>1, <1>2, <2>1, <2>2, <2>3 DEF Papers, IsEventOwner, Readable
    <2>4. CASE e = job.eid
        BY <1>1, <1>2, <2>1, <2>2, <2>4 DEF Papers
    <2> QED  BY <2>3, <2>4
<1>5. CASE WriteRes(o)
    <2>1. /\ job.do = "res" /\ UNCHANGED <<start, described, created, owner>>
          /\ res[job.eid] = NoFile
          /\ \A d \in EIDs \ {job.eid} : res'[d] = res[d]
          /\ \/ job'.do = "answer" /\ job'.status = "NOK" /\ res'[job.eid] = res[job.eid]
             \/ job'.do = "description" /\ (job.eid = e => res'[e] # NoFile)
        BY <1>5, WriteResEffect, DiskAssumption
        DEF EventInv, NewEvents, Refused, Goes, Mars, Outcomes
    <2>2. ~Finished(e) /\ ~Finished(e)'
        BY <2>1 DEF Finished
    <2>3. CASE e # job.eid
        BY <1>1, <1>2, <2>1, <2>2, <2>3 DEF Papers, IsEventOwner, Readable
    <2>4. CASE e = job.eid
        BY <1>1, <1>2, <2>1, <2>2, <2>4 DEF Papers, Titled, Readable
    <2> QED  BY <2>3, <2>4
<1>6. CASE WriteDescription(o)
    <2>1. /\ job.do = "description" /\ job.status = "OK"
          /\ UNCHANGED <<start, res, created, owner>>
          /\ \/ job'.do = "answer" /\ job'.status = "NOK" /\ described' = described
             \/ /\ job'.do = "createdReference" /\ job'.status = "OK"
                /\ job.eid = e => described' = described \cup {e}
                /\ job.eid # e => described' \subseteq described \cup {job.eid}
          /\ described \subseteq described'
        BY <1>6, WriteDescriptionEffect DEF EventInv, NewEvents, Mars, Outcomes
    <2>2. ~Finished(e) /\ (Finished(e)' <=> e = job.eid /\ job'.do = "createdReference")
        BY <1>1, <2>1 DEF Finished
    <2> QED  BY <1>1, <1>2, <2>1, <2>2 DEF Papers, IsEventOwner, Readable, Titled
<1>7. CASE WriteCreatedReference(o)
    <2>1. /\ job.do = "createdReference" /\ job.status = "OK"
          /\ job'.do = "answer" /\ job'.status = "OK"
          /\ UNCHANGED <<start, res, described, owner>>
          /\ \A u \in Users : e # job.eid => (e \in created'[u] <=> e \in created[u])
        BY <1>7, WriteCreatedReferenceEffect DEF EventInv, NewEvents
    <2>2. (Finished(e) <=> e = job.eid) /\ (Finished(e)' <=> e = job.eid)
        BY <1>1, <2>1 DEF Finished
    <2> QED  BY <1>1, <1>2, <2>1, <2>2 DEF Papers, IsEventOwner, Readable
<1> QED  BY <1>3, <1>4, <1>5, <1>6, <1>7, AccountMoves, EventMoves DEF FileOperation, Shapes

LEMMA SaleStepsKeepPapers ==
    ASSUME Shapes, EventInv, NEW o \in Outcomes, FileOperation(o), job.rsp = "RRI",
           NEW e \in EIDs, e \notin marred'
    PROVE  Papers(e)'
<1>1. /\ job'.rsp = "RRI" /\ job.do \in SaleSteps /\ job'.do \in SaleSteps \cup {"answer"}
      /\ UNCHANGED <<start, described, created, owner>>
    BY SaleStepEffect, WriteReservationEffect, WriteResEffect
    DEF SaleSteps, SameRequest, Refused, Goes
<1>2. res'[e] = res[e] \/ res'[e] # NoFile
    BY SaleStepEffect, WriteReservationEffect, WriteResEffect, DiskAssumption DEF Outcomes, Mars
<1>3. Papers(e)
    BY SaleStepsKeepLedgers DEF EventInv
<1>4. ~Finished(e) /\ ~Finished(e)'
    BY <1>1 DEF Finished
<1> QED  BY <1>1, <1>2, <1>3, <1>4 DEF Papers, IsEventOwner, Readable, Titled, At, SaleSteps

-----------------------------------------------------------------------------
(* The steps that are not file operations *)

LEMMA NewRequestsKeepEvents == ASSUME Shapes, EventInv, NewRequest PROVE EventInv'
<1>1. UNCHANGED eventState /\ job = NoJob /\ Admitted' /\ JobOK'
    BY DEF NewRequest, eventState, eventFiles, ghosts
<1>2. NeitherCreateNorSale
    BY <1>1 DEF NeitherCreateNorSale, OwnStep, NoJob, Job
<1>3. CASE job'.rsp \notin {"RCE", "RRI"}
    BY <1>1, <1>2, <1>3, OwnSteps, QuietSteps DEF NeitherCreateNorSale
<1> USE DEF eventState, At
<1>4. \A e : ~SaleOf(e) /\ ~Finished(e)
    BY <1>2 DEF NeitherCreateNorSale, SaleOf, Finished
<1>5. CASE job'.rsp = "RCE"
    <2>1. job'.do = "eventDir" /\ job'.status = "OK" /\ job'.eid \notin eventDir'
        BY <1>1, <1>5 DEF Admitted
    <2>2. \A e : ~SaleOf(e)' /\ ~Finished(e)'
        BY <1>5, <2>1 DEF SaleOf, Finished
    <2>3. NewEvents' /\ References'
        BY <1>1, <2>1 DEF EventInv, NewEvents, References, Untouched, Titled, Readable, Made
    <2>4. ASSUME NEW e \in EIDs PROVE Numbers(e)'
        BY <1>1, <1>4, <2>2 DEF EventInv, Numbers, Readable
    <2>5. ASSUME NEW e \in EIDs \ marred' PROVE Papers(e)'
        BY <1>1, <1>4, <2>1, <2>2 DEF EventInv, Papers, IsEventOwner, Readable
    <2>6. ASSUME NEW b \in Bookings, b[1] \notin marred' PROVE Ledgers(b)'
        BY <1>1, <1>4, <2>1, <2>2, <2>6 DEF EventInv, Ledgers
    <2> QED  BY <2>3, <2>4, <2>5, <2>6 DEF EventInv
<1>6. CASE job'.rsp = "RRI"
    <2>1. /\ job'.do = "eventReservation" /\ job'.status = "ACC"
          /\ Readable(job'.eid) /\ res[job'.eid] # Torn
          /\ Reserved(job'.eid) + job'.seats <= start[job'.eid].seats
        BY <1>1, <1>6 DEF Admitted, Readable, Reserved
    <2>2. \A e : ~Finished(e)'
        BY <1>6 DEF Finished
    <2>3. NewEvents' /\ References'
        BY <1>1, <1>6, <2>1 DEF EventInv, NewEvents, References, Untouched, Titled, Readable, Made
    <2>4. ASSUME NEW e \in EIDs PROVE Numbers(e)'
        <3>1. Numbers(e) /\ sold[e] \in Nat /\ leaked[e] \in Nat
            BY DEF EventInv, Shapes, GhostsOK
        <3>2. SaleOf(e)' <=> e = job'.eid
            BY <1>6, <2>1 DEF SaleOf
        <3>3. CASE e # job'.eid
            BY <1>1, <1>4, <3>1, <3>2, <3>3 DEF Numbers, Readable
        <3>4. CASE e = job'.eid
            <4>1. Reserved(e) = sold[e] + leaked[e]
                BY <1>4, <2>1, <3>1, <3>4 DEF Numbers, Reserved
            <4> QED  BY <1>1, <1>4, <2>1, <3>1, <3>2, <3>4, <4>1 DEF Numbers, Readable
        <3> QED  BY <3>3, <3>4
    <2>5. ASSUME NEW e \in EIDs \ marred' PROVE Papers(e)'
        BY <1>1, <1>4, <2>1, <2>2 DEF EventInv, Papers, IsEventOwner, Readable
    <2>6. ASSUME NEW b \in Bookings, b[1] \notin marred' PROVE Ledgers(b)'
        BY <1>1, <1>4, <2>1, <2>2, <2>6 DEF EventInv, Ledgers
    <2> QED  BY <2>3, <2>4, <2>5, <2>6 DEF EventInv
<1> QED  BY <1>3, <1>5, <1>6

\* An answer or a stop leaves the files as they are.
LEMMA EndsKeepEvents == ASSUME Shapes, EventInv, SendAnswer \/ Stop PROVE EventInv'
<1>1. /\ UNCHANGED <<eventDir, start, res, described, created, eventRes, userRes>>
      /\ job # NoJob /\ job'.do = "none" /\ job'.rsp = "none"
      /\ marred \subseteq marred'
    BY JobFields DEF SendAnswer, Stop, eventFiles, NoJob, Job, At, Shapes
<1>2. /\ job.rsp \in EventResponses => job.eid \in EIDs
      /\ job.rsp = "RRI" => job.seats \in Nat
      /\ job.uid \in Users
    BY <1>1, JobFields, DiskAssumption DEF Shapes
<1>3. (\A e : ~SaleOf(e)' /\ ~Finished(e)') /\ ~Made'
    BY <1>1 DEF SaleOf, Finished, Made
<1> USE DEF At, Answered, EventResponses
<1>4. /\ \A e \in EIDs : owner'[e] = owner[e]
            \/ (e = job.eid /\ Finished(e) /\ Made /\ owner'[e] = job.uid)
      /\ \A e \in EIDs : Finished(e) => owner'[e] # NoUser \/ e \in marred'
    BY <1>2, DiskAssumption DEF SendAnswer, Stop, Finished, Made, Shapes, GhostsOK
<1>5. NewEvents' /\ References'
    <2>1. \A e \in EIDs \ eventDir' : Untouched(e)'
        BY <1>1, <1>4, MadeIsThere DEF EventInv, NewEvents, Untouched
    <2>2. References'
        BY <1>1 DEF EventInv, References, Titled, Readable
    <2> QED  BY <1>1, <1>3, <2>1, <2>2 DEF NewEvents
<1>6. ASSUME NEW e \in EIDs
      PROVE  /\ Numbers(e)'
             /\ \/ sold'[e] = sold[e]
                \/ At("answer") /\ SaleOf(e) /\ sold'[e] = sold[e] + job.seats
    <2>1. Numbers(e) /\ sold[e] \in Nat /\ leaked[e] \in Nat
        BY DEF EventInv, Shapes, GhostsOK
    <2>2. \/ /\ At("answer") /\ SaleOf(e)
             /\ sold'[e] + leaked'[e] = sold[e] + leaked[e] + job.seats
             /\ sold'[e] \in {sold[e], sold[e] + job.seats}
          \/ /\ ~(At("answer") /\ SaleOf(e))
             /\ sold'[e] = sold[e] /\ leaked'[e] = leaked[e]
        BY <1>2, <2>1 DEF SendAnswer, Stop, SaleOf, Shapes, GhostsOK
    <2>3. start'[e] = start[e] /\ res'[e] = res[e] /\ ~SaleOf(e)' /\ (Readable(e)' <=> Readable(e))
        BY <1>1, <1>3 DEF Readable
    <2>4. SaleOf(e) => job.seats \in Nat /\ Readable(e) /\ (At("answer") => res[e] # NoFile)
        BY <1>2, <2>1 DEF SaleOf, Numbers
    <2>5. Readable(e) => start[e].seats \in Nat
        BY DiskAssumption DEF Readable, Shapes, TypeOK, EventFile
    <2>6. sold'[e] \in Nat /\ leaked'[e] \in Nat
        BY <1>2, <2>1, ShapesKept DEF Shapes, GhostsOK, Next
    <2>7. CASE At("answer") /\ SaleOf(e)
        BY <2>1, <2>2, <2>3, <2>4, <2>5, <2>6, <2>7 DEF Numbers
    <2>8. CASE ~(At("answer") /\ SaleOf(e))
        BY <2>1, <2>2, <2>3, <2>4, <2>5, <2>6, <2>8 DEF Numbers
    <2> QED  BY <2>2, <2>7, <2>8
<1>7. ASSUME NEW b \in Bookings, b[1] \notin marred' PROVE Ledgers(b)'
    <2>1. Ledgers(b) /\ ~SaleOf(b[1])'
        BY <1>1, <1>3, <1>7 DEF EventInv
    <2>2. shared' = shared
        BY DEF SendAnswer, Stop
    <2>3. \/ sales'[b] = sales[b]
          \/ b = Booking /\ At("answer") /\ SaleOf(b[1]) /\ sales'[b] = job.seats
        <3>1. job.rsp = "RRI" => Booking \in Bookings /\ Booking[1] = job.eid
            BY BookingIsName DEF Shapes
        <3> QED  BY <3>1 DEF SendAnswer, Stop, SaleOf, Shapes, GhostsOK
    <2>4. CASE sales'[b] = sales[b]
        BY <1>1, <2>1, <2>2, <2>4 DEF Ledgers
    <2>5. CASE b = Booking /\ At("answer") /\ SaleOf(b[1]) /\ sales'[b] = job.seats
        <3>1. eventRes[b] = job.seats
            BY <2>1, <2>5 DEF Ledgers
        <3>2. job.seats # NoFile
            BY <2>5, JobFields, DiskAssumption DEF SaleOf, Shapes
        <3> QED  BY <1>1, <2>1, <2>2, <2>5, <3>1, <3>2 DEF Ledgers
    <2> QED  BY <2>3, <2>4, <2>5
<1>8. ASSUME NEW e \in EIDs \ marred' PROVE Papers(e)'
    <2>1. Papers(e)
        BY <1>1 DEF EventInv
    <2> QED  BY <1>1, <1>2, <1>3, <1>4, <2>1, DiskAssumption DEF Papers, IsEventOwner, Readable
<1> QED  BY <1>5, <1>6, <1>7, <1>8 DEF EventInv

-----------------------------------------------------------------------------
(* The invariant, and what it says *)

LEMMA EventInvKept == ASSUME Shapes, EventInv, [Next]_vars PROVE EventInv'
<1>1. Shapes'
    BY ShapesKept
<1>2. ASSUME NEW o \in Outcomes, FileOperation(o) PROVE EventInv'
    <2>1. CASE job.rsp = "RCE"
        BY <1>2, <2>1, CreateStepsKeepNewEvents, CreateStepsKeepNumbers,
           CreateStepsKeepLedgers, CreateStepsKeepPapers DEF EventInv
    <2>2. CASE job.rsp = "RRI"
        BY <1>2, <2>2, SaleStepsKeepNewEvents, SaleStepsKeepNumbers,
           SaleStepsKeepLedgers, SaleStepsKeepPapers DEF EventInv
    <2>3. CASE job.rsp \notin {"RCE", "RRI"}
        <3>1. job.rsp \in AccountResponses \/ WriteEnd(o)
            BY <1>2, <2>3, AccountMoves, EventMoves DEF FileOperation, Shapes, AccountResponses
        <3> QED  BY <1>1, <1>2, <3>1, AccountStepsQuiet, QuietSteps
    <2> QED  BY <2>1, <2>2, <2>3
<1>3. CASE UNCHANGED vars
    <2>1. UNCHANGED <<eventFiles, ghosts, job>>
        BY <1>3 DEF vars
    <2>2. NewEvents'
        <3> USE <2>1 DEF eventFiles, ghosts
        <3>1. \A e : Untouched(e)' <=> Untouched(e)
            BY DEF Untouched
        <3>2. /\ Made' <=> Made
              /\ \A u, e : Titled(u, e)' <=> Titled(u, e)
              /\ \A step : At(step)' <=> At(step)
            BY DEF Made, Titled, Readable, At
        <3> QED  BY <3>1, <3>2 DEF EventInv, NewEvents, Untouched, Made, Titled, Readable, At
    <2>3. References'
        BY <2>1 DEF eventFiles, EventInv, References, Titled, Readable
    <2>4. \A e \in EIDs : Numbers(e)'
        BY <2>1 DEF eventFiles, ghosts, EventInv, Numbers, SaleOf, Made, Readable, At
    <2>5. \A b \in Bookings : b[1] \notin marred' => Ledgers(b)'
        BY <2>1 DEF eventFiles, ghosts, EventInv, Ledgers, SaleOf, At, Booking
    <2>6. \A e \in EIDs \ marred' : Papers(e)'
        BY <2>1 DEF eventFiles, ghosts, EventInv, Papers, Titled, Readable, Finished,
           IsEventOwner, At
    <2> QED  BY <2>2, <2>3, <2>4, <2>5, <2>6 DEF EventInv
<1> QED  BY <1>2, <1>3, NextCases, NewRequestsKeepEvents, EndsKeepEvents DEF Step

LEMMA InitInv == Init => DiskInv
<1> SUFFICES ASSUME Init PROVE DiskInv
    OBVIOUS
<1>1. Shapes
    BY DiskAssumption DEF Init, Shapes, TypeOK, GhostsOK, JobOK
<1>2. AccountInv
    BY DiskAssumption
    DEF Init, AccountInv, SessionsHaveAccounts, At, Expected, Answered, NoJob, Job
<1>3. EventInv
    BY DiskAssumption
    DEF Init, EventInv, NewEvents, References, Numbers, Ledgers, Papers, Untouched, Titled,
        Readable, Made, SaleOf, Finished, IsEventOwner, At, NoJob, Job
<1> QED  BY <1>1, <1>2, <1>3 DEF DiskInv

\* DiskInv holds after every file operation, every fault and every stop, for any
\* number of users, events and faults.
THEOREM DiskInvSafe == Spec => []DiskInv
<1>1. DiskInv /\ [Next]_vars => DiskInv'
    BY ShapesKept, AccountInvKept, EventInvKept DEF DiskInv
<1> QED  BY <1>1, InitInv, PTL DEF Spec

\* Every file is missing, empty or what the code writes, whatever fails.
THEOREM DiskTypeSafe == Spec => []TypeOK
<1>1. DiskInv => TypeOK
    BY DEF DiskInv, Shapes
<1> QED  BY <1>1, DiskInvSafe, PTL

\* No fault, and no stop at any step, makes the server sell more seats than there are.
THEOREM NeverOversoldSafe == Spec => []NeverOversold
<1>1. DiskInv => NeverOversold
    <2> SUFFICES ASSUME DiskInv, NEW e \in EIDs, sold[e] > 0
                 PROVE  Readable(e) /\ sold[e] <= start[e].seats
        BY DEF NeverOversold
    <2>1. Numbers(e) /\ sold[e] \in Nat /\ leaked[e] \in Nat
        BY DEF DiskInv, EventInv, Shapes, GhostsOK
    <2>2. Readable(e)
        BY <2>1 DEF Numbers
    <2>3. start[e].seats \in Nat
        BY <2>2, DiskAssumption DEF DiskInv, Shapes, TypeOK, Readable, EventFile
    <2>4. SaleOf(e) => job.seats \in Nat
        BY JobFields, DiskAssumption DEF DiskInv, Shapes, SaleOf
    <2> QED  BY <2>1, <2>2, <2>3, <2>4 DEF Numbers
<1> QED  BY <1>1, DiskInvSafe, PTL

\* Between two requests RES, when it can be read, is exact.
THEOREM CounterExactSafe == Spec => []CounterExact
<1>1. DiskInv => CounterExact
    BY DEF DiskInv, EventInv, Shapes, GhostsOK, CounterExact, Numbers, SaleOf, NoJob, Job
<1> QED  BY <1>1, DiskInvSafe, PTL

\* Every booking that was told ACC is in the event's files under its name, and with its
\* seats if no other booking has that name: create_reservation, event_database.c:378.
THEOREM FilesCoverSalesSafe == Spec => []FilesCoverSales
<1>1. DiskInv => FilesCoverSales
    BY DEF DiskInv, EventInv, Ledgers, FilesCoverSales
<1> QED  BY <1>1, DiskInvSafe, PTL

\* Whoever was told that an event is theirs owns it.
THEOREM TellsOwnEventsSafe == Spec => []TellsOwnEvents
<1>1. DiskInv => TellsOwnEvents
    BY DEF DiskInv, EventInv, TellsOwnEvents, Papers
<1> QED  BY <1>1, DiskInvSafe, PTL

\* An event whose CRE was refused is nobody's.
THEOREM RefusedEventsUnownedSafe == Spec => []RefusedEventsUnowned
<1>1. DiskInv => RefusedEventsUnowned
    BY DEF DiskInv, EventInv, RefusedEventsUnowned, Papers, Finished, IsEventOwner, NoJob, Job
<1> QED  BY <1>1, DiskInvSafe, PTL

\* A reference in CREATED is to an event of that user.
THEOREM CreatedRefsSafe == Spec => []CreatedRefsTrue
<1>1. DiskInv => CreatedRefsTrue
    BY DEF DiskInv, EventInv, CreatedRefsTrue, References, Titled, Readable
<1> QED  BY <1>1, DiskInvSafe, PTL

\* Nobody is logged in without an account, at any step.
THEOREM SessionsHaveAccountsSafe == Spec => []SessionsHaveAccounts
<1>1. DiskInv => SessionsHaveAccounts
    BY DEF DiskInv, AccountInv
<1> QED  BY <1>1, DiskInvSafe, PTL

\* The password file holds what its user was told.
THEOREM ToldPasswordSafe == Spec => []ToldPasswordKept
<1>1. DiskInv => ToldPasswordKept
    <2> SUFFICES ASSUME DiskInv, job = NoJob, NEW u \in Users \ doubt
                 PROVE  password[u] = told[u]
        BY DEF ToldPasswordKept
    <2>1. password[u] = Expected(u)
        BY DEF DiskInv, AccountInv
    <2>2. job.do = "none"
        BY DEF NoJob, Job
    <2> QED  BY <2>1, <2>2 DEF Expected, At
<1> QED  BY <1>1, DiskInvSafe, PTL

-----------------------------------------------------------------------------
(* What a fault can spoil *)

\* This event is being created, and nothing has been refused so far.
Hopeful(e) == Answered("RCE", "OK") /\ job.eid = e

\* This event is on sale and nobody's, and its Fname is the reason.
OnSaleMisnamed(e) == Misnamed(e) /\ res[e] # NoFile

\* The events that a fault has touched: a file of theirs is empty, a booking of theirs
\* was cut off, or their number is used up for an event that is nobody's.
Spoilt ==
    {e \in EIDs : \/ e \in marred
                  \/ leaked[e] > 0
                  \/ /\ e \in eventDir /\ owner[e] = NoUser
                     /\ ~Hopeful(e) /\ ~OnSaleMisnamed(e)}

TornIsMarred == \A e \in EIDs : res[e] = Torn => e \in marred

LossesInv ==
    /\ TornIsMarred
    /\ IsFiniteSet(doubt)
    /\ Cardinality(doubt) + Cardinality(Spoilt) <= faults

\* No file operation says anything of an event but the one of its request.
LEMMA FileOperationTouchesItsEvent ==
    ASSUME DiskInv, NEW o \in Outcomes, FileOperation(o)
    PROVE  /\ UNCHANGED <<owner, leaked>>
           /\ marred \subseteq marred'
           /\ marred' \subseteq marred \cup {job.eid}
           /\ o = "done" => marred' = marred
           /\ eventDir' \subseteq eventDir \cup {job.eid}
           /\ job.rsp # "RCE" => eventDir' = eventDir
<1> USE DEF DiskInv, Shapes
<1>1. CASE \/ MakeUserDir(o) \/ MakeCreatedDir(o) \/ MakeReservedDir(o)
           \/ WritePassword(o) \/ WriteLogin(o) \/ EraseLogin(o) \/ ErasePassword(o)
    BY <1>1 DEF MakeUserDir, MakeCreatedDir, MakeReservedDir, WritePassword, WriteLogin,
       EraseLogin, ErasePassword, eventFiles, ghosts
<1>2. CASE MakeEventDir(o) \/ MakeReservationsDir(o) \/ MakeDescriptionDir(o)
    BY <1>2, EventMoves DEF MakeEventDir, MakeReservationsDir, MakeDescriptionDir, eventFiles, ghosts
<1>3. CASE WriteStart(o) \/ WriteRes(o) \/ WriteDescription(o) \/ WriteCreatedReference(o)
    BY <1>3 DEF WriteStart, WriteRes, WriteDescription, WriteCreatedReference, MarredBy, ghosts
<1>4. CASE \/ WriteEventReservation(o) \/ WriteUserReservation(o) \/ WriteCounter(o)
           \/ WriteEnd(o)
    BY <1>4 DEF WriteEventReservation, WriteUserReservation, WriteCounter, WriteEnd, MarredBy, ghosts
<1> QED  BY <1>1, <1>2, <1>3, <1>4 DEF FileOperation

\* A RES that was emptied is the one of the event that is marred then.
LEMMA TornIsMarredKept ==
    ASSUME DiskInv, TornIsMarred, [Next]_vars
    PROVE  TornIsMarred'
<1> USE DEF TornIsMarred
<1>1. ASSUME NEW o \in Outcomes, WriteRes(o) \/ WriteCounter(o)
      PROVE  TornIsMarred'
    <2>1. /\ job.eid \in EIDs /\ Mars(o) /\ Count \in Nat
          /\ \A d \in EIDs \ {job.eid} : res'[d] = res[d]
          /\ o = "refused" => res'[job.eid] = res[job.eid]
          /\ o = "done" => res'[job.eid] = Count
        BY <1>1, WriteResEffect DEF DiskInv
    <2>2. Count # Torn
        BY <2>1, DiskAssumption
    <2>3. o \in {"done", "refused", "torn"}
        BY DEF Outcomes
    <2> QED  BY <2>1, <2>2, <2>3 DEF Mars
<1>2. ASSUME NEW o \in Outcomes, FileOperation(o), ~WriteRes(o), ~WriteCounter(o)
      PROVE  TornIsMarred'
    <2>1. res' = res
        BY <1>2 DEF FileOperation, MakeUserDir, MakeCreatedDir, MakeReservedDir, WritePassword,
           WriteLogin, EraseLogin, ErasePassword, MakeEventDir, MakeReservationsDir,
           MakeDescriptionDir, WriteStart, WriteDescription, WriteCreatedReference,
           WriteEventReservation, WriteUserReservation, WriteEnd, eventFiles
    <2>2. marred \subseteq marred'
        BY <1>2, FileOperationTouchesItsEvent
    <2> QED  BY <2>1, <2>2
<1>3. CASE NewRequest \/ SendAnswer \/ Stop \/ UNCHANGED vars
    BY <1>3 DEF NewRequest, SendAnswer, Stop, vars, eventFiles, ghosts
<1> QED  BY <1>1, <1>2, <1>3, NextCases DEF DiskInv, Step

\* START, once it can be read, and RES, once it is there, are not taken away.
LEMMA MisnamedKept ==
    ASSUME DiskInv, NEW o \in Outcomes, FileOperation(o)
    PROVE  /\ \A e \in EIDs \ {job.eid} : OnSaleMisnamed(e)' <=> OnSaleMisnamed(e)
           /\ \A e \in EIDs : OnSaleMisnamed(e) => OnSaleMisnamed(e)'
<1> USE DEF OnSaleMisnamed, Misnamed, Readable
<1>1. CASE WriteStart(o)
    <2>1. /\ res' = res /\ start[job.eid] = NoFile
          /\ \A e \in EIDs \ {job.eid} : start'[e] = start[e]
        BY <1>1, WriteStartEffect DEF DiskInv, EventInv, NewEvents, Untouched
    <2> QED  BY <2>1
<1>2. CASE WriteRes(o) \/ WriteCounter(o)
    <2>1. /\ start' = start
          /\ \A e \in EIDs \ {job.eid} : res'[e] = res[e]
          /\ res'[job.eid] = res[job.eid] \/ res'[job.eid] # NoFile
        BY <1>2, WriteResEffect, DiskAssumption DEF DiskInv, Outcomes
    <2> QED  BY <2>1
<1>3. CASE ~WriteStart(o) /\ ~WriteRes(o) /\ ~WriteCounter(o)
    <2>1. UNCHANGED <<start, res>>
        BY <1>3 DEF FileOperation, MakeUserDir, MakeCreatedDir, MakeReservedDir, WritePassword,
           WriteLogin, EraseLogin, ErasePassword, MakeEventDir, MakeReservationsDir,
           MakeDescriptionDir, WriteDescription, WriteCreatedReference,
           WriteEventReservation, WriteUserReservation, WriteEnd, eventFiles
    <2> QED  BY <2>1
<1> QED  BY <1>1, <1>2, <1>3

\* A CRE that no fault has touched goes on, or leaves its event misnamed on sale.
LEMMA CreateGoesOn ==
    ASSUME DiskInv, FileOperation("done"), job.rsp = "RCE", job.eid \notin marred
    PROVE  job'.status = "OK" \/ OnSaleMisnamed(job.eid)
<1>1. Shapes /\ "done" \in Outcomes
    BY DEF DiskInv, Outcomes
<1>2. job.status = "OK"
    <2>1. ~At("answer")
        BY DEF FileOperation, MakeUserDir, MakeCreatedDir, MakeReservedDir, WritePassword,
           WriteLogin, EraseLogin, ErasePassword, MakeEventDir, MakeReservationsDir,
           MakeDescriptionDir, WriteStart, WriteRes, WriteDescription,
           WriteCreatedReference, WriteEventReservation, WriteUserReservation,
           WriteCounter, WriteEnd, At
    <2> QED  BY <2>1 DEF DiskInv, EventInv, NewEvents
<1>3. CASE WriteDescription("done")
    <2>1. job.eid \in EIDs /\ job.do = "description"
        BY <1>1, <1>3, WriteDescriptionEffect
    <2>2. CASE CanOpen(job.fname)
        BY <1>1, <1>2, <1>3, <2>2, WriteDescriptionEffect
    <2>3. CASE ~CanOpen(job.fname)
        <3>1. Papers(job.eid)
            BY <2>1 DEF DiskInv, EventInv
        <3>2. Readable(job.eid) /\ start[job.eid].fname = job.fname /\ res[job.eid] # NoFile
            BY <2>1, <3>1 DEF Papers, Titled, At
        <3> QED  BY <2>3, <3>2 DEF OnSaleMisnamed, Misnamed
    <2> QED  BY <2>2, <2>3
<1>4. CASE ~WriteDescription("done")
    <2>1. /\ ~(MakeUserDir("done") \/ MakeCreatedDir("done") \/ MakeReservedDir("done"))
          /\ ~(WritePassword("done") \/ WriteLogin("done"))
          /\ ~(EraseLogin("done") \/ ErasePassword("done"))
          /\ ~(WriteEventReservation("done") \/ WriteUserReservation("done"))
          /\ ~(WriteCounter("done") \/ WriteEnd("done"))
        BY <1>1, AccountMoves, EventMoves DEF AccountResponses, Shapes
    <2>2. \/ MakeEventDir("done") \/ MakeReservationsDir("done") \/ MakeDescriptionDir("done")
          \/ WriteStart("done") \/ WriteRes("done") \/ WriteCreatedReference("done")
        BY <1>4, <2>1 DEF FileOperation
    <2> QED  BY <1>1, <1>2, <2>2, EventMoves DEF Moved, Shapes
<1> QED  BY <1>3, <1>4

\* Either one user more is in doubt or one event more is spoilt, and neither when the
\* operation succeeds.
LEMMA FileOperationSpoilsOne ==
    ASSUME DiskInv, NEW o \in Outcomes, FileOperation(o)
    PROVE  /\ o = "done" => doubt' \subseteq doubt /\ Spoilt' \subseteq Spoilt
           /\ \/ doubt' \subseteq doubt \cup {job.uid} /\ Spoilt' \subseteq Spoilt
              \/ doubt' \subseteq doubt /\ Spoilt' \subseteq Spoilt \cup {job.eid}
<1>1. /\ SameRequest
      /\ job.rsp \in AccountResponses \cup EventResponses
      /\ o \in {"done", "refused", "torn"}
    BY StepKinds, JobFields DEF DiskInv, Shapes, Outcomes, AccountResponses, EventResponses
<1>2. CASE job.rsp \in AccountResponses
    <2>1. UNCHANGED <<eventDir, owner, leaked, marred>>
        BY <1>2, StepKinds DEF DiskInv
    <2>2. \A e : ~Hopeful(e) /\ ~Hopeful(e)'
        BY <1>1, <1>2 DEF Hopeful, Answered, SameRequest, AccountResponses
    <2>3. Spoilt' \subseteq Spoilt
        BY <2>1, <2>2, MisnamedKept DEF Spoilt
    <2>4. /\ doubt' \subseteq doubt \cup {job.uid}
          /\ o = "done" => doubt' \subseteq doubt
        BY <1>1 DEF FileOperation, MakeUserDir, MakeCreatedDir, MakeReservedDir, WritePassword,
           WriteLogin, EraseLogin, ErasePassword, MakeEventDir, MakeReservationsDir,
           MakeDescriptionDir, WriteStart, WriteRes, WriteDescription, WriteCreatedReference,
           WriteEventReservation, WriteUserReservation, WriteCounter, WriteEnd, ghosts
    <2> QED  BY <2>3, <2>4
<1>3. CASE job.rsp \in EventResponses
    <2>1. doubt' = doubt
        BY <1>3, StepKinds DEF DiskInv
    <2>2. /\ UNCHANGED <<owner, leaked>>
          /\ marred' \subseteq marred \cup {job.eid}
          /\ o = "done" => marred' = marred
          /\ eventDir' \subseteq eventDir \cup {job.eid}
          /\ job.rsp # "RCE" => eventDir' = eventDir
        BY FileOperationTouchesItsEvent
    <2>3. \A e \in EIDs \ {job.eid} : ~Hopeful(e) /\ ~Hopeful(e)'
        BY <1>1 DEF Hopeful, SameRequest
    <2>4. Spoilt' \subseteq Spoilt \cup {job.eid}
        BY <2>2, <2>3, MisnamedKept DEF Spoilt
    <2>5. ASSUME o = "done" PROVE Spoilt' \subseteq Spoilt
        <3>1. ASSUME NEW e \in EIDs, e \in Spoilt', e # job.eid PROVE e \in Spoilt
            BY <2>2, <2>3, <2>5, <3>1, MisnamedKept DEF Spoilt
        <3>2. ASSUME NEW e \in EIDs, e = job.eid, e \in Spoilt' PROVE e \in Spoilt
            <4>1. CASE e \in marred
                BY <4>1 DEF Spoilt
            <4>2. CASE e \notin marred /\ job.rsp = "RCE"
                <5>1. Hopeful(e)' \/ OnSaleMisnamed(e)
                    <6>1. job'.status = "OK" \/ OnSaleMisnamed(job.eid)
                        BY <2>5, <3>2, <4>2, CreateGoesOn
                    <6>2. job'.rsp = "RCE" /\ job'.eid = e
                        BY <1>1, <3>2, <4>2 DEF SameRequest
                    <6> QED  BY <3>2, <6>1, <6>2 DEF Hopeful, Answered
                <5>2. OnSaleMisnamed(e) => OnSaleMisnamed(e)'
                    BY MisnamedKept
                <5> QED  BY <2>2, <2>5, <3>2, <4>2, <5>1, <5>2 DEF Spoilt
            <4>3. CASE e \notin marred /\ job.rsp # "RCE"
                <5>1. ~Hopeful(e)
                    BY <4>3 DEF Hopeful, Answered
                <5>2. OnSaleMisnamed(e) => OnSaleMisnamed(e)'
                    BY MisnamedKept
                <5> QED  BY <2>2, <2>5, <3>2, <4>3, <5>1, <5>2 DEF Spoilt
            <4> QED  BY <4>1, <4>2, <4>3
        <3> QED  BY <3>1, <3>2 DEF Spoilt
    <2> QED  BY <2>1, <2>4, <2>5
<1> QED  BY <1>1, <1>2, <1>3

\* A stop is a fault like the others.
LEMMA StopSpoilsOne ==
    ASSUME DiskInv, Stop
    PROVE  \/ doubt' \subseteq doubt \cup {job.uid} /\ Spoilt' \subseteq Spoilt
           \/ doubt' \subseteq doubt /\ Spoilt' \subseteq Spoilt \cup {job.eid}
<1>1. /\ UNCHANGED <<eventDir, owner>>
      /\ job'.rsp = "none"
      /\ \A e : OnSaleMisnamed(e)' <=> OnSaleMisnamed(e)
    BY DEF Stop, eventFiles, NoJob, Job, OnSaleMisnamed, Misnamed, Readable
<1>2. \A e \in EIDs \ {job.eid} : ~Hopeful(e)
    BY DEF Hopeful
<1>3. CASE job.rsp \in {"RCE", "RRI"}
    <2>1. doubt' = doubt /\ marred' \subseteq marred \cup {job.eid}
        BY <1>3 DEF Stop
    <2>2. \A e \in EIDs \ {job.eid} : leaked'[e] = leaked[e]
        BY DEF Stop, DiskInv, Shapes, GhostsOK
    <2>3. Spoilt' \subseteq Spoilt \cup {job.eid}
        BY <1>1, <1>2, <2>1, <2>2 DEF Spoilt
    <2> QED  BY <2>1, <2>3
<1>4. CASE job.rsp \notin {"RCE", "RRI"}
    <2>1. UNCHANGED <<leaked, marred>> /\ doubt' \subseteq doubt \cup {job.uid}
        BY <1>4 DEF Stop, Answered
    <2>2. \A e : ~Hopeful(e)
        BY <1>4 DEF Hopeful, Answered
    <2>3. Spoilt' \subseteq Spoilt
        BY <1>1, <2>1, <2>2 DEF Spoilt
    <2> QED  BY <2>1, <2>3
<1> QED  BY <1>3, <1>4

\* Reading a request and answering it spoil nothing.
LEMMA OthersSpoilNothing ==
    ASSUME DiskInv, NewRequest \/ SendAnswer \/ UNCHANGED vars
    PROVE  doubt' = doubt /\ faults' = faults /\ Spoilt' \subseteq Spoilt
<1>1. /\ UNCHANGED <<doubt, faults, eventDir, leaked, marred>>
      /\ \A e : OnSaleMisnamed(e)' <=> OnSaleMisnamed(e)
    BY DEF NewRequest, SendAnswer, vars, eventFiles, ghosts, OnSaleMisnamed, Misnamed, Readable
<1>2. CASE NewRequest
    <2>1. owner' = owner /\ \A e : ~Hopeful(e)
        BY <1>2 DEF NewRequest, ghosts, Hopeful, Answered, NoJob, Job
    <2> QED  BY <1>1, <2>1 DEF Spoilt
<1>3. CASE SendAnswer
    <2>1. job.uid # NoUser
        BY <1>3, JobFields, DiskAssumption DEF SendAnswer, At, DiskInv, Shapes
    <2>2. \A e \in EIDs : owner'[e] = NoUser => owner[e] = NoUser /\ ~Hopeful(e)
        BY <1>3, <2>1 DEF SendAnswer, Hopeful, Answered, DiskInv, Shapes, GhostsOK
    <2> QED  BY <1>1, <2>2 DEF Spoilt
<1>4. CASE UNCHANGED vars
    <2>1. owner' = owner /\ \A e : Hopeful(e)' <=> Hopeful(e)
        BY <1>4 DEF Hopeful, Answered, vars, ghosts
    <2> QED  BY <1>1, <2>1 DEF Spoilt
<1> QED  BY <1>2, <1>3, <1>4

\* A set of no more elements, and one of one more at the most.
LEMMA NoMore ==
    ASSUME NEW S, NEW T, IsFiniteSet(S), T \subseteq S
    PROVE  /\ IsFiniteSet(T)
           /\ Cardinality(S) \in Nat /\ Cardinality(T) \in Nat
           /\ Cardinality(T) <= Cardinality(S)
BY FS_Subset, FS_CardinalityType

LEMMA OneMore ==
    ASSUME NEW S, NEW T, NEW x, IsFiniteSet(S), T \subseteq S \cup {x}
    PROVE  /\ IsFiniteSet(T)
           /\ Cardinality(S) \in Nat /\ Cardinality(T) \in Nat
           /\ Cardinality(T) <= Cardinality(S) + 1
<1>1. /\ IsFiniteSet(S \cup {x})
      /\ Cardinality(S \cup {x}) <= Cardinality(S) + 1
      /\ Cardinality(S) \in Nat
    BY FS_AddElement, FS_CardinalityType
<1>2. /\ IsFiniteSet(T)
      /\ Cardinality(T) <= Cardinality(S \cup {x})
      /\ Cardinality(T) \in Nat /\ Cardinality(S \cup {x}) \in Nat
    BY <1>1, NoMore
<1> QED  BY <1>1, <1>2

LEMMA SpoiltFinite == IsFiniteSet(Spoilt) /\ Cardinality(Spoilt) \in Nat
<1>1. IsFiniteSet(EIDs)
    BY FS_Interval, DiskAssumption DEF EIDs
<1>2. Spoilt \subseteq EIDs
    BY DEF Spoilt
<1> QED  BY <1>1, <1>2, FS_Subset, FS_CardinalityType

LEMMA LossesInvKept == ASSUME DiskInv, LossesInv, [Next]_vars PROVE LossesInv'
<1>1. faults \in Nat /\ IsFiniteSet(Spoilt) /\ IsFiniteSet(doubt)
    BY SpoiltFinite DEF DiskInv, Shapes, TypeOK, LossesInv
<1> DEFINE Grows == \/ doubt' \subseteq doubt \cup {job.uid} /\ Spoilt' \subseteq Spoilt
                    \/ doubt' \subseteq doubt /\ Spoilt' \subseteq Spoilt \cup {job.eid}
           Stays == doubt' \subseteq doubt /\ Spoilt' \subseteq Spoilt
<1>2. (Stays /\ faults' = faults) \/ (Grows /\ faults' = faults + 1)
    <2>1. ASSUME NEW o \in Outcomes, FileOperation(o), faults' = faults + (IF o = "done" THEN 0 ELSE 1)
          PROVE  (Stays /\ faults' = faults) \/ (Grows /\ faults' = faults + 1)
        BY <1>1, <2>1, FileOperationSpoilsOne
    <2>2. Stop => Grows /\ faults' = faults + 1
        BY StopSpoilsOne DEF Stop
    <2>3. NewRequest \/ SendAnswer \/ UNCHANGED vars => Stays /\ faults' = faults
        BY OthersSpoilNothing
    <2> QED  BY <2>1, <2>2, <2>3, NextCases DEF DiskInv, Step
<1>3. IsFiniteSet(doubt') /\ Cardinality(doubt') + Cardinality(Spoilt') <= faults'
    <2>1. Cardinality(doubt) + Cardinality(Spoilt) <= faults
        BY DEF LossesInv
    <2>2. CASE Stays /\ faults' = faults
        <3>1. /\ IsFiniteSet(doubt') /\ Cardinality(doubt) \in Nat /\ Cardinality(doubt') \in Nat
              /\ Cardinality(doubt') <= Cardinality(doubt)
            BY <1>1, <2>2, NoMore
        <3>2. /\ Cardinality(Spoilt) \in Nat /\ Cardinality(Spoilt') \in Nat
              /\ Cardinality(Spoilt') <= Cardinality(Spoilt)
            BY <1>1, <2>2, NoMore
        <3> QED  BY <1>1, <2>1, <2>2, <3>1, <3>2
    <2>3. CASE /\ doubt' \subseteq doubt \cup {job.uid} /\ Spoilt' \subseteq Spoilt
               /\ faults' = faults + 1
        <3>1. /\ IsFiniteSet(doubt') /\ Cardinality(doubt) \in Nat /\ Cardinality(doubt') \in Nat
              /\ Cardinality(doubt') <= Cardinality(doubt) + 1
            BY <1>1, <2>3, OneMore
        <3>2. /\ Cardinality(Spoilt) \in Nat /\ Cardinality(Spoilt') \in Nat
              /\ Cardinality(Spoilt') <= Cardinality(Spoilt)
            BY <1>1, <2>3, NoMore
        <3> QED  BY <1>1, <2>1, <2>3, <3>1, <3>2
    <2>4. CASE /\ doubt' \subseteq doubt /\ Spoilt' \subseteq Spoilt \cup {job.eid}
               /\ faults' = faults + 1
        <3>1. /\ IsFiniteSet(doubt') /\ Cardinality(doubt) \in Nat /\ Cardinality(doubt') \in Nat
              /\ Cardinality(doubt') <= Cardinality(doubt)
            BY <1>1, <2>4, NoMore
        <3>2. /\ Cardinality(Spoilt) \in Nat /\ Cardinality(Spoilt') \in Nat
              /\ Cardinality(Spoilt') <= Cardinality(Spoilt) + 1
            BY <1>1, <2>4, OneMore
        <3> QED  BY <1>1, <2>1, <2>4, <3>1, <3>2
    <2> QED  BY <1>2, <2>2, <2>3, <2>4
<1> QED  BY <1>3, TornIsMarredKept DEF LossesInv

LEMMA InitLossesInv == Init => LossesInv
<1> SUFFICES ASSUME Init PROVE LossesInv
    OBVIOUS
<1>1. TornIsMarred
    BY DiskAssumption DEF Init, TornIsMarred
<1>2. doubt = {} /\ Spoilt = {} /\ faults = 0
    BY DEF Init, Spoilt
<1> QED  BY <1>1, <1>2, FS_EmptySet DEF LossesInv

LEMMA LossesInvSafe == Spec => []LossesInv
BY InitLossesInv, LossesInvKept, DiskInvSafe, PTL DEF Spec

\* However many faults and stops there have been, at whatever step of write_password_file,
\* create_event, create_reservation and the rest, they have cost no more accounts and
\* events than they were.
THEOREM LossesWithinFaultsSafe == Spec => []LossesWithinFaults
<1>1. ASSUME DiskInv, LossesInv, job = NoJob
      PROVE  Cardinality({u \in Users : password[u] # told[u]})
                 + Cardinality({e \in eventDir : ~Whole(e)}) <= faults
    <2> DEFINE wrong == {u \in Users : password[u] # told[u]}
               broken == {e \in eventDir : ~Whole(e)}
    <2>1. job.rsp = "none" /\ job.do = "none"
        BY <1>1 DEF NoJob, Job
    <2>2. wrong \subseteq doubt
        BY <1>1, <2>1 DEF DiskInv, AccountInv, Expected, At
    <2>3. ASSUME NEW e \in eventDir, e \notin Spoilt
          PROVE  Whole(e)
        <3>1. e \in EIDs
            BY <1>1 DEF DiskInv, Shapes, TypeOK
        <3>2. /\ e \notin marred /\ ~(leaked[e] > 0)
              /\ owner[e] # NoUser \/ OnSaleMisnamed(e)
            BY <2>1, <2>3, <3>1 DEF Spoilt, Hopeful, Answered
        <3>3. IsEventOwner(owner[e], e) \/ Misnamed(e)
            BY <1>1, <3>1, <3>2 DEF DiskInv, EventInv, Papers, OnSaleMisnamed
        <3>4. res[e] # NoFile
            BY <1>1, <3>1, <3>2 DEF DiskInv, EventInv, Papers, OnSaleMisnamed
        <3>5. res[e] # Torn
            BY <1>1, <3>1, <3>2 DEF LossesInv, TornIsMarred
        <3>6. ~SaleOf(e)
            BY <2>1 DEF SaleOf
        <3>7. Numbers(e) /\ sold[e] \in Nat /\ leaked[e] \in Nat
            BY <1>1, <3>1 DEF DiskInv, EventInv, Shapes, GhostsOK
        <3>8. leaked[e] = 0
            BY <3>2, <3>7
        <3>9. res[e] = sold[e]
            BY <3>4, <3>5, <3>6, <3>7, <3>8 DEF Numbers
        <3>10. OnFile(e)
            <4> SUFFICES ASSUME NEW b \in Bookings, b[1] = e, sales[b] # NoFile
                         PROVE  eventRes[b] # NoFile /\ (b \in shared \/ eventRes[b] = sales[b])
                BY DEF OnFile
            <4>1. Ledgers(b)
                BY <1>1, <3>2 DEF DiskInv, EventInv
            <4> QED  BY <4>1 DEF Ledgers
        <3> QED  BY <3>3, <3>9, <3>10 DEF Whole
    <2>4. broken \subseteq Spoilt
        BY <2>3
    <2>5. IsFiniteSet(doubt) /\ IsFiniteSet(Spoilt) /\ faults \in Nat
          /\ Cardinality(doubt) + Cardinality(Spoilt) <= faults
        BY <1>1, SpoiltFinite DEF LossesInv, DiskInv, Shapes, TypeOK
    <2> HIDE DEF wrong, broken
    <2>6. /\ Cardinality(wrong) \in Nat /\ Cardinality(broken) \in Nat
          /\ Cardinality(doubt) \in Nat /\ Cardinality(Spoilt) \in Nat
          /\ Cardinality(wrong) <= Cardinality(doubt)
          /\ Cardinality(broken) <= Cardinality(Spoilt)
        BY <2>2, <2>4, <2>5, NoMore
    <2>7. Cardinality(wrong) + Cardinality(broken) <= faults
        BY <2>5, <2>6
    <2> QED  BY <2>7 DEF wrong, broken
<1>2. DiskInv /\ LossesInv => LossesWithinFaults
    BY <1>1 DEF LossesWithinFaults
<1> QED  BY <1>2, DiskInvSafe, LossesInvSafe, PTL

-----------------------------------------------------------------------------
(* Who asked for the event or the seats that are being made, and what END says *)

\* What a handler has found out before its first file operation is still so.
StillSo ==
    /\ job.rsp = "RCE" => job.uid \in Members
    /\ job.rsp = "RRI" => job.uid \in loggedIn \cap Members /\ job.eid \notin ended
    /\ At("end") => Readable(job.eid)
    /\ \A e \in ended : Readable(e)

\* A START that can be read is not written again.
LEMMA ReadableKept ==
    ASSUME DiskInv, [Next]_vars, NEW e \in EIDs, Readable(e)
    PROVE  start'[e] = start[e] /\ Readable(e)'
<1>1. ASSUME NEW o \in Outcomes, WriteStart(o)
      PROVE  start'[e] = start[e]
    <2>1. Untouched(job.eid)
        BY <1>1, WriteStartEffect DEF DiskInv, EventInv, NewEvents
    <2>2. e # job.eid
        BY <2>1 DEF Untouched, Readable
    <2> QED  BY <1>1, <2>2, WriteStartEffect DEF DiskInv
<1>2. ASSUME NEW o \in Outcomes, FileOperation(o), ~WriteStart(o)
      PROVE  start' = start
    BY <1>2 DEF FileOperation, MakeUserDir, MakeCreatedDir, MakeReservedDir, WritePassword,
       WriteLogin, EraseLogin, ErasePassword, MakeEventDir, MakeReservationsDir,
       MakeDescriptionDir, WriteRes, WriteDescription, WriteCreatedReference,
       WriteEventReservation, WriteUserReservation, WriteCounter, WriteEnd, eventFiles
<1>3. ASSUME NewRequest \/ SendAnswer \/ Stop \/ UNCHANGED vars
      PROVE  start' = start
    BY <1>3 DEF NewRequest, SendAnswer, Stop, vars, eventFiles
<1>4. start'[e] = start[e]
    BY <1>1, <1>2, <1>3, NextCases DEF DiskInv, Step
<1> QED  BY <1>4 DEF Readable

\* Only WriteEnd makes an END file.
LEMMA EndsOnlyThere ==
    ASSUME NEW o, FileOperation(o)
    PROVE  \/ ended' = ended /\ ~WriteEnd(o)
           \/ WriteEnd(o) /\ ended \subseteq ended' /\ ended' \subseteq ended \cup {job.eid}
BY DEF FileOperation, MakeUserDir, MakeCreatedDir, MakeReservedDir, WritePassword,
   WriteLogin, EraseLogin, ErasePassword, MakeEventDir, MakeReservationsDir,
   MakeDescriptionDir, WriteStart, WriteRes, WriteDescription, WriteCreatedReference,
   WriteEventReservation, WriteUserReservation, WriteCounter, WriteEnd, eventFiles, At

\* The tests of CRE, RID and CLS, and those of the account requests.
LEMMA RequestsStillSo ==
    ASSUME DiskInv, StillSo, NEW u \in Users, NEW p \in Passwords,
           \/ BeginLogin(u, p) \/ BeginLogout(u, p) \/ BeginUnregister(u, p)
           \/ \E new \in Passwords : BeginChangePassword(u, p, new)
           \/ \E fname \in FileInputs, n \in SeatInputs : BeginCreate(u, p, fname, n)
           \/ \E e \in EIDs, n \in PeopleInputs, t \in Instants : BeginReserve(u, p, e, n, t)
           \/ \E e \in EIDs : BeginClose(u, p, e)
    PROVE  StillSo'
<1> USE DEF StillSo, At, Members, Readable
<1>1. ASSUME NEW step, NEW rsp, NEW q, NEW e, NEW fname, NEW n, NEW t, NEW status,
             BeginJob(Job(step, rsp, u, q, e, fname, n, t, status))
      PROVE  /\ job'.do = step /\ job'.rsp = rsp /\ job'.uid = u /\ job'.eid = e
             /\ UNCHANGED <<password, loggedIn, start, ended>>
    BY <1>1 DEF BeginJob, Job, userFiles, eventFiles
<1> USE DEF Begin
<1>2. CASE BeginLogin(u, p)
    BY <1>1, <1>2 DEF BeginLogin
<1>3. CASE BeginLogout(u, p) \/ BeginUnregister(u, p)
    BY <1>1, <1>3 DEF BeginLogout, BeginUnregister
<1>4. ASSUME NEW new \in Passwords, BeginChangePassword(u, p, new)
      PROVE  StillSo'
    BY <1>1, <1>4 DEF BeginChangePassword
<1>5. ASSUME NEW fname \in FileInputs, NEW n \in SeatInputs, BeginCreate(u, p, fname, n)
      PROVE  StillSo'
    BY <1>1, <1>5 DEF BeginCreate, AuthenticateUser
<1>6. ASSUME NEW e \in EIDs, NEW n \in PeopleInputs, NEW t \in Instants,
             BeginReserve(u, p, e, n, t)
      PROVE  StillSo'
    BY <1>1, <1>6 DEF BeginReserve, AuthenticateUser, EventState
<1>7. ASSUME NEW e \in EIDs, BeginClose(u, p, e)
      PROVE  StillSo'
    BY <1>1, <1>7 DEF BeginClose, IsEventOwner
<1> QED  BY <1>2, <1>3, <1>4, <1>5, <1>6, <1>7

LEMMA StillSoKept == ASSUME DiskInv, StillSo, [Next]_vars PROVE StillSo'
<1>1. ended \subseteq EIDs
    BY DEF DiskInv, Shapes, TypeOK
<1>2. \A e \in ended : Readable(e)'
    BY <1>1, ReadableKept DEF StillSo
<1>3. ASSUME NEW o \in Outcomes, FileOperation(o)
      PROVE  StillSo'
    <2>1. Shapes /\ SameRequest /\ job'.do # "end"
        <3>1. Shapes /\ SameRequest
            BY <1>3, StepKinds DEF DiskInv
        <3>2. job'.do # "end"
            BY <1>3, <3>1, AccountMoves, EventMoves DEF Moved, FileOperation, Shapes
        <3> QED  BY <3>1, <3>2
    <2>2. job.rsp \in EventResponses => UNCHANGED <<Members, loggedIn>>
        BY <1>3, <2>1, StepKinds DEF Members
    <2>3. job.rsp = "RRI" => ended' = ended
        BY <1>3, <2>1, EndsOnlyThere, EventMoves DEF Shapes
    <2>4. \A e \in ended' : Readable(e)'
        <3>1. CASE WriteEnd(o)
            <4>1. Readable(job.eid) /\ job.eid \in EIDs
                BY <2>1, <3>1, EventMoves, JobFields DEF WriteEnd, StillSo, Shapes, EventResponses
            <4> QED  BY <1>2, <1>3, <3>1, <4>1, EndsOnlyThere, ReadableKept
        <3>2. CASE ~WriteEnd(o)
            BY <1>2, <1>3, <3>2, EndsOnlyThere
        <3> QED  BY <3>1, <3>2
    <2> QED  BY <2>1, <2>2, <2>3, <2>4 DEF StillSo, SameRequest, At, EventResponses
<1>4. CASE SendAnswer \/ Stop
    <2>1. job' = NoJob /\ ended' = ended
        BY <1>4 DEF SendAnswer, Stop, eventFiles
    <2> QED  BY <1>2, <2>1 DEF StillSo, NoJob, Job, At
<1>5. CASE UNCHANGED vars
    BY <1>2, <1>5 DEF vars, userFiles, eventFiles, StillSo, Members, At, Readable
<1> QED  BY <1>3, <1>4, <1>5, RequestsStillSo DEF Next, Step

LEMMA StillSoSafe == Spec => []StillSo
<1>1. Init => StillSo
    BY DEF Init, StillSo, NoJob, Job, At
<1>2. DiskInv /\ StillSo /\ [Next]_vars => StillSo'
    BY StillSoKept
<1> QED  BY <1>1, <1>2, DiskInvSafe, PTL DEF Spec

-----------------------------------------------------------------------------
(* The server implements the ticket office whose requests may be cut short *)

LEMMA InitCutShort == Init => Office!CutShortInit
<1> SUFFICES ASSUME Init PROVE Office!CutShortInit
    OBVIOUS
<1>1. Members = Regulars /\ loggedIn = Regulars
    BY DiskAssumption DEF Init, Members
<1>2. \A e \in EIDs : ~Readable(e)
    BY DEF Init, Readable
<1> QED  BY <1>1, <1>2, DiskAssumption 
       DEF Office!CutShortInit, Members, sessions, ownerOf, freeOf, onSaleOf

\* Events go off sale, or nothing the office knows of happens.
LEMMA WithdrawalIsStep ==
    ASSUME UNCHANGED <<Members, loggedIn, ownerOf, freeOf>>, onSaleOf' \subseteq onSaleOf
    PROVE  Office!CutShortNext
<1> DEFINE es == onSaleOf \ onSaleOf'
<1>1. es \in SUBSET onSaleOf /\ onSaleOf' = onSaleOf \ es
    OBVIOUS
<1>2. UNCHANGED sessions
    BY DEF sessions
<1>3. Office!Withdraw(es)
    BY <1>1, <1>2 DEF Office!Withdraw
<1> QED  BY <1>1, <1>3 DEF Office!CutShortNext, Office!Next

\* One user's password or login file comes or goes: a member joins, signs in or
\* out, leaves or resigns.
LEMMA MembershipIsStep ==
    ASSUME NEW u \in Users, UNCHANGED <<ownerOf, freeOf, onSaleOf>>,
           \/ loggedIn' = loggedIn /\ Members' \in {Members \cup {u}, Members \ {u}, Members}
           \/ Members' = Members /\ loggedIn' \in {loggedIn \cup {u}, loggedIn \ {u}, loggedIn}
    PROVE  Office!CutShortNext \/ UNCHANGED Office!office
<1>1. Members' = Members /\ sessions' = sessions => UNCHANGED Office!office
    BY DEF Office!office
<1>2. Members' = Members \cup {u} /\ sessions' = sessions \cup {u} => Office!SignIn(u)
    BY DEF Office!SignIn
<1>3. Members' = Members /\ u \in sessions /\ sessions' = sessions \ {u} => Office!SignOut(u)
    BY DEF Office!SignOut
<1>4. u \in sessions /\ Members' = Members \ {u} /\ sessions' = sessions \ {u} => Office!Leave(u)
    BY DEF Office!Leave
<1>5. Members' = Members \cup {u} /\ sessions' = sessions => Office!Join(u)
    BY DEF Office!Join
<1>6. u \notin sessions /\ Members' = Members \ {u} /\ sessions' = sessions => Office!Resign(u)
    BY DEF Office!Resign
<1>7. \/ Members' = Members /\ sessions' = sessions
      \/ Members' = Members \cup {u} /\ sessions' = sessions \cup {u}
      \/ Members' = Members /\ u \in sessions /\ sessions' = sessions \ {u}
      \/ u \in sessions /\ Members' = Members \ {u} /\ sessions' = sessions \ {u}
      \/ Members' = Members \cup {u} /\ sessions' = sessions
      \/ u \notin sessions /\ Members' = Members \ {u} /\ sessions' = sessions
    <2> USE DEF sessions
    <2>1. CASE loggedIn' = loggedIn /\ Members' = Members \cup {u}
        <3>1. CASE u \in loggedIn
            BY <2>1, <3>1
        <3>2. CASE u \notin loggedIn
            BY <2>1, <3>2
        <3> QED  BY <3>1, <3>2
    <2>2. CASE loggedIn' = loggedIn /\ Members' = Members \ {u}
        <3>1. CASE u \in sessions
            BY <2>2, <3>1
        <3>2. CASE u \notin sessions
            BY <2>2, <3>2
        <3> QED  BY <3>1, <3>2
    <2>3. CASE Members' = Members /\ loggedIn' = loggedIn \cup {u}
        <3>1. CASE u \in Members
            BY <2>3, <3>1
        <3>2. CASE u \notin Members
            BY <2>3, <3>2
        <3> QED  BY <3>1, <3>2
    <2>4. CASE Members' = Members /\ loggedIn' = loggedIn \ {u}
        <3>1. CASE u \in sessions
            BY <2>4, <3>1
        <3>2. CASE u \notin sessions
            BY <2>4, <3>2
        <3> QED  BY <3>1, <3>2
    <2>5. CASE Members' = Members /\ loggedIn' = loggedIn
        BY <2>5
    <2> QED  BY <2>1, <2>2, <2>3, <2>4, <2>5
<1> QED  BY <1>1, <1>2, <1>3, <1>4, <1>5, <1>6, <1>7 DEF Office!CutShortNext, Office!Next

\* What the office knows of the events depends on these files and ghosts only.
LEMMA SameOffice ==
    ASSUME UNCHANGED <<start, ended>>,
           \A e \in EIDs : /\ sold'[e] = sold[e] /\ leaked'[e] = leaked[e]
                           /\ pending'[e] = pending[e]
           \* An empty RES does not fill up again.
    PROVE  /\ UNCHANGED <<ownerOf, freeOf>>
           /\ (\A e \in EIDs : res'[e] # Torn => res[e] # Torn) => onSaleOf' \subseteq onSaleOf
           /\ res' = res => onSaleOf' = onSaleOf
<1>1. \A e \in EIDs : Readable(e)' <=> Readable(e)
    BY DEF Readable
<1>2. UNCHANGED ownerOf
    BY <1>1 DEF ownerOf
<1>3. UNCHANGED freeOf
    BY <1>1 DEF freeOf
<1> QED  BY <1>1, <1>2, <1>3 DEF onSaleOf

LEMMA PendingIs ==
    /\ job.rsp # "RRI" \/ job.do # "answer" \/ job.status # "ACC" =>
          \A e \in EIDs : pending[e] = 0
    /\ job'.rsp # "RRI" \/ job'.do # "answer" \/ job'.status # "ACC" =>
          \A e \in EIDs : pending'[e] = 0
BY DEF pending, At, Answered

-----------------------------------------------------------------------------
(* The steps of the account requests *)

LEMMA AccountStepIsMember ==
    ASSUME DiskInv, NEW o \in Outcomes, FileOperation(o), job.rsp \in AccountResponses
    PROVE  Office!CutShortNext \/ UNCHANGED Office!office
<1>1. Shapes /\ SameRequest /\ job # NoJob /\ job.uid \in Users
    BY StepKinds, JobFields DEF DiskInv, Shapes
<1>2. /\ UNCHANGED <<start, res, sold, leaked>>
      /\ ended' = ended
    BY <1>1, StepKinds, EndsOnlyThere, EventMoves DEF Shapes, AccountResponses
<1>3. \A e \in EIDs : pending'[e] = 0 /\ pending[e] = 0
    BY <1>1, PendingIs DEF SameRequest, AccountResponses
<1>4. UNCHANGED <<ownerOf, freeOf, onSaleOf>>
    BY <1>2, <1>3, SameOffice
<1> DEFINE u == job.uid
<1>5. \/ loggedIn' = loggedIn /\ Members' \in {Members \cup {u}, Members \ {u}, Members}
      \/ Members' = Members /\ loggedIn' \in {loggedIn \cup {u}, loggedIn \ {u}, loggedIn}
    <2>1. ASSUME NEW x, password' = [password EXCEPT ![u] = x], loggedIn' = loggedIn
          PROVE  Members' \in {Members \cup {u}, Members \ {u}, Members}
        <3>1. \A v \in Users \ {u} : password'[v] = password[v]
            BY <1>1, <2>1 DEF Shapes, TypeOK
        <3> QED  BY <1>1, <3>1 DEF Members
    <2>2. WritePassword(o) \/ ErasePassword(o) =>
            /\ loggedIn' = loggedIn
            /\ \E x : password' = [password EXCEPT ![u] = x]
        BY DEF WritePassword, ErasePassword
    <2>3. CASE WritePassword(o) \/ ErasePassword(o)
        BY <2>1, <2>2, <2>3
    <2>4. CASE WriteLogin(o) \/ EraseLogin(o)
        BY <2>4 DEF WriteLogin, EraseLogin, Members
    <2>5. CASE MakeUserDir(o) \/ MakeCreatedDir(o) \/ MakeReservedDir(o)
        BY <2>5 DEF MakeUserDir, MakeCreatedDir, MakeReservedDir, Members
    <2> QED  BY <1>1, <2>3, <2>4, <2>5, EventMoves
             DEF FileOperation, Shapes, AccountResponses
<1> QED  BY <1>1, <1>4, <1>5, MembershipIsStep

-----------------------------------------------------------------------------
(* The steps of the event requests *)

\* WriteStart is the step that announces the event.
LEMMA StartIsAnnounce ==
    ASSUME DiskInv, StillSo, WriteStart("done")
    PROVE  Office!CutShortNext
<1> SUFFICES ASSUME NEW e, e = job.eid, NEW u, u = job.uid
             PROVE  Office!CutShortNext
    OBVIOUS
<1>1. "done" \in Outcomes /\ Shapes
    BY DEF Outcomes, DiskInv
<1>2. /\ job.rsp = "RCE" /\ job.do = "start" /\ e \in EIDs /\ SameRequest
      /\ \A d \in EIDs \ {e} : start'[d] = start[d]
      /\ start'[e] \in EventFile /\ start'[e].uid = u
      /\ UNCHANGED <<res, sold, leaked>>
    BY <1>1, WriteStartEffect
<1>3. u \in Users /\ u \in Members /\ UNCHANGED <<Members, loggedIn>>
    BY <1>1, <1>2, StepKinds, JobFields
    DEF StillSo, Members, Shapes, FileOperation, EventResponses, NoJob, Job
<1>4. ended' = ended
    BY DEF WriteStart
<1>5. Untouched(e)
    BY <1>2 DEF DiskInv, EventInv, NewEvents
<1>6. ~Readable(e) /\ Readable(e)' /\ e \notin ended /\ res[e] = NoFile
    BY <1>2, <1>5, EventFilesAreNotMarks DEF Untouched, Readable, StillSo
<1>7. \A d \in EIDs \ {e} : Readable(d)' <=> Readable(d)
    BY <1>2 DEF Readable
<1>8. sold[e] = 0 /\ leaked[e] = 0
    BY <1>2, <1>6 DEF DiskInv, EventInv, Numbers
<1>9. \A d \in EIDs : pending[d] = 0 /\ pending'[d] = 0
    BY <1>2, PendingIs DEF SameRequest
<1>10. start'[e].seats \in Office!Attendances /\ start'[e].seats \in Int
    <2>1. start'[e].seats \in SeatInputs
        BY <1>2 DEF EventFile
    <2>2. \A n \in SeatInputs : n \in 10..999 /\ n \in Int
        BY AttendanceAssumption
    <2>3. \A n \in SeatInputs : n \in Office!Attendances /\ n \in Int
        BY <2>2 DEF Office!Attendances
    <2> QED  BY <2>1, <2>3
<1>11. ownerOf[e] = NoUser /\ ownerOf' = [ownerOf EXCEPT ![e] = u]
    <2>1. ownerOf[e] = NoUser /\ ownerOf'[e] = u
        BY <1>2, <1>6 DEF ownerOf
    <2>2. \A d \in EIDs \ {e} : ownerOf'[d] = ownerOf[d]
        BY <1>2, <1>7 DEF ownerOf
    <2>3. /\ DOMAIN ownerOf = EIDs /\ DOMAIN ownerOf' = EIDs
          /\ ownerOf = [x \in EIDs |-> ownerOf[x]] /\ ownerOf' = [x \in EIDs |-> ownerOf'[x]]
        BY DEF ownerOf
    <2> QED  BY <2>1, <2>2, <2>3
<1>12. freeOf' = [freeOf EXCEPT ![e] = start'[e].seats]
    <2>1. freeOf'[e] = start'[e].seats
        BY <1>2, <1>6, <1>8, <1>9, <1>10 DEF freeOf
    <2>2. \A d \in EIDs \ {e} : freeOf'[d] = freeOf[d]
        BY <1>2, <1>7, <1>9 DEF freeOf
    <2>3. /\ DOMAIN freeOf = EIDs /\ DOMAIN freeOf' = EIDs
          /\ freeOf = [x \in EIDs |-> freeOf[x]] /\ freeOf' = [x \in EIDs |-> freeOf'[x]]
        BY DEF freeOf
    <2> QED  BY <2>1, <2>2, <2>3
<1>13. onSaleOf' = onSaleOf \cup {e}
    <2>1. NoFile # Torn
        BY DiskAssumption
    <2> QED  BY <1>2, <1>4, <1>6, <1>7, <1>9, <2>1 DEF onSaleOf
<1>14. UNCHANGED <<Members, sessions>>
    BY <1>3 DEF sessions
<1>15. Office!Announce(u, e)
    <2>1. \E size \in Office!Attendances : freeOf' = [freeOf EXCEPT ![e] = size]
        BY <1>10, <1>12
    <2> QED  BY <1>3, <1>11, <1>13, <1>14, <2>1
             DEF Office!Announce
<1> QED  BY <1>2, <1>3, <1>15 DEF Office!CutShortNext, Office!Next

\* The ghosts that count seats are left to the end of the handler.
LEMMA FileOperationsTellNothing ==
    ASSUME NEW o, FileOperation(o)
    PROVE  UNCHANGED <<sold, leaked>>
BY DEF FileOperation, MakeUserDir, MakeCreatedDir, MakeReservedDir, WritePassword, WriteLogin,
   EraseLogin, ErasePassword, MakeEventDir, MakeReservationsDir, MakeDescriptionDir, WriteStart,
   WriteRes, WriteDescription, WriteCreatedReference, WriteEventReservation,
   WriteUserReservation, WriteCounter, WriteEnd, ghosts

\* The other steps of CRE write files that the office does not know of, and an empty
\* START or RES.
LEMMA CreateStepIsWithdrawal ==
    ASSUME DiskInv, NEW o \in Outcomes, FileOperation(o), job.rsp = "RCE",
           WriteStart(o) => o # "done"
    PROVE  Office!CutShortNext
<1>1. Shapes /\ SameRequest /\ UNCHANGED <<Members, loggedIn, sold, leaked>>
    BY StepKinds, FileOperationsTellNothing DEF DiskInv, EventResponses, Members
<1>2. ended' = ended
    BY <1>1, EndsOnlyThere, EventMoves DEF Shapes
<1>3. \A d \in EIDs : pending[d] = 0 /\ pending'[d] = 0
    BY <1>1, PendingIs DEF SameRequest
<1>4. \A d \in EIDs : /\ Readable(d)' <=> Readable(d)
                      /\ Readable(d) => start'[d] = start[d]
    <2>1. CASE WriteStart(o)
        <3>1. ~Readable(job.eid) /\ start'[job.eid] \in {NoFile, Torn}
            BY <1>1, <2>1, WriteStartEffect
            DEF DiskInv, EventInv, NewEvents, Untouched, Readable, Outcomes
        <3>2. \A d \in EIDs \ {job.eid} : start'[d] = start[d]
            BY <1>1, <2>1, WriteStartEffect
        <3> QED  BY <3>1, <3>2 DEF Readable
    <2>2. CASE ~WriteStart(o)
        BY <2>2 DEF Readable, FileOperation, MakeUserDir, MakeCreatedDir, MakeReservedDir,
           WritePassword, WriteLogin, EraseLogin, ErasePassword, MakeEventDir,
           MakeReservationsDir, MakeDescriptionDir, WriteRes, WriteDescription,
           WriteCreatedReference, WriteEventReservation, WriteUserReservation, WriteCounter,
           WriteEnd, eventFiles
    <2> QED  BY <2>1, <2>2
<1>5. UNCHANGED <<ownerOf, freeOf>>
    <2>1. UNCHANGED ownerOf
        BY <1>4 DEF ownerOf
    <2>2. UNCHANGED freeOf
        BY <1>1, <1>3, <1>4 DEF freeOf
    <2> QED  BY <2>1, <2>2
<1>6. \A d \in EIDs : res'[d] # Torn => res[d] # Torn
    <2>1. CASE WriteRes(o)
        <3>1. res[job.eid] = NoFile
            BY <1>1, <2>1, WriteResEffect DEF DiskInv, EventInv, NewEvents, At
        <3>2. \A d \in EIDs \ {job.eid} : res'[d] = res[d]
            BY <1>1, <2>1, WriteResEffect
        <3>3. NoFile # Torn
            BY DiskAssumption
        <3> QED  BY <3>1, <3>2, <3>3
    <2>2. CASE ~WriteRes(o)
        <3>1. ~WriteCounter(o)
            BY <1>1, WriteResEffect
        <3>2. res' = res
            BY <2>2, <3>1 DEF FileOperation, MakeUserDir, MakeCreatedDir, MakeReservedDir,
               WritePassword, WriteLogin, EraseLogin, ErasePassword, MakeEventDir,
               MakeReservationsDir, MakeDescriptionDir, WriteStart, WriteDescription,
               WriteCreatedReference, WriteEventReservation, WriteUserReservation, WriteEnd,
               eventFiles
        <3> QED  BY <3>2
    <2> QED  BY <2>1, <2>2
<1>7. onSaleOf' \subseteq onSaleOf
    BY <1>2, <1>3, <1>4, <1>6 DEF onSaleOf
<1> QED  BY <1>1, <1>5, <1>7, WithdrawalIsStep

\* WriteCounter is the step that sells: the booking cannot fail any more.
LEMMA CounterIsSell ==
    ASSUME DiskInv, StillSo, NEW o \in Outcomes, o # "refused", WriteCounter(o)
    PROVE  Office!CutShortNext
<1> SUFFICES ASSUME NEW e, e = job.eid, NEW u, u = job.uid, NEW n, n = job.seats
             PROVE  Office!CutShortNext
    OBVIOUS
<1>1. Shapes /\ FileOperation(o)
    BY DEF DiskInv, FileOperation
<1>2. /\ job.rsp = "RRI" /\ job.do = "counter" /\ e \in EIDs /\ SameRequest
      /\ UNCHANGED <<start, sold, leaked>> /\ Goes(o, "answer")
      /\ \A d \in EIDs \ {e} : res'[d] = res[d]
    BY <1>1, WriteResEffect
<1>3. /\ u \in Users /\ n \in Nat /\ n >= 1
      /\ UNCHANGED <<Members, loggedIn>>
    <2>1. UNCHANGED <<Members, loggedIn>>
        BY <1>1, <1>2, StepKinds DEF EventResponses, Members
    <2>2. u \in Users /\ n \in PeopleInputs
        BY <1>1, <1>2, JobFields DEF Shapes, EventResponses
    <2>3. PeopleInputs \subseteq Nat \ {0}
        BY DiskAssumption
    <2>4. n \in Nat \ {0}
        BY <2>2, <2>3
    <2> QED  BY <2>1, <2>2, <2>4
<1>4. u \in sessions /\ e \notin ended /\ ended' = ended
    BY <1>2 DEF StillSo, sessions, WriteCounter
<1>5. Numbers(e) /\ SaleOf(e) /\ Readable(e) /\ res[e] # Torn /\ job.status = "ACC"
    BY <1>2 DEF DiskInv, EventInv, Numbers, SaleOf, At
<1>6. \A d \in EIDs : Readable(d)' <=> Readable(d)
    BY <1>2 DEF Readable
<1>7. /\ \A d \in EIDs : pending[d] = 0
      /\ \A d \in EIDs \ {e} : pending'[d] = 0
      /\ pending'[e] = n
    <2>1. \A d \in EIDs : pending[d] = 0
        BY <1>2, PendingIs
    <2>2. job'.do = "answer" /\ job'.rsp = "RRI" /\ job'.status = "ACC" /\ job'.eid = e
              /\ job'.seats = n
        BY <1>2, <1>5 DEF Goes, SameRequest
    <2> QED  BY <1>2, <2>1, <2>2 DEF pending, At, Answered
<1>8. ownerOf' = ownerOf
    BY <1>2, <1>6 DEF ownerOf
<1>9. /\ sold[e] \in Nat /\ leaked[e] \in Nat /\ start[e].seats \in Nat
      /\ sold[e] + leaked[e] + n <= start[e].seats
    <2>1. start[e] \in EventFile
        BY <1>1, <1>2, <1>5 DEF Shapes, TypeOK, Readable
    <2>2. start[e].seats \in Nat
        BY <2>1, DiskAssumption DEF EventFile
    <2>3. sold[e] \in Nat /\ leaked[e] \in Nat
        BY <1>1, <1>2 DEF Shapes, GhostsOK
    <2> QED  BY <1>5, <2>2, <2>3 DEF Numbers
<1>10. n \in 1..freeOf[e] /\ freeOf' = [freeOf EXCEPT ![e] = @ - n]
    <2>1. freeOf[e] = start[e].seats - sold[e] - leaked[e]
        BY <1>2, <1>5, <1>7, <1>9 DEF freeOf
    <2>2. freeOf'[e] = start[e].seats - sold[e] - leaked[e] - n
        BY <1>2, <1>5, <1>6, <1>7 DEF freeOf
    <2>3. \A d \in EIDs \ {e} : freeOf'[d] = freeOf[d]
        BY <1>2, <1>6, <1>7 DEF freeOf
    <2>4. /\ DOMAIN freeOf = EIDs /\ DOMAIN freeOf' = EIDs
          /\ freeOf = [x \in EIDs |-> freeOf[x]] /\ freeOf' = [x \in EIDs |-> freeOf'[x]]
        BY DEF freeOf
    <2>5. n \in 1..freeOf[e]
        BY <1>3, <1>9, <2>1
    <2>6. freeOf'[e] = freeOf[e] - n
        BY <2>1, <2>2
    <2> QED  BY <2>3, <2>4, <2>5, <2>6
<1>11. e \in onSaleOf
    BY <1>2, <1>4, <1>5 DEF onSaleOf
<1>12. onSaleOf' = onSaleOf
    <2>1. \A d \in EIDs \ {e} : d \in onSaleOf' <=> d \in onSaleOf
        BY <1>2, <1>4, <1>6, <1>7 DEF onSaleOf
    <2>2. e \in onSaleOf'
        BY <1>2, <1>3, <1>4, <1>5, <1>6, <1>7 DEF onSaleOf
    <2>3. onSaleOf \subseteq EIDs /\ onSaleOf' \subseteq EIDs
        BY DEF onSaleOf
    <2> QED  BY <1>11, <2>1, <2>2, <2>3
<1>13. UNCHANGED <<Members, sessions>>
    BY <1>3 DEF sessions
<1>14. Office!Sell(u, e)
    <2>1. \E seats \in 1..freeOf[e] : freeOf' = [freeOf EXCEPT ![e] = @ - seats]
        BY <1>10
    <2> QED  BY <1>4, <1>8, <1>11, <1>12, <1>13, <2>1 DEF Office!Sell
<1> QED  BY <1>2, <1>3, <1>14 DEF Office!CutShortNext, Office!Next

\* A booking's other steps, and one whose RES cannot be opened, sell nothing.
LEMMA BookingGoesOn ==
    ASSUME DiskInv, NEW o \in Outcomes, FileOperation(o), job.rsp = "RRI",
           WriteCounter(o) => o = "refused"
    PROVE  Office!CutShortNext
<1>1. Shapes /\ SameRequest /\ UNCHANGED <<Members, loggedIn, sold, leaked>>
    BY StepKinds, FileOperationsTellNothing DEF DiskInv, EventResponses, Members
<1>2. ended' = ended
    BY <1>1, EndsOnlyThere, EventMoves DEF Shapes
<1>3. /\ \A d \in EIDs : pending[d] = 0 /\ pending'[d] = 0
      /\ start' = start /\ \A d \in EIDs : res'[d] = res[d]
    <2>1. CASE WriteEventReservation(o)
        <3>1. /\ job.do = "eventReservation" /\ Refused(o, "ERR") /\ Goes(o, "userReservation")
              /\ UNCHANGED <<start, res>>
            BY <1>1, <2>1, WriteReservationEffect
        <3> QED  BY <3>1, PendingIs DEF Refused, Goes
    <2>2. CASE WriteUserReservation(o)
        <3>1. /\ job.do = "userReservation" /\ job'.do = "counter"
              /\ UNCHANGED <<start, res>>
            BY <1>1, <2>2, WriteReservationEffect
        <3> QED  BY <3>1, PendingIs
    <2>3. CASE WriteCounter(o)
        <3>1. /\ job.do = "counter" /\ job'.do = "answer" /\ job'.status = "ERR"
              /\ start' = start /\ \A d \in EIDs : res'[d] = res[d]
            BY <1>1, <2>3, WriteResEffect DEF Refused
        <3> QED  BY <3>1, PendingIs
    <2> QED  BY <1>1, <2>1, <2>2, <2>3, SaleStepEffect
<1>4. \A d \in EIDs : Readable(d)' <=> Readable(d)
    BY <1>3 DEF Readable
<1>5. ownerOf' = ownerOf
    BY <1>3, <1>4 DEF ownerOf
<1>6. freeOf' = freeOf
    BY <1>1, <1>3, <1>4 DEF freeOf
<1>7. onSaleOf' \subseteq onSaleOf
    BY <1>2, <1>3, <1>4 DEF onSaleOf
<1> QED  BY <1>1, <1>5, <1>6, <1>7, WithdrawalIsStep

\* END takes the event off sale.
LEMMA EndIsWithdrawal ==
    ASSUME DiskInv, NEW o \in Outcomes, FileOperation(o), job.rsp = "RCL"
    PROVE  Office!CutShortNext
<1>1. Shapes /\ SameRequest /\ UNCHANGED <<Members, loggedIn, start, res, sold, leaked>>
    <2>1. WriteEnd(o)
        BY AccountMoves, EventMoves DEF FileOperation, DiskInv, Shapes
    <2> QED  BY <2>1, StepKinds, FileOperationsTellNothing
             DEF DiskInv, EventResponses, Members
<1>2. ended \subseteq ended'
    BY EndsOnlyThere
<1>3. \A d \in EIDs : pending[d] = 0 /\ pending'[d] = 0
    BY <1>1, PendingIs DEF SameRequest
<1>4. \A d \in EIDs : Readable(d)' <=> Readable(d)
    BY <1>1 DEF Readable
<1>5. UNCHANGED <<ownerOf, freeOf>>
    BY <1>1, <1>3, <1>4 DEF ownerOf, freeOf
<1>6. onSaleOf' \subseteq onSaleOf
    BY <1>1, <1>2, <1>3, <1>4 DEF onSaleOf
<1> QED  BY <1>1, <1>5, <1>6, WithdrawalIsStep

-----------------------------------------------------------------------------
(* The requests as they are read and answered *)

\* An answer, or a stop in its place, moves the seats of the booking from those that
\* wait for it to those told or lost, and shows an empty RES.
LEMMA EndOfHandlerIsWithdrawal ==
    ASSUME DiskInv, SendAnswer \/ Stop
    PROVE  Office!CutShortNext
<1>1. Shapes /\ UNCHANGED <<Members, loggedIn, start, res, ended>> /\ job' = NoJob
    BY DEF DiskInv, SendAnswer, Stop, userFiles, eventFiles, Members
<1>2. \A d \in EIDs : pending'[d] = 0
    BY <1>1 DEF pending, NoJob, Job, At
<1>3. \A d \in EIDs : Readable(d)' <=> Readable(d)
    BY <1>1 DEF Readable
<1>4. ownerOf' = ownerOf
    BY <1>1, <1>3 DEF ownerOf
<1>5. ASSUME NEW d \in EIDs
      PROVE  /\ sold[d] \in Nat /\ leaked[d] \in Nat /\ pending[d] \in Nat
             /\ sold'[d] \in Nat /\ leaked'[d] \in Nat
             /\ sold'[d] + leaked'[d] = sold[d] + leaked[d] + pending[d]
    <2>1. sold \in [EIDs -> Nat] /\ leaked \in [EIDs -> Nat]
        BY <1>1 DEF Shapes, GhostsOK
    <2>2. job.rsp = "RRI" => job.eid \in EIDs /\ job.seats \in Nat
        <3>1. \A n \in PeopleInputs : n \in Nat
            BY DiskAssumption
        <3> QED  BY <1>1, <3>1, JobFields DEF Shapes, EventResponses
    <2>3. CASE At("answer") /\ Answered("RRI", "ACC") /\ job.eid = d
        <3>1. pending[d] = job.seats /\ job.seats \in Nat
            BY <2>2, <2>3 DEF pending, Answered
        <3>2. \/ sold'[d] = sold[d] + job.seats /\ leaked'[d] = leaked[d]
              \/ sold'[d] = sold[d] /\ leaked'[d] = leaked[d] + job.seats
            BY <2>1, <2>3 DEF SendAnswer, Stop
        <3>3. sold[d] \in Nat /\ leaked[d] \in Nat
            BY <2>1
        <3> QED  BY <3>1, <3>2, <3>3
    <2>4. CASE ~(At("answer") /\ Answered("RRI", "ACC") /\ job.eid = d)
        <3>1. pending[d] = 0
            BY <2>4 DEF pending
        <3>2. sold'[d] = sold[d] /\ leaked'[d] = leaked[d]
            BY <2>1, <2>4 DEF SendAnswer, Stop
        <3>3. sold[d] \in Nat /\ leaked[d] \in Nat
            BY <2>1
        <3> QED  BY <3>1, <3>2, <3>3
    <2> QED  BY <2>3, <2>4
<1>6. freeOf' = freeOf
    <2>1. ASSUME NEW d \in EIDs, Readable(d)
          PROVE  start[d].seats - sold[d] - leaked[d] - pending[d]
                 = start'[d].seats - sold'[d] - leaked'[d] - pending'[d]
        <3>1. start[d] \in EventFile
            BY <1>1, <2>1 DEF Shapes, TypeOK, Readable
        <3>2. start[d].seats \in Nat
            BY <3>1, DiskAssumption DEF EventFile
        <3>3. start'[d].seats = start[d].seats
            BY <1>1
        <3> DEFINE s == start[d].seats
                   a == sold[d]
                   b == leaked[d]
                   c == pending[d]
                   x == sold'[d]
                   y == leaked'[d]
        <3>4. s - a - b - c = s - x - y - 0
            <4>1. /\ s \in Nat /\ a \in Nat /\ b \in Nat /\ c \in Nat /\ x \in Nat /\ y \in Nat
                  /\ x + y = a + b + c
                BY <1>5, <3>2
            <4> HIDE DEF s, a, b, c, x, y
            <4> QED  BY <4>1
        <3> QED  BY <1>2, <3>3, <3>4
    <2> QED  BY <1>3, <2>1 DEF freeOf
<1>7. onSaleOf' \subseteq onSaleOf
    BY <1>1, <1>2, <1>3 DEF onSaleOf
<1> QED  BY <1>1, <1>4, <1>6, <1>7, WithdrawalIsStep

\* Nothing happens until the first file operation.
LEMMA NewRequestIsStutter ==
    ASSUME DiskInv, NewRequest \/ UNCHANGED vars
    PROVE  UNCHANGED Office!office
<1>1. UNCHANGED <<Members, loggedIn, start, res, ended, sold, leaked>>
    BY DEF NewRequest, vars, userFiles, eventFiles, ghosts, Members
<1>2. \A d \in EIDs : pending'[d] = pending[d]
    <2>1. CASE NewRequest
        <3>1. job.do # "answer" /\ job'.do # "answer"
            BY <2>1 DEF NewRequest, Admitted, NoJob, Job
        <3> QED  BY <3>1, PendingIs
    <2>2. CASE UNCHANGED vars
        BY <2>2 DEF vars, pending, At, Answered
    <2> QED  BY <2>1, <2>2
<1>3. UNCHANGED sessions
    BY <1>1 DEF sessions
<1>4. UNCHANGED <<ownerOf, freeOf, onSaleOf>>
    BY <1>1, <1>2, SameOffice
<1> QED  BY <1>1, <1>3, <1>4 DEF Office!office

LEMMA EveryStepIsOffice ==
    ASSUME DiskInv, StillSo, [Next]_vars
    PROVE  Office!CutShortNext \/ UNCHANGED Office!office
<1>1. ASSUME NEW o \in Outcomes, FileOperation(o)
      PROVE  Office!CutShortNext \/ UNCHANGED Office!office
    <2>1. job.rsp \in AccountResponses \cup EventResponses
        BY <1>1, StepKinds, JobFields DEF DiskInv, Shapes, AccountResponses, EventResponses
    <2>2. CASE job.rsp \in AccountResponses
        BY <1>1, <2>2, AccountStepIsMember
    <2>3. CASE job.rsp = "RCE"
        BY <1>1, <2>3, StartIsAnnounce, CreateStepIsWithdrawal
    <2>4. CASE job.rsp = "RRI"
        BY <1>1, <2>4, CounterIsSell, BookingGoesOn
    <2>5. CASE job.rsp = "RCL"
        BY <1>1, <2>5, EndIsWithdrawal
    <2> QED  BY <2>1, <2>2, <2>3, <2>4, <2>5 DEF EventResponses
<1> QED  BY <1>1, NextCases, NewRequestIsStutter, EndOfHandlerIsWithdrawal DEF DiskInv, Step

\* For any numbers of users, events, seats and faults, the server, whatever is refused
\* or left half-written and wherever it is stopped, is a ticket office whose requests
\* about accounts may be cut short and whose sales may not: main, ES.c:19.
THEOREM DiskImplementsOffice == Spec => ImplementsCutShortOffice
<1>1. DiskInv /\ StillSo /\ [Next]_vars => [Office!CutShortNext]_(Office!office)
    BY EveryStepIsOffice
<1> QED  BY <1>1, InitCutShort, DiskInvSafe, StillSoSafe, PTL
         DEF Spec, ImplementsCutShortOffice, Office!CutShortSpec
=============================================================================
