# ES event server: specification and proofs

This directory holds TLA+ models of the event-reservation server and client in
`src/`, the TLC configurations that check them on small instances, and theorems
about them checked by TLAPS. Everything is translated from the C source; paths
below are relative to the repository root, with `src/src/...` for the C files.

Contents: [1. The system](#1-the-system), [2. What is hard](#2-what-is-hard),
[3. Modules](#3-modules-and-how-they-correspond-to-the-code),
[4. Runs](#4-the-runs), [5. Proofs](#5-the-proofs),
[6. Disagreements](#6-where-the-code-and-its-own-words-disagree),
[7. Limits](#7-what-is-assumed-and-what-is-left-out),
[8. Plan](#8-plan).

## 1. The system

A server (`ES.c`) listens on one port with UDP and TCP. Clients (`user.c`) log
in and out over UDP and create, close, list, show and book events over TCP. The
server keeps **no state in memory** between two requests: its whole state is a
tree of small files.

| Component | State | Operations | Talks to | Correct when |
|---|---|---|---|---|
| Accounts: `user_database.c`, user half of `file_system.c` | `USERS/uid/`, `uid_pass.txt`, `uid_login.txt` | register, authenticate, login, logout, unregister, change password | called by every handler | a session never outlives its account; credentials change only in their own session |
| Event database: `event_database.c`, event half of `file_system.c` | `EVENTS/eid/` with `START`, `RES`, `END`, `DESCRIPTION/`, `RESERVATIONS/`; `USERS/uid/CREATED`, `USERS/uid/RESERVED` | `create_event`, `close_event`, `auto_close_if_past`, `get_event_state`, `create_reservation`, `get_next_eid` | the clock; called by the TCP handlers, LME and LMR | seats are not oversold, sales stop at the start, an event's state only advances, the two ledgers and `CREATED` agree with `EVENTS` |
| UDP handlers: `udp_handlers.c` | none | LIN, LOU, UNR, LME, LMR | accounts, events | each answer says what the files say |
| TCP handlers: `tcp_handlers.c` | none | CRE, CLS, LST, SED, RID, CPS | accounts, events | as above; nothing changes on a refused request |
| Main loop: `ES.c` | `_STOP` (typed, or sent in a datagram), the two listening sockets, one accepted connection | `select`, dispatch, close | the handlers, one at a time | every request gets one answer; one client cannot hold up the others for good |
| Dates: `utils.c`, `date_to_timestamp` in `file_system.c` | none | compare by the minute; convert to seconds | the event database | the two notions of "past" agree |
| Validation: `utils.c` | none | `validate_...` | the handlers, the client | what is stored can be read back |
| Client: `user.c` | `is_logged_in`, `logged_uid`, `logged_password` | one function per command, UDP with a 5 s receive timeout, TCP with reassembly | the server | the client's idea of its session follows the server's |
| Shared definitions: `include/` | none | message codes, statuses, limits | all | - |
| `file_transfer.c` | empty file | - | - | - |

## 2. What is hard

`PROJECT.json` lists every hazard with its line. In groups:

* **Order of requests.** Files of one account come and go apart (UNR removes two
  files and leaves the directory, CRE does not look at the login file), so a
  handler meets combinations no single test sets up: a user who left and came
  back, an owner who unregistered, a session without an account.
* **Two notions of past.** `is_date_before_now` compares minutes;
  `date_to_timestamp` gives seconds with `tm_isdst = 0`. Between the two lies the
  event's own minute, or more than an hour in summer.
* **Counter and ledgers.** `RES` is a number, the reservations are two files each.
  The names of those files have a resolution of one second.
* **Limits.** 999 events, 999 seats, 50 files in an LMR answer, fixed buffers in
  LST and LME.
* **Partial failure and crash.** No operation is atomic on the disk: a booking is
  three files, an event five; a write that fails half-way is not undone, nobody
  looks at `fclose`, and a process that is started again repairs nothing. One such
  failure needs no fault: nothing is tested of the file name a CRE brings, and
  `create_event` gives up half-way when it cannot open a file of that name.
* **Lost and late datagrams.** The client gives up after 5 s and reads whatever
  datagram is there the next time; it never compares the response code.
* **One thread, blocking reads and writes.** A CRE has no end mark, so its end is a
  second of silence; every other read and every write has no time limit. One silent
  TCP client stops the server for everybody.
* **Signals.** Nothing catches SIGPIPE, and the client of SED may close in the
  middle of an answer.

`ESServer` covers the first four groups, `ESDisk` the fifth, `ESClient` the sixth and
`ESLoop` the last two.

## 3. Modules and how they correspond to the code

```
Protocol ──┬── Accounts ────────┬── ESClient
           │                    │
           └── EventDatabase ───┴── ESServer ══ implements ══> TicketOffice
                                                                 ^
ESDisk ════════ implements, its requests cut short ══════════════╝
            the writing handlers of Accounts and EventDatabase, file by file
ESLoop      main's loop and the TCP connections of its clients
Calendar    the dates that EventDatabase has as numbers of minutes

MCServer (ESServer, with Accounts in it), MCLifecycle (MCServer and Calendar):
the instances of the core; ESClient, ESDisk and ESLoop are instantiated by
their .cfg directly
AccountsProofs, ESServerProofs, ESLifecycleProofs and ESLedgerProofs (ESServer),
ESDiskProofs, ESClientProofs, ESLoopProofs, CalendarProofs: the theorems
```

Four views of one program, each with what it is about in detail and the rest coarse:

| Module | A step is | Detailed | Coarse |
|---|---|---|---|
| `ESServer` | one request | what every request tests, changes and answers; the clock | disk and network are perfect |
| `ESDisk` | one file operation | the order of the files, faults, stops | no clock, no queries |
| `ESClient` | one datagram or command | `client_state`, loss, delay, time-out | events: LME stands for all queries |
| `ESLoop` | one `select`, read or write | sockets, blocking, time limits, signals | what a request says |

**`Protocol`** has the message codes and statuses of `protocol.h` and the variable
`reply`, the last answer sent. `reply.rsp`, `reply.status` and `reply.data` are the
message; `reply.uid` and `reply.eid` repeat the request it answers.

**`Accounts`** has `userDir` (which `USERS/uid` directories exist), `password`
(`uid_pass.txt`, or `NoFile`) and `loggedIn` (which `uid_login.txt` exist). Each
handler LIN, LOU, UNR, CPS is one action, its refusals included; the functions of
`user_database.c` are operators with the same names. A request that `sscanf` or
a `validate_` function rejects is `MalformedAccountRequest`.

**`EventDatabase`** has `now` (the clock), `start`, `res`, `ended` (which `END` files
exist), `created`, and the reservation files `eventRes` and `userRes`. A file is a record
of what its name and its contents say; `WriteReservation` replaces the file with the same
name, as `fopen(..., "w")` does. `start` keeps `fname` too, the name of the description:
one that can be opened inside `DESCRIPTION` (`"file"`) or one that leads through a
directory that is not there (`"path"`). With the second `CreateEvent` leaves what
`create_event` leaves when it returns -1: START and RES, and no reference in CREATED; and
`get_event`, hence `IsEventOwner`, fails on the event. `IsDateBeforeNow` is the test by
the minute, `EventTimestamp` the conversion to seconds, with `DstShift` for what `tm_isdst
= 0` adds to a summer date. `EventState` keeps the codes of `get_event_state`: 3 closed, 0
past, 2 sold out, 1 active.

**`ESServer`** has one action for each of CRE, CLS, RID, LST, SED, LME, LMR, and takes
the account requests over from `Accounts`. `CreateWritten` is a CRE that passes the tests
and has a number, answered OK or, with a name that cannot be opened, NOK; the event is
on sale either way. `CreateRefusal`, `CloseRefusal`,
`ReserveRefusal` and `QueryRefusal` are the early returns of a handler **in the
code's order**, which is what decides the answer when several apply.
`auto_close_if_past` runs inside the handlers that call it (LST, SED, LME, RID, and
not CLS). `Tick` moves the clock between two requests.

**`TicketOffice`** is what the server promises, without files, passwords or a clock:
members sign in, sign out, leave, announce, sell and withdraw. `ESServer` maps
`free` to `START.seats - RES`, `onSale` to the events without `END`, `owner` to the
uid in `START`. `CutShortSpec` is the same office when a request can stop half-way: a
stranger may be left a member without a session (`Join`) and a leaver a member no
more one step after the session went (`Resign`). Seats and events know no halves.
`ESDisk` maps `free` to the seats in `START` without those told ACC, those lost to a
booking that was cut off, and those of the booking that is about to be answered;
`onSale` to the events whose `START` can be read, whose `RES` has not been emptied and
that have no `END`.

**`ESDisk`** has the directories and files of a user and of an event one by one, and
`job`, the handler that runs and the step it is at. `Begin...` are the tests of a
handler up to its first write; then each `mkdir`, each file written and each `unlink`
is an action named for it (`MakeEventDir`, `WriteRes`, `EraseLogin`, ...), in the
code's order, up to `SendAnswer`. An operation is *done*; *refused* (`mkdir` or `fopen`
fails, and the handler does what its code does then: `Proceed`); or *torn*: `fopen(..., "w")`
empties the file, the write fails, nobody notices. `Stop` ends the process between any
two steps. What no file says is kept in history variables for the properties: `told`
(the password a user was last told is theirs), `owner` (who was told RCE OK), `sold`
(seats told ACC), `leaked` (seats counted for a booking that was cut off before the
answer), `doubt` and `marred` (what a torn write or a cut-off request leaves undecided),
`sales` (the seats last told ACC for each booking name) and `shared` (the names that were
written again). A booking is named after its event, its user and its second, as its two
files are, so `eventRes` and `userRes` are functions of that name, and a second booking
in the same second writes over the first. `Instants` are these seconds; a description
that cannot be opened (`FileInputs`) fails `WriteDescription` without a fault.

**`ESClient`** has `session` (`client_state`), `waiting` (the command that waits for its
answer) and `flight` (datagrams under way), over the files of `Accounts`. `Cmd...` are the
client's commands, `Serve` the server taking one datagram, `Receive` and `TimeOut` the two
ends of `send_udp_receive_response`; `ServeTcp` answers a `changePass`, `ReadTcp` and
`ConnectionBreaks` are the two ways its read can return. `Restart` is a client that exits
and is started again. UIDs in `Shared` are also used by other clients (`ServeOther`).
`unsure` is a history variable: a command about the session went without an answer and
nothing has settled it since.

**`ESLoop`** has `at` and `ready` (where `main` is in its round and what `select` said),
`backlog`, `conn` and `toSend` (the connection that is served), and for each client the
state of its connection (`link`) and the pieces that are unsent, in the server's
receive buffer (`inbox`), in the client's (`outbox`) and read (`received`). `Accept`,
`ReadFirst`, `ReadMore`, `NoMore` (SO_RCVTIMEO), `Write`, `Finish` follow `ES.c` and the
write loop of SED; `Connect`, `SendPiece`, `ReadAnswer`, `ReadEnd` the TCP commands of
`user.c`. A client of SED may stop at a newline that ends a portion (`NewlineAfter`),
one of LST may read on past its newline (`ReadsOn`). `WriteKills` is SIGPIPE.

**`Calendar`** has no state: a date is a record of its fields, `ValidateDatetimeRange`
and `Earlier` are `validate_datetime_range` and `compare_dates`, `MinuteOf` and `DateOf`
what `mktime` and `localtime` make of a date and back. It is the ground for having a
date as the number of its minute in `EventDatabase`; `MCLifecycle` puts the two together.

The operators named *Name*`_`*variant*, commented "Slip", are wrong versions of the
definition that follows them (a test left out, a sum forgotten). No specification
uses them. They are there so that each property can be seen to fail: put
the slip in place of the definition, run the configuration, and TLC finds the
property violated. `PROJECT.json` pairs each property with its slip.

## 4. The runs

Run one with `tlc -config MCx.cfg MCmodule`.

| Configuration | Instance | What it shows |
|---|---|---|
| `MCReservations` | 2 users, 2 passwords, 1 event of 10 seats with or without a description, bookings of 4 and 6 | In every order of all requests: whoever has a login file has a password file and a directory; a password file changes only in that user's own session. No overbooking; the reservation files never hold more seats than `RES`; no booking after the second of the start; `CREATED` and the `START` files agree, also after a CRE that failed half-way; the number in a REJ can really be had; LMR tells the files with the first names and no others; the server implements `TicketOffice`. |
| `MCLifecycle` | 2 users, 1 password, 2 events on two dates, full bookings | Types; an event's state only advances; `END` appears only for a passed date or by the logged-in owner; numbers are dense and `START` is never rewritten; "past" is only ever reported in the event's own minute. And at every instant: of any accepted date `is_date_before_now` says by the fields what minutes say, and the clock shows that date exactly when its minute comes. |
| `MCDisk` | 2 users, one of them registered from the start, 1 password, 2 events of 10 seats each sold out by one booking, 2 faults or stops | Through any two faults at any steps: an owner keeps what was confirmed, `CREATED` is true also of a number that is freed and given again, and the accounts and events that are spoilt are no more than the faults there have been. |
| `MCBookings` | 2 users, one of them registered from the start, 2 passwords, 1 event of 10 seats with or without a description, bookings of 5 in 2 seconds, 2 faults or stops | Through any two faults: the event is not oversold, `RES` is exact when it can be read, every booking told ACC has its files (two of one user in one second share them), a refused event is nobody's, no session is without an account and no password other than the one told; without a fault the event is whole, but for the shared files and an Fname that cannot be opened. And all this together is a ticket office whose sign-ins and departures may be cut short. |
| `MCClient` | UIDs: one of this client alone, one shared, the default; 2 passwords; one datagram under way; any loss, answers within five seconds | The client's idea of its session is true unless a command got no answer; a login that succeeds is true. |
| `MCLoop` | 2 clients, one of them possibly silent, one UDP sender; a CRE of 2 pieces, answers of 3, a window of 2 | Server and client never wait for each other; who closes first has read everything (but for a newline in a description); only a client that is silent, or that stops at such a newline, can end the server by SIGPIPE; clients, datagrams and `_STOP` have their turn. |
| `MCClientLate` | as `MCClient`, answers may come later than five seconds, 2 datagrams | Refutes `LoginIsTrue`. |
| `MCShow` | 1 client | Refutes `ServerSurvives`. |
| `MCClosePassword`, `MCCreateLogin`, `MCLatestReservation`, `MCSummer` | 1 user | Each refutes one statement the program makes of itself (section 6). |

**The bounds, and why they are enough.**

* *Clock.* Only three instants are told apart for an event: before its start, the
  first second of its minute or later within it, and after the minute.
  `MCReservations` has {30, 60, 61} for an event in minute 1: before, at and after
  the second of the start, so that the test by the second alone decides.
  `MCLifecycle` has the seconds 30, 61 and 120 from the start of the first of two minutes
  with an event each: before (for the second one), within and after.
* *Dates of the calendar.* In `MCLifecycle` the clock passes from 29-02-2000, which exists
  by the rule for every fourth century, to 01-03. Beside the two dates of the events it has
  those around the ends of February of that year and of a common one, with the first and
  last hour and minute, and months, hours and minutes one too large.
* *Seats.* 10 is the smallest attendance the code accepts; bookings of 4 and 6 add
  up to 10 exactly (sold out) and 4+4, 6+6 reach the REJ. `MCLifecycle` uses 10 and
  the refused 9 (CRE) and 0 (RID).
  In `MCBookings` two bookings of 5 sell out, of two users or of one, in one second or in
  two, and a counter that is too small lets a third through. In `MCDisk` one booking sells
  the event out.
* *Fname.* `FileInputs` has both kinds in `MCReservations` and `MCBookings`. The other
  instances have names that can be opened only: an event whose description cannot be opened
  differs from others in who owns it, which these two runs are about.
* *Seconds of bookings.* Two instants in `MCBookings` give two bookings of a user that share
  their files and two that do not; `MCReservations` has three, by the clock.
* *Events.* `MaxEid` stands for `MAX_EVENTS`; with 1 or 2 the answer NOK of a full
  database happens. Events do not influence each other except through
  `get_next_eid` and the per-user lists, which two events show.
* *Users and passwords.* Two users give an owner and a stranger; two passwords a
  right and a wrong one. Both are symmetric: the specification compares them for
  equality only.
* *Event numbers of requests* are `0..MaxEid`: out of range, not created and
  existing ones.
* *`MaxQuery`* stands for `MAX_RESERVATIONS_QUERY` (50); 1 suffices to have a file
  told and a file left out.
* *Faults.* Two in `MCDisk`: a torn write followed by a stop is what a stop in the
  middle of a write leaves, and two refusals cover a user and an event, or two events,
  that are both damaged. The two events show a number that is freed and given again, one
  that stays used, and a second CRE after either; `MCBookings`, with one event, has the
  second password and the seconds instead, which two events do not need. One user is
  registered from the start and the other goes through registration itself. Each of the
  two instances has about a million states.
* *Datagrams.* With answers in time a client has one datagram under way, its own; a
  second slot adds nothing (`OneDatagram` in the proof says so for every number). A
  late answer needs the slot of the new request beside it: two.
* *Pieces.* Two pieces of a CRE give the pause between them. Three pieces of an answer
  and a window of two make a client that does not read block the server; a newline
  after the first leaves one write that is answered by a reset and one that raises
  SIGPIPE.
* *Clients of the loop.* One that goes on and one that may not; with a sender whose
  datagrams never end. The backlog of two holds both.

`CHECK_DEADLOCK` is on except for `MCLoop` and `MCShow`, where the server stops on
`_STOP` or SIGPIPE and nothing need happen afterwards.

**Fairness.** `ESServer` and `ESDisk` state none: their properties are about safety. Nor
does `ESClient`: that a command sent in a datagram ends is the time limit of `user.c:60`
itself, and a `changePass`, whose read has none (`user.c:823`), may wait for ever for a
server that a silent client holds (`ES.c:213`). `ESLoop!Spec` has weak fairness of the
server's steps together
- one thread that runs whenever it can - and of each client that is not in `Silent`
once it has connected; nobody has to connect, to type or to send. Weak fairness is
enough: a step of the server once possible stays possible until it is taken. The
liveness properties of the loop are conditional on `[]<>~Stuck`: a client in `Silent` may
hold the server in its first read or in a write for ever, which is what the code
allows (`ES.c:213`); TLC finds each of the three violated without the condition.

## 5. The proofs

The theorems hold for every set of users and passwords, every number of events,
every clock, every `DstShift` and every set of inputs. The assumptions are those
named in the modules: the marks are not users, passwords or events
(`MarksAssumption`, `PasswordsAssumption`, `NotAnEventAssumption`), the bounds are
positive (`BoundsAssumption`), instants, dates, seats and numbers are naturals
(`ClockAssumption`, `InputsAssumption`, `FieldsAssumption`).

| Theorem | Statement |
|---|---|
| `AccountsSafe`, `AccountsTypeSafe` (`AccountsProofs`) | `AccountsSpec => [](AccountsTypeOK /\ SessionsRegistered)` |
| `CredentialsSafe` | `AccountsSpec => CredentialsChangeInSession` |
| `ServerCredentialsSafe` (`ESServerProofs`) | the same two of the whole server |
| `NoOverbookingSafe`, `SalesStopSafe`, `CreatedSafe`, `TypeSafe` | `Spec => []NoOverbooking`, and likewise `SalesStopAtStart`, `CreatedMatchesStart`, `TypeOK` |
| `ServerImplementsOffice` | `Spec => ImplementsTicketOffice` |
| `ClosedForAReasonSafe`, `EventsPermanentSafe`, `LifecycleOnlyAdvancesSafe` (`ESLifecycleProofs`) | the three action properties of an event that exists |
| `PastOnlyInItsMinuteSafe` | `Spec => []PastOnlyInItsMinute` |
| `LedgersWithinCounterSafe`, `RejectTellsSeatsLeftSafe` (`ESLedgerProofs`) | what the files of an event hold, added up, against `RES` and the attendance |
| `FirstReservationsToldSafe` | `Spec => []FirstReservationsTold` |
| `DiskTypeSafe`, `NeverOversoldSafe`, `CounterExactSafe`, `FilesCoverSalesSafe`, `TellsOwnEventsSafe`, `RefusedEventsUnownedSafe`, `CreatedRefsSafe`, `SessionsHaveAccountsSafe`, `ToldPasswordSafe` (`ESDiskProofs`) | the invariants of `ESDisk` about single users and events, for any number of faults |
| `LossesWithinFaultsSafe` | `Spec => []LossesWithinFaults` |
| `DiskImplementsOffice` | `Spec => ImplementsCutShortOffice` |
| `ClientTypeSafe`, `SureBeliefSafe`, `LoginIsTrueSafe` (`ESClientProofs`) | `ASSUME ~Late PROVE Spec => ...` for `TypeOK`, `SureBelief`, `LoginIsTrue` |
| `LoopTypeSafe`, `NoMutualWaitSafe`, `ShownToTheEndSafe`, `KilledForAReasonSafe` (`ESLoopProofs`) | the three invariants of `ESLoop` and its action property |
| `FieldsOrderMinutes` (`CalendarProofs`) | `\A a, b \in Accepted : Earlier(a, b) <=> MinuteOf(a) < MinuteOf(b)` |
| `FieldsTellThePastAlways`, `AcceptedDatesComeAlways` | the two invariants of `MCLifecycle` about dates |

Three more theorems are the other side of runs that find a violation (section 6): they
say which condition the violation needs.

| Theorem | Statement | Run it completes |
|---|---|---|
| `CloseTellsPastOnStandardTime` (`ESLifecycleProofs`) | `ASSUME DstShift < 60 PROVE Spec => CloseTellsPast` | `MCSummer` |
| `LatestReservationListedUpToLimit` (`ESLedgerProofs`) | `LatestReservationListed` in every state where no user has more than `MaxQuery` files | `MCLatestReservation` |
| `ServerSurvivesSafe` (`ESLoopProofs`) | `ASSUME Silent = {}, NewlineAfter = {} PROVE Spec => []ServerSurvives` | `MCShow` |

The theorems about `ESDisk`, `ESClient` and `ESLoop` hold for any numbers of users,
events, faults, datagrams, clients and pieces, under `DiskAssumption`,
`AttendanceAssumption` (CRE lets 10 to 999 seats through),
`UidsAssumption`, `NetworkAssumption`, `NothingAssumption` and `LoopAssumption`. The
assumption on the window says that an answer may be larger than the socket buffers.

**The inductive invariant of the server.** None of these is inductive alone. `IInv` is
`AccountsInv /\ EventsInv`. `AccountsInv` is the type of the account files and
`SessionsRegistered`. `EventsInv` is the type of the event files and:

* `ended \subseteq Existing`: no `END` without `START`. Without it an event could be
  born closed, and `onSale` would not grow when it is announced;
* `eventRes = userRes`: both files of a reservation are there, so what is known of
  one directory holds for the other;
* `NoOverbooking`, `SalesStopAtStart` and `CreatedMatchesStart` themselves. The second
  says that every reservation file belongs to an existing event, which is what
  keeps it true when a `START` is written: no older booking can refer to it.

**The argument.** `NextCases` splits `Next` once into what a handler can do to the
files: `CreateStep` (a free number, a tested attendance, a registered owner),
`CloseStep` (some existing events get `END`), `SaleStep` (a booking by a logged-in user
with `EventState = 1` and at most `AvailableSeats`), `AccountStep` and `TickStep`.
`StepIInv` then has one case for each, and the refinement reuses the same split:
each case is one action of `TicketOffice` or a stutter. The booking case is where
the code matters: `EventState = 1` gives `now <= EventTimestamp`, hence
`SalesStopAtStart`; `people <= AvailableSeats` gives `NoOverbooking` and is the guard
`1..free[e]` of `Sell`; the login file tested by RID gives `Sell`'s `signedIn`. For
`Announce` only `members` is needed: CRE authenticates but does not ask for a session.

**What happens to an event** (`ESLifecycleProofs`). `EndCases` goes through `Next` once
for the END files: by CLS, where all the tests of `handle_close_event` and `close_event`
have been passed, or in `AutoClosed`, where the minute is over. `EventsPermanent` needs
one more invariant, `Dense`: the numbers in use have no gap, because `get_next_eid` gives
the one after the largest. With `START` fixed, `RES` and the clock only growing and END
files staying, `EventState` can only move on. For `PastOnlyInItsMinute` the two tests
meet: not closed by the minute gives `date >= now \div 60`, past by the second gives
`date <= now \div 60`, whatever the shift. With a shift of less than a minute the two
tests leave no event that CLS could close too late.

**The reservation files** (`ESLedgerProofs`). The invariant is that the files are finitely
many and that those of each event add up to at most `RES` (`LedgersInv`). A sum over
a set is a recursion on data, so it is first proved to exist: `NatIsInductive` derives
induction for a given set of numbers from the least number it leaves out
(`LeastNumber`), `SumExists` and `SumUnique` give the recursion in `MapThenSumSet` its
one solution for a finite set, and `SumMonotonic`, `SumAdded` say what fewer files or
one more do to it. A booking in the same second takes the older file away
before it adds its own, and the sum grows by no more than `RES` does.
For LMR, `NamesInv` says that no two files of one user have the same name; then `Before`
orders them totally, the rank of a file (how many come before it) is a one-to-one map
of `n` files onto `0..n-1` (`RankIs`, `RankOrders`), and those with a rank below
`MaxQuery` are the first ones (`FirstAre`).

**The disk.** `DiskInv` says for each step a handler can be at what it has written so far:
which steps belong to which request (`JobOK`), what the password file holds at this step
(`Expected`), what a CRE has made (`NewEvents`), that the seats in `RES`, sold and leaked
add up and stay within the attendance (`Numbers`), what the two files of each booking name
hold (`Ledgers`), and what the owner was told (`Papers`). The order of the code is what
makes it inductive: `RES` is counted after both files and before the answer; an empty
`RES` is not 0 for `get_event_state`, so no sale begins on it; LIN writes the password
before the login file and UNR erases them the other way round; a directory is made before
anything refers to its number.

**What faults cost.** `LossesInv` says that the users in `doubt` and the events that are
marred, leaked to or used up (`Spoilt`) are together at most `faults`: an operation that
succeeds adds none, one that fails adds its own user or its own event
(`FileOperationSpoilsOne`, `StopSpoilsOne`). Whoever is not among them is whole by `DiskInv`.
The bound is about passwords, owners, `RES` and the events' own files. Two things cost
without a fault and are left out of it (`Whole`): an event whose Fname cannot be opened has
no owner (`Misnamed`), and of two bookings of one user in one second the file of the first
is written over (`shared`). Nor does it hold of what LME and LMR show: a user whose
directory was left without `CREATED` or `RESERVED` (`file_system.c:53`) misses every later
event or booking there, and one whose own file of a booking could not be opened
(`event_database.c:423`) misses that one. Both happen in the model; no property forbids
them, for the code does not promise otherwise.

**The disk as a ticket office.** The mapping needs one more invariant, `StillSo`: what the
handler that runs has tested before its first write is still so at every later step
(whoever creates is a member, whoever books is a member in session and the event has not
ended, an event that is closed has a `START`), since nobody else runs. Then each file
operation is one step of the office or none: a booking counts in the step that writes
`RES`, whatever becomes of its answer; an event is announced in the step that writes
`START`; a `RES` that is emptied and not filled withdraws the event for good, as `END`
does.

**The client.** `ClientInv` follows the one datagram of the command that waits
(`OneDatagram`, `RequestIsCommand`): until it is served the belief is what it was, and
an answer under way leads, by `SessionAfter`, to a belief that is true of the files
(`AnswerLeads`). With late answers `OneDatagram` fails, and `LoginIsTrue` with it.

**The loop.** `LoopInv` places every open connection once, in the backlog or served
(`Places`), and counts its pieces (`Amounts`): what a client has sent and the server not
read is in its inbox, and nothing is answered before the request is read. The process is
ended in one place, `WriteKills`, by the client whose answer is written
(`OnlyWriteKills`); that client has left before the end of its answer, and `ShownToTheEnd`
says who may (`WhoKills`).

**The calendar.** A year is 365 or 366 days as `IsLeap` says (`YearLength`) and ends
before a later one begins (`YearsAdvance`), a month ends before a later one begins and
within its year (`MonthsAdvance`, `MonthInYear`): so an earlier day by the fields is an
earlier day by the count (`DaysAdvance`), and within a day hours and minutes decide.
The other direction asks for a date of each minute: a day lies in the year that the
mean length of a year points to, or in one beside it, and in one of its twelve months, so
`DateOf` finds the only accepted date whose minute it is (`AcceptedDatesCome`). The clock
shows that date, and `FieldsOrderMinutes` compares it with the event's (`FieldsTellThePast`).

**Only model-checked** is liveness, which is out of the prover's reach:
`EveryClientReturns`, `EveryDatagramRead`, `StopObeyed`. Every invariant, action property
and refinement that a passing run checks is a theorem.

## 6. Where the code and its own words disagree

`PROJECT.json` has them under `findings`, each with a run that shows it.

* CLS is answered NOK, says the client, for a wrong password. `handle_close_event`
  tests for a missing password file only, so a wrong password of a logged-in user goes on
  to the next tests and gets their answer: NOE in the trace, for an event that does not
  exist (`MCClosePassword`).
* CRE is described as requiring login. `handle_create_event` authenticates and does
  not look at the login file (`MCCreateLogin`).
* LMR puts the most recent reservation first, but only among the first 50 files by
  name: with more, the latest one can be missing (`MCLatestReservation`).
* CLS answers PST for an event that has passed. With a date in daylight saving time
  `date_to_timestamp` is an hour late, and CLS closes it (`MCSummer`).
* `cmd_login` prints that the user is logged in when it has read *an* OK or REG. It does
  not look at the response code, so the late answer to a command it has given up counts
  too: in the trace a late REG (`MCClientLate`). Answers are late when the server is held
  up by a TCP client for more than five seconds, which `ES.c:213` allows.
* `handle_show_event` reports a failed write and returns. The process does not get
  that far: the second write after the client has closed raises SIGPIPE, which ends
  the server (`MCShow`). The client of SED closes early when a portion ends in a newline
  of the description.

Other things a reader should know, which no sentence of the repository denies: after a
LOU whose answer is lost the client holds itself logged in until it is started again
or another client logs the user in: it refuses `login` without asking the server, and
the server answers a repeated `logout` with NOK, which leaves the flag;
`validate_datetime_range` does not look at the year; a description that begins with
blanks is reported incomplete by the client of SED (`user.c:975`).

## 7. What is assumed, and what is left out

* **One request at a time.** `main` is one thread and calls a handler to its end, so
  a handler is one atomic action. This is what the code does, not an abstraction.
* **Disk.** `ESServer` takes the disk to be reliable and the process not to stop;
  `ESDisk` lifts both. In `ESDisk` reading, `stat`, `unlink` and `rmdir` succeed, and what
  was written before a stop is on the disk (the machine goes on, the process stops).
* **One reading of the clock per handler.** A handler may call `time` several times;
  `ESServer` takes the handler to run within one second. `ESDisk` has no clock: every
  event is in the future, and a booking is made in any of the seconds `Instants`, in no
  order.
* **Answers are sets.** The order inside LST, LME and LMR, and their text, are not
  modelled. An LST answer is complete up to the number of events its buffer holds
  (about 240; LME about 680), which the bounds stay below.
* **The description** is there or not; its contents are not modelled, except for
  newlines at the end of a portion in `ESLoop`.
* **Validation** is one malformed request per message: the character classes of what is
  validated are left out. `Fname` is not validated by the server: it is a name that can be
  opened in `DESCRIPTION` or one that cannot. Assumed is that it is not the path of
  another file of the database, which the description would then be written over: `user.c`
  sends the last part of a path only, but the server does not rely on it. Dates are minute
  numbers, which `Calendar` justifies where clocks are not put forward or back; `DstShift`
  is for where they are.
* **Datagrams** are lost, delayed and overtaken, and not duplicated: no layer of the
  program repeats one. `_STOP` by datagram is in `ESLoop`.
* **Pieces of a message** stand for the portions TCP delivers. A short request (RID,
  CLS, CPS, SED, LST) comes in one, which is what a write of some fifty bytes on a local
  connection does; the code has no loop for it.
* **Not modelled:** what the client prints and the checks of what is typed; the file
  read for `create` and the one written by `show`; how LST and SED answers are taken
  apart; the sort of LMR; the arithmetic of the list buffers and other memory; the
  set-up of the sockets and the arguments of both programs; unknown commands, which
  change nothing; `src/Makefile`, the sample descriptions, `src/README.md` (which
  describes another program) and the empty `file_transfer.c`.

## 8. Plan

Done: the core and its theorems (`Accounts`, `EventDatabase`, `ESServer`,
`TicketOffice`), the disk (`ESDisk`), the client (`ESClient`), the loop (`ESLoop`) and
the calendar, each with its invariants proved. What would come next, most valuable first:

1. **The clock in `ESDisk`**: ticks between the steps of a RID, with
   `SalesStopAtStart` weakened to the seconds a handler takes.
2. **`ESDisk` implements `ESServer`** while nothing fails, by a refinement that takes
   effect at the last file of each handler.
3. **`ReservationOrder`, `ListBuffer`**: pure operators checked against reference
   definitions: the sort of LMR, the arithmetic of the list buffers at their limit.
4. **The client's parsing** of LST and SED answers, with the file `show` writes.
