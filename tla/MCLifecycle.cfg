\* Two events and a third that does not fit, each sold out by one booking.
\* The dates are 29-02-2000 23:59 and 01-03-2000 00:00; the clock shows the first (at its
\* 30th second), the second (at its first second) and the minute after.
SPECIFICATION Spec
CONSTANTS
    Users = {u1, u2}
    Passwords = {p1}
    NoFile = NoFile
    NoUser = NoUser
    MaxEid = 2
    MaxQuery = 2
    Instants = {951868770, 951868801, 951868860}
    DstShift = 0
    DateInputs = {15864479, 15864480}
    SeatInputs = {9, 10}
    FileInputs = {"file"}
    PeopleInputs = {0, 10}
    Days = {1, 28, 29, 30}
    Months = {2, 3, 13}
    Years = {1999, 2000}
    Hours = {0, 23, 24}
    Minutes = {0, 59, 60}
SYMMETRY Symmetry
INVARIANT TypeOK
INVARIANT PastOnlyInItsMinute
INVARIANT FieldsTellThePast
INVARIANT AcceptedDatesCome
PROPERTY LifecycleOnlyAdvances
PROPERTY ClosedForAReason
PROPERTY EventsPermanent
