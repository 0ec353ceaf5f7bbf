\* One event of 10 seats in minute 1, bookings of 4 and 6 before, at and after its start.
SPECIFICATION Spec
CONSTANTS
    Users = {u1, u2}
    Passwords = {p1, p2}
    NoFile = NoFile
    NoUser = NoUser
    MaxEid = 1
    MaxQuery = 1
    Instants = {30, 60, 61}
    DstShift = 0
    DateInputs = {1}
    SeatInputs = {10}
    FileInputs = {"file", "path"}
    PeopleInputs = {4, 6}
SYMMETRY Symmetry
INVARIANT SessionsRegistered
INVARIANT NoOverbooking
INVARIANT LedgersWithinCounter
INVARIANT CreatedMatchesStart
INVARIANT SalesStopAtStart
INVARIANT RejectTellsSeatsLeft
INVARIANT FirstReservationsTold
PROPERTY CredentialsChangeInSession
PROPERTY ImplementsTicketOffice
