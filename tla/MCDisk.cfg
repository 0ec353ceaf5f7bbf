\* Up to two faults or stops, at any step, of an account, two owners and two events, each
\* sold out by one booking.
SPECIFICATION Spec
CONSTANTS
    Users = {u1, u2}
    Passwords = {p}
    NoFile = NoFile
    NoUser = NoUser
    Torn = Torn
    MaxEid = 2
    SeatInputs = {10}
    FileInputs = {"file"}
    PeopleInputs = {10}
    Instants = {1}
    Regulars = {u2}
    FirstPassword = p
    MaxFaults = 2
INVARIANT TypeOK
INVARIANT TellsOwnEvents
INVARIANT CreatedRefsTrue
INVARIANT LossesWithinFaults
