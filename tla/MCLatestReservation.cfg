\* Two events, a limit of one reservation per answer, bookings at different times.
SPECIFICATION Spec
CONSTANTS
    Users = {u1}
    Passwords = {p1, p2}
    NoFile = NoFile
    NoUser = NoUser
    MaxEid = 2
    MaxQuery = 1
    Instants = {30, 60, 61}
    DstShift = 0
    DateInputs = {1}
    SeatInputs = {10}
    FileInputs = {"file"}
    PeopleInputs = {10}
INVARIANT LatestReservationListed
