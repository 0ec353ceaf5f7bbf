\* Up to two faults or stops, at any step, of an account with two passwords and of the
\* bookings two users make of one event in two seconds.
SPECIFICATION Spec
CONSTANTS
    Users = {u1, u2}
    Passwords = {p, q}
    NoFile = NoFile
    NoUser = NoUser
    Torn = Torn
    MaxEid = 1
    SeatInputs = {10}
    FileInputs = {"file", "path"}
    PeopleInputs = {5}
    Instants = {1, 2}
    Regulars = {u2}
    FirstPassword = p
    MaxFaults = 2
INVARIANT NeverOversold
INVARIANT CounterExact
INVARIANT FilesCoverSales
INVARIANT RefusedEventsUnowned
INVARIANT SessionsHaveAccounts
INVARIANT ToldPasswordKept
INVARIANT LossesWithinFaults
PROPERTY ImplementsCutShortOffice
