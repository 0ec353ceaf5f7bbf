\* An event in daylight saving time, which mktime reads an hour late.
SPECIFICATION Spec
CONSTANTS
    Users = {u1}
    Passwords = {p1}
    NoFile = NoFile
    NoUser = NoUser
    MaxEid = 1
    MaxQuery = 2
    Instants = {60, 120}
    DstShift = 3600
    DateInputs = {1}
    SeatInputs = {10}
    FileInputs = {"file"}
    PeopleInputs = {10}
PROPERTY CloseTellsPast
