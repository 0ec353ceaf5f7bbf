\* A user who logs out and then creates an event.
SPECIFICATION Spec
CONSTANTS
    Users = {u1}
    Passwords = {p1, p2}
    NoFile = NoFile
    NoUser = NoUser
    MaxEid = 1
    MaxQuery = 2
    Instants = {30, 60, 61}
    DstShift = 0
    DateInputs = {1}
    SeatInputs = {10}
    FileInputs = {"file"}
    PeopleInputs = {10}
PROPERTY CreateRequiresLogin
