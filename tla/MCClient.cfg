\* A network that loses datagrams; an answer that comes, comes in time.
SPECIFICATION Spec
CONSTANTS
    Users = {zero, a, b}
    Passwords = {p, q}
    NoFile = NoFile
    NoUser = NoUser
    Own = {a}
    Shared = {b}
    DefaultUid = zero
    DefaultPassword = p
    Slots = 1
    Late = FALSE
    Nothing = Nothing
INVARIANT TypeOK
INVARIANT SureBelief
PROPERTY LoginIsTrue
