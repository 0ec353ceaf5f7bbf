\* A network that loses datagrams; an answer may come after the client has given up.
SPECIFICATION Spec
CONSTANTS
    Users = {zero, a, b}
    Passwords = {p, q}
    NoFile = NoFile
    NoUser = NoUser
    Own = {a}
    Shared = {b}
    DefaultUid = zero
    DefaultPassword = p
    Slots = 2
    Late = TRUE
    Nothing = Nothing
PROPERTY LoginIsTrue
