\* One client that shows an event whose description has a newline after the first piece.
SPECIFICATION Spec
CONSTANTS
    Clients = {c}
    Silent = {}
    Senders = {d}
    NoClient = NoClient
    CreatePieces = 2
    ShowPieces = 3
    NewlineAfter = {1}
    Window = 2
    Backlog = 2
CHECK_DEADLOCK FALSE
INVARIANT ServerSurvives
