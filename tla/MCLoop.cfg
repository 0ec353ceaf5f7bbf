\* Two clients, one of which may be silent, and a sender that never tires.
SPECIFICATION Spec
CONSTANTS
    Clients = {c, s}
    Silent = {s}
    Senders = {d}
    NoClient = NoClient
    CreatePieces = 2
    ShowPieces = 3
    NewlineAfter = {1}
    Window = 2
    Backlog = 2
CHECK_DEADLOCK FALSE
INVARIANT TypeOK
INVARIANT NoMutualWait
INVARIANT ShownToTheEnd
PROPERTY EveryClientReturns
PROPERTY EveryDatagramRead
PROPERTY StopObeyed
PROPERTY KilledForAReason
