SPECIFICATION Spec
CONSTANTS
    Clients = {c1, c2}
    NoClient = NoClient
    Timeout = 2
    Grace = 8
    Floor = 1
    AuthBudget = 1
    ReserveDivisor = 2
    ReserveCap = 1
    BootMax = 1
    MaxBoots = 1
    ReplyNamesTurn = {TRUE, FALSE}
    EventForms <- AnyForm
    Refusals <- OneRefusal
SYMMETRY Symmetry
CHECK_DEADLOCK FALSE
INVARIANTS
    TypeOK
    SerialCalls
    KnownIdentityDecides
    ThreadsAreDropped
    DeliveredIsDropped
