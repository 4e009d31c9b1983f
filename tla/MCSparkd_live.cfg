SPECIFICATION FairSpec
CONSTANTS
    Clients = {c1, c2}
    NoClient = NoClient
    Timeout = 1
    Grace = 0
    Floor = 1
    AuthBudget = 1
    ReserveDivisor = 2
    ReserveCap = 0
    BootMax = 0
    MaxBoots = 1
    ReplyNamesTurn <- Always
    EventForms <- BothForms
    Refusals = {}
CHECK_DEADLOCK FALSE
PROPERTIES
    LockComesBack
    QueuedAreAnswered
