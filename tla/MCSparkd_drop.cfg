SPECIFICATION Spec
CONSTANTS
    Clients = {c1}
    NoClient = NoClient
    Timeout = 3
    Grace = 8
    Floor = 1
    AuthBudget = 2
    ReserveDivisor = 2
    ReserveCap = 1
    BootMax = 1
    MaxBoots = 1
    ReplyNamesTurn <- Always
    EventForms <- BothForms
    Refusals <- OneRefusal
SYMMETRY Symmetry
CHECK_DEADLOCK FALSE
INVARIANT
    DropIsBoth
