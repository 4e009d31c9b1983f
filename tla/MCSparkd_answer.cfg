SPECIFICATION Spec
CONSTANTS
    Clients = {c1, c2}
    NoClient = NoClient
    Timeout = 3
    Grace = 8
    Floor = 1
    AuthBudget = 2
    ReserveDivisor = 2
    ReserveCap = 1
    BootMax = 1
    MaxBoots = 1
    ReplyNamesTurn <- Never
    EventForms <- TurnForms
    Refusals <- OneRefusal
SYMMETRY Symmetry
CHECK_DEADLOCK FALSE
INVARIANT
    AnswerIsOwn
