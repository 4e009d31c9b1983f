SPECIFICATION Spec
CONSTANTS
    Clients = {c1}
    NoClient = NoClient
    Timeout = 6
    Grace = 10
    Floor = 1
    AuthBudget = 3
    ReserveDivisor = 2
    ReserveCap = 2
    BootMax = 3
    MaxBoots = 3
    ReplyNamesTurn = {TRUE, FALSE}
    EventForms <- AnyForm
    Refusals = {"auth", "unavailable"}
CHECK_DEADLOCK FALSE
INVARIANTS
    HopsEndInBudget
    WithinBudget
    PromptCallersAreHeard
