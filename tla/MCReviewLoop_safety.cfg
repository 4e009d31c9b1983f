SPECIFICATION Spec
CONSTANTS
    Heads = {h1, h2}
    FirstHead = h1
    NoHead = NoHead
    SkipHeads = {h2}
    Results = {"clean", "findings", "empty"}
    Outside = {"push", "close", "retarget", "hold", "refusal", "verdict", "substitute", "testimony", "comment"}
    MaxOutside = 2
    MaxFailures = 1
    MaxRounds = 1
    MaxChases = 2
INVARIANTS
    TypeOK
    MarkedOnce
    MarkersTellTheTruth
PROPERTIES
    ToldOnce
    DeadHeadsAreQuiet
    StopsAreRespected
    ScansAreCurrent
CHECK_DEADLOCK FALSE
