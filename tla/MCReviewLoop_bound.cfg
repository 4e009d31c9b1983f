SPECIFICATION FairSpec
CONSTANTS
    Heads = {h1}
    FirstHead = h1
    NoHead = NoHead
    SkipHeads = {}
    Results = {"clean", "findings"}
    Outside = {"verdict"}
    MaxOutside = 1
    MaxFailures = 1
    MaxRounds = 1
    MaxChases = 2
PROPERTIES
    DroppedVerdictsAreReconciled
CHECK_DEADLOCK FALSE
