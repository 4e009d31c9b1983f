SPECIFICATION Spec
CONSTANTS
    Heads = {h1}
    FirstHead = h1
    NoHead = NoHead
    SkipHeads = {}
    Results = {"clean", "findings"}
    Outside = {"retarget", "verdict", "comment"}
    MaxOutside = 3
    MaxFailures = 0
    MaxRounds = 2
    MaxChases = 2
PROPERTIES
    CleanNamesItsSubject
    CleanAfterBurnIsNew
CHECK_DEADLOCK FALSE
