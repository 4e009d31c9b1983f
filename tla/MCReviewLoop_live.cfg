SPECIFICATION FairSpec
CONSTANTS
    Heads = {h1, h2}
    FirstHead = h1
    NoHead = NoHead
    SkipHeads = {h2}
    Results = {"clean", "findings"}
    Outside = {"push", "verdict"}
    MaxOutside = 2
    MaxFailures = 1
    MaxRounds = 2
    MaxChases = 2
PROPERTIES
    VerdictsAreHeard
    HeadsGetReviewers
CHECK_DEADLOCK FALSE
