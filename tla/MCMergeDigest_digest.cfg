SPECIFICATION BothSpec
CONSTANTS
    p1 = p1
    p2 = p2
    Pulls = {p1, p2}
    RepoList <- Repository
    RepoOf <- Placed
    Runs = {1, 2}
    PageSize = 1
    BootstrapWindow = 1
    Overrides = {1, 3}
    MaxTime = 3
    MaxActive = 2
    MaxEvents = 1
    Closable = {p1, p2}
    Identities = {1, 2}
    MaxCommits = 4
    MaxBelow = 2
    ListCap = 3
    MaxRecords = 2
    RecordsPage = 1
SYMMETRY Alike
INVARIANTS
    TypeOK
    EveryMergeIsAccounted
    EntryTypeOK
    SpanIsWhole
    CheapIsEarned
    ShippedIsTold
PROPERTIES
    ReportsAreExact
CHECK_DEADLOCK FALSE
