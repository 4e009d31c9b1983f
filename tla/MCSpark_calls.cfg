SPECIFICATION ApartSpec
CONSTANTS
    MaxCalls = 3
    MaxAsks = 1
    StdinCap = 4
    StdoutCap = 2
    Daemons = {d1, d2}
    NoDaemon = NoDaemon
    MaxEvents = 4
    MaxBytes = 5
    Chunks = {1, 2, 3}
INVARIANTS
    TypeOK
    RepliesAreOwn
    OnlyTheOpenCallWaits
    OpenCallsAreTold
    DeathHasACause
    CliTypeOK
    RecordIsWhatTheCallerHears
    CountIsRight
    SpanIsExact
PROPERTIES
    ImplementsRpcCalls
    CallsReturn
    NothingIsReadAfterTheSpan
CHECK_DEADLOCK FALSE
