SPECIFICATION CallsSpec
CONSTANTS
    Batches = 3
    PipeCapacity = 2
    LogCapacity = 2
    IdleTimeout = 3
    p1 = p1
    None = None
    Latest = Latest
    NoEntry = NoEntry
    Absent = Absent
    Torn = Torn
    Year = {1, 2}
    LegacyYear = {1}
    Request = {Latest, 1}
    MaxRelease = 2
    FetchWorkers = 1
    Job = {1, 2, 3}
    MaxVersion = 1
    Workers = 2
    Crashes = TRUE
    Limit = 2
    Ids = {1, 2, 3, 4, 5, 6}
    MaxChanges = 2
    AtFirst = 4
INVARIANTS NoOrphan DoneIsComplete YearsAreWhole StationCallsAreAccounted PagesAreAMoment
PROPERTIES NothingStartsAfterFailure CallsEnd
CHECK_DEADLOCK FALSE
