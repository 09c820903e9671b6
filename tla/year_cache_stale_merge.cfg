SPECIFICATION Spec
CONSTANTS
    Proc = {p1, p2}
    Year = {1, 2}
    LegacyYear = {}
    Request = {Latest}
    Latest = Latest
    MaxRelease = 2
    FetchWorkers = 1
    Crashes = FALSE
    NoEntry = NoEntry
    Absent = Absent
    Torn = Torn
PROPERTIES MergeKeepsOthersEntries

