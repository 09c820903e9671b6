SPECIFICATION SharedSpec
CONSTANTS
    p1 = p1
    p2 = p2
    Proc = {p1, p2}
    Resource = {station, levels, annuals}
    Snapshot = {s1, s2, s3}
    Root = Root
    NoSnapshot = NoSnapshot
    Modes <- WriterAndReader
    None = None
    Latest = Latest
    NoEntry = NoEntry
    Absent = Absent
    Torn = Torn
    Year = {1}
    LegacyYear = {}
    Request = {Latest}
    MaxRelease = 2
    FetchWorkers = 2
    YearCallsCrash = TRUE
    Job = {1, 2}
    MaxVersion = 2
    Workers = 1
    StationCallsCrash = FALSE
    Years = {1, 2}
    Refreshers = {p2}
    Catalogue <- Catalogues
    Areas = {{"west"}, {"east"}}
    Periods <- RangesOfYears
INVARIANTS PointerIsWhole YearsAreReproducible StationEntriesAreHonest SnapshotsAreHonest SelectionsAreOfTheirCatalogue
PROPERTIES FilledStaysUsable
