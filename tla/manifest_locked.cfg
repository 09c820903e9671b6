SPECIFICATION FairSpec
CONSTANTS
    Proc = {p1, p2}
    EntryKey = {e1}
    west = west
    east = east
    edo = edo
    PlanKey = {west, east, edo}
    Field = {"provider", "dataset", "bounds", "source_periods", "requested_years", "resources", "resolved_years"}
    Compared = {"dataset", "bounds", "source_periods", "requested_years"}
    Stated <- MCStated
    Found <- MCFound
    EntryFields <- MCEntryFields
    Said = {"jrc", "jrc-edo", "noaa-stations", "glofas", "fapar", "west", "east", "all"}
    Val = {v1, v2}
    NoVal = NoVal
    NoUpdate = NoUpdate
    NoProc = NoProc
    Absent = Absent
    Torn = Torn
    LocksSupported = TRUE
INVARIANTS ReadStaysCurrent MirrorIsCurrent
PROPERTIES ImplementsStore WaiterGetsThrough
