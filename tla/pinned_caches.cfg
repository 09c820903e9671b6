SPECIFICATION PinnedSpec
CONSTANTS
    Proc = {p1, p2}
    Makers = {p1}
    Station = {s1, s2}
    InArea = {s1, s2}
    Named = s1
    MaxVersion = 2
    None = None
    Part = {q}
    EntryKey = {}
    jrc = jrc
    edo = edo
    Val = {v1, v2}
    NoVal = NoVal
    NoUpdate = NoUpdate
    NoProc = NoProc
    Absent = Absent
    Torn = Torn
INVARIANTS StationsAreWhole ReleasesAreKept ManifestIsConsistent
PROPERTIES NoPinMoves
