SPECIFICATION Spec
CONSTANTS
    p1 = p1
    p2 = p2
    Proc = {p1, p2}
    Resource = {station, levels, annuals}
    Snapshot = {s1, s2, s3}
    Root = Root
    NoSnapshot = NoSnapshot
    Modes <- TwoWriters
INVARIANTS PointerIsWhole
