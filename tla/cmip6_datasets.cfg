SPECIFICATION Spec
CONSTANTS
    Proc = {p1, p2}
    Year = {1, 2}
    Grid = {gn, gr}
    PreferredGrid = gn
    MaxVersion = 2
    Restrictive = {2}
    Request <- Mixed
    AnyGrid = AnyGrid
    Latest = Latest
    NoDataset = NoDataset
SYMMETRY Symmetry
INVARIANTS OneDataset StrictIsStrict ResolvedCallIsUniform
