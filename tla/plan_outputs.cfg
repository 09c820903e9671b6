SPECIFICATION OutputsSpec
CONSTANTS
    Unit = {1, 2, 3, 4, 5}
    Cell = {1, 2, 3}
    Shape <- Shapes
    Parent <- Parents
    ParentShapes <- BothShapes
    Country <- Countries
    MaxBatch = 2
    p1 = p1
    p2 = p2
    a = a
    b = b
    y1 = y1
    y2 = y2
    minimum = minimum
    Proc = {p1, p2}
    None = None
    Torn = Torn
    Sharing <- Requests
    FloodTiles = {"inside", "outside"}
    FloodOutside = {"outside"}
    Years = {y1, y2}
    Late = {y2}
    MaxRevision = 2
    Keepers = {p2}
    Tails = {"upper"}
    MaxVersion = 2
    Streams <- FitSources
    MinRows = 2
    RasterWidth = 3
    RasterHeight = 2
    IngestAreas <- TileAreas
    IngestSizes <- TileSizes
    IngestRasters <- TileRasters
    Builds <- ArchiveRequests
    Disk = 4
    ScratchFloor = 1
    DefaultFactor = 2
INVARIANTS CoverageIsHonest FitsAreWhole TilesPartitionPixels CropsAreHonest OutputsAreOfTheirPlan ArchivesAreHonest
CHECK_DEADLOCK FALSE
