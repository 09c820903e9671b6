---------------------------- MODULE MCPlanOutputs ----------------------------
(***************************************************************************)
(* What plans write: the coverage of cells by polygons, the stream of fits *)
(* into a canonical file and its sidecar, the shards of a tiled ingest,    *)
(* the crops of the JRC plans, the outputs of plans over the user's own    *)
(* data, and PMTiles archives.  They share nothing: a behaviour chooses    *)
(* one, and the others stay in an initial state.                           *)
(***************************************************************************)
EXTENDS Coverage, TLC

CONSTANTS
    p1, p2, a, b, y1, y2, minimum,
    Proc, None, Torn,
    Sharing, FloodTiles, FloodOutside, Years, Late, MaxRevision,
    Keepers, Tails, MaxVersion,
    Streams, MinRows,
    RasterWidth, RasterHeight, IngestAreas, IngestSizes, IngestRasters,
    Builds, Disk, ScratchFloor, DefaultFactor

VARIABLES
    topic,
    fSource, fPolicy, fRead, fPulled, fFit, fFitted, fSummary, fPartial, fSidecar, fPc, fStaged, fOutput,
    tArea, tSize, tPolicy, tWorkers, tRaster, tPc, tTile, tShard, tPartial, tSidecar, tOpeners,
    jRequests, jRevision, jFile, jStaging, jRecord, jOutput, jRaced, jPc, jCall,
    bKind, bData, bOutputs, bPc, bCall,
    aFree, aArchive, aPc, aCall

fits  == <<fSource, fPolicy, fRead, fPulled, fFit, fFitted, fSummary, fPartial, fSidecar, fPc, fStaged, fOutput>>
tiles == <<tArea, tSize, tPolicy, tWorkers, tRaster, tPc, tTile, tShard, tPartial, tSidecar, tOpeners>>
crops == <<jRequests, jRevision, jFile, jStaging, jRecord, jOutput, jRaced, jPc, jCall>>
own   == <<bKind, bData, bOutputs, bPc, bCall>>
archives == <<aFree, aArchive, aPc, aCall>>

-----------------------------------------------------------------------------
\* Coverage: three cells of two parents, with the first cell reaching out of its
\* parent's polygon, and the same parents drawn around their children.
Shapes == <<{1, 2, 3}, {4}, {5}>>
Parents == <<"A", "A", "B">>
Bulging == [A |-> {1, 2, 4}, B |-> {3, 5}]
Around == [A |-> {1, 2, 3, 4}, B |-> {5}]
BothShapes == {Bulging, Around}
Countries == [p |-> "X", q |-> "X", r |-> "Y"]

\* Fits: up to three batches of up to two rows, and rows whose keys repeat.
FitRow(k, f) == [key |-> k, fit |-> f]
Kinds == {"fitted", "no_data", "skipped", "rejected"}
FitSources ==
    LET first == FitRow(1, "fitted") IN
    {<<>>, <<<<>>, <<first>>>>, <<<<first>>, <<first>>>>}
      \cup {<<<<FitRow(1, f), FitRow(2, g)>>, <<FitRow(3, h)>>>> : f \in Kinds, g \in Kinds, h \in Kinds}
      \cup {<<<<first>>, <<FitRow(2, f)>>, <<FitRow(3, g), FitRow(4, "fitted")>>>> : f \in Kinds, g \in Kinds}

F == INSTANCE FitStream WITH
        Sources <- Streams,
        source <- fSource, policy <- fPolicy, read <- fRead, pulled <- fPulled, fit <- fFit,
        fitted <- fFitted, summary <- fSummary, partial <- fPartial, sidecar <- fSidecar,
        pc <- fPc, staged <- fStaged, output <- fOutput

\* Tiles: an area that is the raster, one that cuts its pixels, two that reach out
\* of it on different sides, and one inside a single pixel.
TileSizes == {3, 4, 12}
TileAreas == {<<0, 0, 6, 4>>, <<1, 1, 5, 3>>, <<-3, 1, 4, 4>>, <<3, -1, 9, 3>>, <<2, 2, 3, 3>>}
Fits == [p \in (0..2) \X (0..1) |-> "fit"]
TileRasters ==
    {[Fits EXCEPT ![<<1, 0>>] = k[1], ![<<2, 1>>] = k[2]] :
        k \in {<<"fit", "fit">>, <<"second", "fit">>, <<"bad", "off">>, <<"dropped", "few">>}}

T == INSTANCE TiledIngest WITH
        Width <- RasterWidth, Height <- RasterHeight,
        Areas <- IngestAreas, Sizes <- IngestSizes, Rasters <- IngestRasters,
        area <- tArea, size <- tSize, policy <- tPolicy, workers <- tWorkers, raster <- tRaster,
        pc <- tPc, tile <- tTile, shard <- tShard, partial <- tPartial, sidecar <- tSidecar,
        openers <- tOpeners

\* Crops: two floods of one raster, one of them of more return periods, and a
\* drought.
Flood(requested, parts) == [kind |-> "flood", requested |-> requested, parts |-> parts, sources |-> {}]
Drought == [kind |-> "drought", requested |-> "pinned", parts |-> {minimum}, sources |-> {}]
Requests ==
    {{<<p1, Flood("pinned", {a}), "ensure">>, <<p2, Flood("latest", {a}), "prefetch">>},
     {<<p1, Flood("pinned", {a, b}), "ensure">>, <<p1, Flood("latest", {a}), "prefetch">>},
     {<<p1, Drought, "ensure">>, <<p1, Drought, "prefetch">>}}

J == INSTANCE CropCache WITH
        Tiles <- FloodTiles, Outside <- FloodOutside,
        requests <- jRequests, revision <- jRevision, file <- jFile, staging <- jStaging,
        record <- jRecord, output <- jOutput, raced <- jRaced, pc <- jPc, call <- jCall

B == INSTANCE BYOCache WITH
        kind <- bKind, data <- bData, outputs <- bOutputs, pc <- bPc, call <- bCall

\* Archives: two layers of windows that differ, one of them projected, a layer
\* without any place, and what builds may be refused for.
Source(bytes, rows, primary, crs) ==
    [bytes |-> bytes, primary |-> primary, crs |-> crs,
     rows |-> {[id |-> i, located |-> i # 2] : i \in rows},
     columns |-> {"geom", "shape", "bbox", "name", "rp10"}]
Layer(name, zooms, source, columns) ==
    [name |-> name, zooms |-> zooms, preset |-> "polygons", source |-> source, columns |-> columns]
Points == Layer("points", <<0, 1, 2>>, Source(1, {1, 2}, "shape", "EPSG:3857"), {"name"})
Houses == Layer("houses", <<2, 4>>, Source(1, {1, 2, 3}, None, None), None)
Nowhere == Layer("nowhere", <<3>>, Source(0, {2}, None, None), None)

Request(layers, to, fraction) ==
    [layers |-> layers, to |-> to, fraction |-> fraction, envFraction |-> None,
     factor |-> None, envFactor |-> None]
ArchiveRequests ==
    {Request(<<Points, Houses>>, "local", <<1, 2>>), Request(<<Houses, Nowhere>>, "local", None),
     Request(<<Houses>>, "local", <<5, 4>>),
     Request(<<[Houses EXCEPT !.zooms = <<4, 2>>]>>, "local", None),
     [Request(<<Points, Houses>>, "remote", <<1, 2>>) EXCEPT !.factor = 1],
     [Request(<<Points>>, "local", <<3, 4>>) EXCEPT !.envFactor = 3],
     [Request(<<Nowhere, Houses>>, "local", None) EXCEPT !.envFraction = <<1, 2>>],
     [Request(<<Nowhere>>, "local", None) EXCEPT !.envFraction = <<7, 4>>]}

A == INSTANCE PMTilesBuild WITH
        Requests <- Builds, Floor <- ScratchFloor,
        free <- aFree, archive <- aArchive, pc <- aPc, call <- aCall

ASSUME Assumptions ==
    /\ A!PMTilesAssumption /\ J!CropAssumption /\ B!BYOCacheAssumption
    /\ T!TiledIngestAssumption /\ F!FitStreamAssumption

-----------------------------------------------------------------------------
\* The initial state of what a behaviour leaves aside.
OneCoverage ==
    /\ poly = [x \in Poly |-> {}] /\ parentShape = Around /\ hierarchy = FALSE /\ batch = 1
OneFit ==
    /\ fSource = CHOOSE stream \in Streams : TRUE
    /\ fSidecar = F!No /\ fOutput = F!No
    /\ fPolicy = [prefetch |-> FALSE, skip |-> FALSE, strict |-> FALSE, overwrite |-> FALSE]
OneTiling ==
    /\ tArea = CHOOSE region \in IngestAreas : TRUE
    /\ tSize = CHOOSE step \in IngestSizes : TRUE
    /\ tRaster = CHOOSE raster \in IngestRasters : TRUE
    /\ tWorkers = 1
    /\ tPolicy = [fallback |-> FALSE, samples |-> TRUE, diagnostics |-> FALSE, skip |-> FALSE]

OutputsInit ==
    /\ topic \in {"coverage", "fits", "tiles", "crops", "own", "archives"}
    /\ topic # "coverage" => OneCoverage
    /\ topic # "fits" => OneFit
    /\ topic # "tiles" => OneTiling
    /\ topic # "crops" => jRequests = CHOOSE asked \in Sharing : TRUE
    /\ topic # "own" => bKind = "table in memory"
    /\ Init /\ F!Init /\ T!Init /\ J!Init /\ B!Init /\ A!Init
    /\ topic # "tiles" => \A t \in DOMAIN tShard : tShard[t] = {}

OutputsNext ==
    /\ \/ topic = "coverage" /\ Next /\ UNCHANGED <<fits, tiles, crops, own, archives>>
       \/ topic = "fits" /\ F!Next /\ UNCHANGED <<vars, tiles, crops, own, archives>>
       \/ topic = "tiles" /\ T!Next /\ UNCHANGED <<vars, fits, crops, own, archives>>
       \/ topic = "crops" /\ J!Next /\ UNCHANGED <<vars, fits, tiles, own, archives>>
       \/ topic = "own" /\ B!Next /\ UNCHANGED <<vars, fits, tiles, crops, archives>>
       \/ topic = "archives" /\ A!Next /\ UNCHANGED <<vars, fits, tiles, crops, own>>
    /\ UNCHANGED topic

OutputsSpec == OutputsInit /\ [][OutputsNext]_<<topic, vars, fits, tiles, crops, own, archives>>

-----------------------------------------------------------------------------
\* Each cell and polygon that overlap have one row with their share (where
\* children lie in their parents), a failed call leaves nothing a later one
\* collides with, and the lookup agrees with the rows.
CoverageIsHonest == CoverageIsExact /\ NoCollision /\ LookupAgrees

\* A published output has the canonical rows of the whole source, each key once,
\* and a sidecar has a row for each source row, whatever thread failed.
FitsAreWhole == F!SidecarIsWhole /\ F!OutputIsWhole

\* The shards partition the pixels an area selects, and the sidecar of a run of a
\* single tile describes it.
TilesPartitionPixels == T!ShardsPartitionPixels /\ T!SidecarOfOneTile

\* JRC: a call that prepared its files alone can be repeated offline from what its
\* record names, and its output was made of that.
CropsAreHonest == J!CropsAreHonest

\* A plan over the user's data never gets what was read for another plan or from
\* an earlier state of the data.
OutputsAreOfTheirPlan == B!OutputsAreOfTheirPlan

\* A PMTiles archive holds what each of its layers asks for, and builds at one time
\* whose shares of the disk add up do not fill it.
ArchivesAreHonest == A!ArchiveIsOfItsLayers /\ A!SharesAddUp
=============================================================================
