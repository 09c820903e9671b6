------------------------------ MODULE RasterScan ------------------------------
(***************************************************************************)
(* How rasters are read: windows of pixels, strips and chunks of bounded   *)
(* size, crops, stacks of return periods, packed values and samples of H3  *)
(* cells (connectors/duckdb/zarr.py, geotiff.py, netcdf.py,                *)
(* _pixel_scan.py, geometry/h3.py).  World coordinates are counted in      *)
(* units from the raster's origin, Unit of them to a pixel, rows downwards.*)
(***************************************************************************)
EXTENDS Integers, FiniteSets, Sequences, SequencesExt, FiniteSetsExt

CONSTANTS
    Missing,    \* NaN and None
    Unit,       \* units in a pixel
    Epsilon     \* the slack of a GeoTIFF window, less than half a pixel

Floor(x) == x \div Unit
Ceil(x) == -((-x) \div Unit)
CeilDiv(a, b) == -((-a) \div b)

\* A half-open range of indices.
Span(start, stop) == [start |-> start, stop |-> stop]
Indices(span) == span.start..span.stop - 1
Steps(span, step) ==
    [k \in 1..CeilDiv(span.stop - span.start, step) |->
        Span(span.start + (k - 1) * step, Min({span.start + k * step, span.stop}))]

-----------------------------------------------------------------------------
(* Windows, on one axis. *)

\* ZarrRaster._pixel_window: every pixel the bounds touch.
ZarrRange(low, high, count) == Span(Max({0, Floor(low)}), Min({count, Ceil(high)}))

\* Mutation of TiffRange: offset and length are rounded separately.
TiffRangeRounded(low, high, count) ==
    LET start == (low + Unit \div 2) \div Unit IN
    Span(Max({0, start}), Min({count, start + (high - low + Unit \div 2) \div Unit}))

\* GeoTiffRaster._pixel_window: an exact edge may be off by the slack, and
\* bounds that are a point or a line select the pixel they fall in.
TiffRange(low, high, count) ==
    LET start == Floor(low + Epsilon)
        stop == Max({start + 1, Ceil(high - Epsilon)})
    IN  Span(Max({0, start}), Min({count, stop}))

\* Bounds are <<min x, min y, max x, max y>>; those out of order are refused.
TiffWindow(raster, b) ==
    [cols |-> TiffRange(b[1], b[3], raster.width), rows |-> TiffRange(b[2], b[4], raster.height)]

Pixels(window) == Indices(window.cols) \X Indices(window.rows)

-----------------------------------------------------------------------------
(* Strips, chunks and batches. *)

\* The rows of a strip: whole blocks, as many as the bytes allow.
StripRows(bytes, width, itemsize, block) ==
    LET rows == Max({block, bytes \div Max({1, width * itemsize})}) IN
    Max({block, (rows \div block) * block})

Strips(window, bytes, itemsize, block) ==
    Steps(window.rows, StripRows(bytes, window.cols.stop - window.cols.start, itemsize, block))

\* ZarrScan._batches: tiles of a chunk at most and of batch_rows rows.
BatchTile(window, chunk, batchRows, axis) ==
    LET target == Max({1, batchRows \div axis})
        width == Min({chunk[2], window.cols.stop - window.cols.start, target})
    IN  <<width, Min({chunk[1], window.rows.stop - window.rows.start, Max({1, target \div width})})>>

\* Row by row of tiles; ZarrRaster.iter_curves takes whole chunks.
Tiles(window, tile) ==
    LET rows == Steps(window.rows, tile[2])
        cols == Steps(window.cols, tile[1])
    IN  FlattenSeq([j \in DOMAIN rows |-> [i \in DOMAIN cols |-> [rows |-> rows[j], cols |-> cols[i]]]])

\* The pixels of a tile in row-major order.
InOrder(window) ==
    LET width == window.cols.stop - window.cols.start
        count == width * (window.rows.stop - window.rows.start)
    IN  [k \in 1..count |-> <<window.cols.start + ((k - 1) % width), window.rows.start + (k - 1) \div width>>]

\* Mutation of RecordBatch: the axis runs fastest, as in a point read.
RecordBatchPoints(array, tile) ==
    LET px == InOrder(tile)
        n == Len(px)
        a == Len(array.axis)
    IN  [k \in 1..n * a |->
            [at |-> px[1 + (k - 1) \div a], axis |-> array.axis[1 + ((k - 1) % a)],
             value |-> array.values[1 + (k - 1) \div n][px[1 + ((k - 1) % n)]]]]

\* ZarrScan._record_batch: the pixels repeat under each value of the axis, in
\* the order of the array's slices.
RecordBatch(array, tile) ==
    LET px == InOrder(tile)
        n == Len(px)
    IN  [k \in 1..n * Len(array.axis) |->
            [at |-> px[1 + ((k - 1) % n)], axis |-> array.axis[1 + (k - 1) \div n],
             value |-> array.values[1 + (k - 1) \div n][px[1 + ((k - 1) % n)]]]]

\* A scan of an array with a leading axis: its rows, batch by batch.
ZarrScan(array, window, batchRows) ==
    LET tile == BatchTile(window, array.chunk, batchRows, Len(array.axis)) IN
    FlattenSeq([t \in DOMAIN Tiles(window, tile) |-> RecordBatch(array, Tiles(window, tile)[t])])

\* _point_columns: the axis repeats under each point.
PointRows(array, points) ==
    LET a == Len(array.axis) IN
    [k \in 1..Len(points) * a |->
        LET p == points[1 + (k - 1) \div a]
            px == <<Floor(p[1]), Floor(p[2])>>
        IN  [at |-> px, axis |-> array.axis[1 + ((k - 1) % a)], value |-> array.values[1 + ((k - 1) % a)][px]]]

-----------------------------------------------------------------------------
(* GeoTIFF scans, crops and stacks. *)

Valid(raster, px) == raster.values[px] \notin {Missing, raster.nodata}

\* PixelScan._batches: the valid pixels of each strip.
TiffScan(raster, b, bytes) ==
    LET window == TiffWindow(raster, b)
        strips == Strips(window, bytes, 1, raster.block)
        Rows(s) == SelectSeq(InOrder([cols |-> window.cols, rows |-> strips[s]]), LAMBDA px : Valid(raster, px))
    IN  FlattenSeq([s \in DOMAIN strips |->
            [k \in DOMAIN Rows(s) |-> [at |-> Rows(s)[k], value |-> raster.values[Rows(s)[k]]]]])

\* write_crop: a raster of the window's pixels, whose origin is the window's.
Crop(raster, b) ==
    LET w == TiffWindow(raster, b)
        cols == w.cols.stop - w.cols.start
        rows == w.rows.stop - w.rows.start
    IN  [raster EXCEPT !.width = cols, !.height = rows,
            !.values = [px \in (0..cols - 1) \X (0..rows - 1) |->
                            raster.values[<<px[1] + w.cols.start, px[2] + w.rows.start>>]]]

\* The same place in the coordinates of a crop.
Shifted(b, w) ==
    LET x == w.cols.start * Unit
        y == w.rows.start * Unit
    IN  <<b[1] - x, b[2] - y, b[3] - x, b[4] - y>>

\* JRCReturnPeriodRaster: one raster per period, all on one grid.
ValidStack(stack) ==
    /\ stack # <<>>
    /\ \A s \in ToSet(stack) : s.raster.width = stack[1].raster.width
                               /\ s.raster.height = stack[1].raster.height

Ascending(stack) == SortSeq(stack, LAMBDA a, b : a.period < b.period)

\* Mutation of Curves: the files are stacked in the order they were given.
CurvesAsGiven(stack, b, bytes) ==
    LET axis == [i \in DOMAIN stack |-> Ascending(stack)[i].period]
        first == stack[1].raster
        window == TiffWindow(first, b)
        strips == Strips(window, bytes, Len(stack), first.block)
        At(px) == [i \in DOMAIN stack |->
                    IF Valid(stack[i].raster, px) THEN stack[i].raster.values[px] ELSE Missing]
        Rows(s) == SelectSeq(InOrder([cols |-> window.cols, rows |-> strips[s]]),
                             LAMBDA px : ToSet(At(px)) # {Missing})
    IN  FlattenSeq([s \in DOMAIN strips |->
            [k \in DOMAIN Rows(s) |-> [at |-> Rows(s)[k], axis |-> axis, values |-> At(Rows(s)[k])]]])

\* iter_curves: the strips of all files in lock-step, the periods ascending;
\* a pixel with no value in any of them has no curve.
Curves(stack, b, bytes) ==
    LET sorted == Ascending(stack)
        axis == [i \in DOMAIN sorted |-> sorted[i].period]
        first == sorted[1].raster
        window == TiffWindow(first, b)
        strips == Strips(window, bytes, Len(sorted), first.block)
        At(px) == [i \in DOMAIN sorted |->
                    IF Valid(sorted[i].raster, px) THEN sorted[i].raster.values[px] ELSE Missing]
        Rows(s) == SelectSeq(InOrder([cols |-> window.cols, rows |-> strips[s]]),
                             LAMBDA px : ToSet(At(px)) # {Missing})
    IN  FlattenSeq([s \in DOMAIN strips |->
            [k \in DOMAIN Rows(s) |-> [at |-> Rows(s)[k], axis |-> axis, values |-> At(Rows(s)[k])]]])

\* _CFDecoding: sentinels are compared with what is stored, then it is unpacked.
Sentinels(cf) == IF cf.override # Missing THEN {cf.override} ELSE cf.fill \cup cf.missing
Decode(raw, cf) == IF raw \in Sentinels(cf) THEN Missing ELSE raw * cf.scale + cf.offset

-----------------------------------------------------------------------------
(* Samples of H3 cells.  A cell is a square of the plane of `size` units.    *)

CellOf(point, size) == <<point[1] \div size, point[2] \div size>>

\* subsample_offsets, from the pixel's edge; Unit is a multiple of 2 * count.
Offsets(count) == [k \in 1..count |-> ((2 * k - 1) * Unit) \div (2 * count)]

SamplePoints(px, n) ==
    {<<px[1] * Unit + Offsets(n[1])[i], px[2] * Unit + Offsets(n[2])[j]>> : i \in 1..n[1], j \in 1..n[2]}

\* reduce_h3_values: one value for a cell.
ReduceValues(pairs, reduce) ==
    {LET values == {q[2] : q \in {r \in pairs : r[1] = c}} IN
        <<c, IF reduce = "max" THEN Max(values) ELSE Min(values)>> : c \in {p[1] : p \in pairs}}

\* _sample_chunk.
SampleChunk(raster, pixels, n, size, reduce) ==
    ReduceValues(UNION {{<<CellOf(s, size), raster.values[px]>> : s \in SamplePoints(px, n)} : px \in pixels}, reduce)

\* Mutation of H3Scan: the batches are concatenated and not merged.
H3ScanUnmerged(raster, b, bytes, n, chunk, size, reduce) ==
    LET window == TiffWindow(raster, b)
        strips == Strips(window, bytes, 1, raster.block)
        Rows(s) == SelectSeq(InOrder([cols |-> window.cols, rows |-> strips[s]]), LAMBDA px : Valid(raster, px))
        Chunks(s) == Steps(Span(1, Len(Rows(s)) + 1), chunk)
    IN  UNION {UNION {SampleChunk(raster, {Rows(s)[i] : i \in Indices(Chunks(s)[c])}, n, size, reduce)
                         : c \in DOMAIN Chunks(s)} : s \in DOMAIN strips}

\* H3PixelScan.relation: every chunk of every strip is reduced, then all of them.
H3Scan(raster, b, bytes, n, chunk, size, reduce) ==
    LET window == TiffWindow(raster, b)
        strips == Strips(window, bytes, 1, raster.block)
        Rows(s) == SelectSeq(InOrder([cols |-> window.cols, rows |-> strips[s]]), LAMBDA px : Valid(raster, px))
        Chunks(s) == Steps(Span(1, Len(Rows(s)) + 1), chunk)
        parts == UNION {UNION {SampleChunk(raster, {Rows(s)[i] : i \in Indices(Chunks(s)[c])}, n, size, reduce)
                                  : c \in DOMAIN Chunks(s)} : s \in DOMAIN strips}
    IN  ReduceValues(parts, reduce)

\* pixel_grid_resolution: the finest resolution a pixel of this size, with
\* `cap` samples on an axis, has a sample in each cell of.  spacing[r] is
\* max_pixel_spacing_m of resolution r, coarsest first.
Covered(size, cap, spacing) == {r \in DOMAIN spacing : spacing[r] * cap >= size}
Resolution(size, cap, spacing) ==
    IF Covered(size, cap, spacing) = {} THEN 1 ELSE Max(Covered(size, cap, spacing))

\* H3PixelScan._batches: samples on one axis of a pixel.
AxisPoints(size, spacing, cap) == Max({1, Min({CeilDiv(size, spacing), Max({1, cap})})})

Abs(x) == IF x < 0 THEN -x ELSE x

\* The size of a pixel at a latitude; a degree of longitude shrinks towards the
\* poles.
SizeAt(latitude, step) == <<step * (90 - Abs(latitude)), step * 90>>

\* Mutation of TiffReference: the rows' own latitudes, as NetCDF takes them.
TiffReferenceEnds(bottom, top) == Min({Abs(bottom), Abs(top)})

\* GeoTiffRaster.pixel_size_meters: the equator if the raster straddles it.
TiffReference(bottom, top) ==
    IF bottom <= 0 /\ 0 <= top THEN 0
    ELSE IF Abs(bottom) < Abs(top) THEN bottom ELSE top

\* NetCDFRaster.pixel_size_meters.
NetCDFReference(bottom, top) == Min({Abs(bottom), Abs(top)})

-----------------------------------------------------------------------------
(* Properties. *)

\* A window has every pixel the bounds cover by more than the slack and none
\* they do not reach within it; noise on an exact edge adds and loses none; and a point
\* is in the one pixel that a point read of it takes.
WindowIsTouched(low, high, count) ==
    LET tiff == Indices(TiffRange(low, high, count))
        zarr == Indices(ZarrRange(low, high, count))
        exact == low % Unit = 0 /\ high % Unit = 0
    IN  /\ \A i \in 0..count - 1 :
            LET overlap == Min({high, (i + 1) * Unit}) - Max({low, i * Unit}) IN
            /\ overlap > Epsilon => i \in tiff
            /\ overlap > 0 => i \in zarr
            /\ i \in tiff => overlap >= -Epsilon
            /\ i \in zarr => overlap >= 0
        /\ exact /\ low < high =>
            \A d, e \in -Epsilon..Epsilon : Indices(TiffRange(low + d, high + e, count)) = tiff
        /\ low = high /\ low % Unit # 0 => zarr = {Floor(low)} \cap 0..count - 1

\* A sequence of tiles reads each pixel of a window once.
ReadsOnce(window, tiles) ==
    LET Of(t) == Pixels(tiles[t]) IN
    /\ UNION {Of(t) : t \in DOMAIN tiles} = Pixels(window)
    /\ \A t, u \in DOMAIN tiles : t # u => Of(t) \cap Of(u) = {}

\* Every row of a scan has the value of its own pixel and slice, each of them
\* once, whatever the batch and the chunks, within the batch's size if that
\* holds a pixel; and a point read gives a pixel's rows of the scan.
RowsAreAligned(array, window, batchRows) ==
    LET tile == BatchTile(window, array.chunk, batchRows, Len(array.axis))
        rows == ZarrScan(array, window, batchRows)
        points == PointRows(array, <<<<window.cols.start * Unit + 1, window.rows.start * Unit + 1>>,
                                     <<window.cols.stop * Unit - 1, window.rows.start * Unit>>>>)
    IN  /\ ReadsOnce(window, Tiles(window, tile))
        /\ ReadsOnce(window, Tiles(window, <<array.chunk[2], array.chunk[1]>>))
        /\ tile[1] * tile[2] * Len(array.axis) <= Max({batchRows, Len(array.axis)})
        /\ Len(rows) = Cardinality(Pixels(window)) * Len(array.axis)
        /\ ToSet(rows) = {[at |-> px, axis |-> array.axis[a], value |-> array.values[a][px]] :
                            px \in Pixels(window), a \in DOMAIN array.axis}
        /\ ToSet(points) \subseteq ToSet(rows)

\* "a cached crop holds every pixel a stream scan of the same bounds would
\* read": scanning its bounds, or any within them that are wider than the slack
\* of both their edges, gives the same rows.
CropHoldsScan(raster, b, inner, bytes) ==
    LET w == TiffWindow(raster, b)
        crop == TiffScan(Crop(raster, b), Shifted(inner, w), bytes)
    IN  inner = b \/ (inner[1] + 2 * Epsilon < inner[3] /\ inner[2] + 2 * Epsilon < inner[4]) =>
        {[r EXCEPT !.at = <<r.at[1] + w.cols.start, r.at[2] + w.rows.start>>] : r \in ToSet(crop)}
            = ToSet(TiffScan(raster, inner, bytes))

\* A pixel's curve has, at each period, the value of that period's file, in
\* whatever order the files were given, and each pixel with a value has one.
StackIsAligned(stack, b, bytes) ==
    LET curves == Curves(stack, b, bytes)
        window == TiffWindow(stack[1].raster, b)
    IN  ValidStack(stack) =>
        /\ IsInjective([k \in DOMAIN curves |-> curves[k].at])
        /\ \A px \in Pixels(window) :
            (\E k \in DOMAIN curves : curves[k].at = px) <=> \E s \in ToSet(stack) : Valid(s.raster, px)
        /\ \A k \in DOMAIN curves :
            /\ \A i \in 1..Len(stack) - 1 : curves[k].axis[i] < curves[k].axis[i + 1]
            /\ \A s \in ToSet(stack), i \in DOMAIN stack :
                curves[k].axis[i] = s.period =>
                    curves[k].values[i] = IF Valid(s.raster, curves[k].at)
                                          THEN s.raster.values[curves[k].at] ELSE Missing

\* A stored sentinel is missing whatever it unpacks to, and a value that
\* unpacks to a sentinel's number is not.
SentinelsAreStored(raw, cf) ==
    /\ raw \in (IF cf.override = Missing THEN cf.fill \cup cf.missing ELSE {cf.override}) => Decode(raw, cf) = Missing
    /\ Decode(raw, cf) # Missing => (Decode(raw, cf) - cf.offset) = raw * cf.scale
    /\ Decode(raw, cf) = Missing => \E s \in {cf.override} \cup cf.fill \cup cf.missing : s = raw

\* Strips and chunks are invisible in the value of a cell, and every valid
\* pixel is in the cell of its centre at least.
CellsAreReduced(raster, b, bytes, n, chunk, size, reduce) ==
    LET valid == {px \in Pixels(TiffWindow(raster, b)) : Valid(raster, px)} IN
    H3Scan(raster, b, bytes, n, chunk, size, reduce) = SampleChunk(raster, valid, n, size, reduce)

\* With the resolution taken from the pixel's size, the samples are close
\* enough, at every latitude of the raster, that no cell lies between them.
SamplesReachCells(reference, bottom, top, step, cap, spacing) ==
    LET used == SizeAt(reference, step)
        largest == Max({used[1], used[2]})
        r == Resolution(largest, cap, spacing)
    IN  Covered(largest, cap, spacing) # {} =>
            \A latitude \in bottom..top :
                /\ SizeAt(latitude, step)[1] <= AxisPoints(used[1], spacing[r], cap) * spacing[r]
                /\ SizeAt(latitude, step)[2] <= AxisPoints(used[2], spacing[r], cap) * spacing[r]
=============================================================================
