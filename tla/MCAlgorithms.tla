---------------------------- MODULE MCAlgorithms ----------------------------
(***************************************************************************)
(* The pure parts of the system evaluated over bounded inputs: a behaviour *)
(* picks a topic, then an input of it; the invariants say what the         *)
(* topic's operators compute for that input.                               *)
(***************************************************************************)
EXTENDS Integers, FiniteSets, Sequences, SequencesExt, TLC

CONSTANTS Anything, Error, Missing, One, Beyond

VARIABLES topic, input

question == <<topic, input>>

Sel == INSTANCE CRCSelection
Blk == INSTANCE BlockReduction
Fit == INSTANCE CurveFit
Pol == INSTANCE CurvePolicy
Ras == INSTANCE RasterScan WITH Unit <- 12, Epsilon <- 2
Eva == INSTANCE CurveEvaluation WITH ProbeRows <- 2, Cpus <- 2
Por == INSTANCE PortfolioJoin WITH CellSize <- 3
Lim == INSTANCE RuntimeLimits WITH Unlimited <- Anything

-----------------------------------------------------------------------------
(* CRC Open: a release of one sampled hazard with two partitions. *)

Parent == <<"A", "A", "B">>
Row(p, h, c) == [pathway |-> p, horizon |-> h, cell |-> c]
Partition(r0, cells, horizons, rows) ==
    [r0 |-> r0, cells |-> cells, horizons |-> horizons, rows |-> rows]

\* What a publisher may say of its rows: nothing, the truth, or something else.
Declared(truth) == {Anything, truth, {1}}
DeclaredYears(truth) == {{}, truth, {2}}

Catalog(parts) ==
    [pathways |-> {"p", "q"}, excluded |-> {"other"},
     hazards |-> [h \in {"heat"} |->
        [pathways |-> {"p", "q"}, horizons |-> {1, 2}, partitions |-> parts]]]

Partitions(r0, rows) ==
    {Partition(r0, c, h, rows) : c \in Declared({r.cell : r \in rows}),
                                 h \in DeclaredYears({r.horizon : r \in rows})}

SelectionStart == SUBSET {Row("p", 1, 1), Row("p", 2, 2), Row("q", 1, 2)} \ {{}}

SelectionPlans ==
    {Sel!Plan("p", area, hazards, years) : area \in {Anything, {1}, {2}, {3}, {2, 3}},
        hazards \in {{}, {"heat"}}, years \in {Anything, {1}, {2}}}

SelectionInputs(rows) ==
    [catalog : {Catalog({a, b}) : a \in Partitions("A", rows),
        b \in UNION {Partitions("B", r) : r \in {{Row("p", 1, 3)}, {Row("p", 2, 3), Row("q", 2, 3)}}}},
     plan : SelectionPlans,
     sel : [pathways : {Anything}, hazards : {{"heat"}}, horizons : {Anything, {1}, {1, 2}}]]

\* A call that raises can be told from what a call returns.
ASSUME SelectionAssumption ==
    \A rows \in SelectionStart : \A i \in SelectionInputs(rows) : Sel!ErrorIsApart(i.plan, i.catalog)

ChooseSelection ==
    /\ topic = "selection" /\ input.step = 0
    /\ \E i \in SelectionInputs(input.data) : input' = [step |-> 1, data |-> i]
    /\ UNCHANGED topic

\* Pruning partitions and narrowing a plan never change the rows that come out.
SelectionIsInvisible ==
    topic = "selection" /\ input.step = 1 =>
        LET i == input.data IN
        /\ Sel!PruningIsInvisible(i.plan, i.catalog, Parent)
        /\ Sel!NarrowingIsInvisible(i.plan, i.sel, i.catalog, Parent)

-----------------------------------------------------------------------------
(* Blocks, days, curves, windows and strips. *)

Seasons == {[i \in 1..n |-> ((first + i - 2) % 12) + 1] : n \in 1..11, first \in 1..12}

Definitions ==
    {[kind |-> "annual"]} \cup {[kind |-> "water_year", start |-> s] : s \in 2..12}
        \cup {[kind |-> "season", months |-> m] : m \in Seasons}

Statistics ==
    {[kind |-> k, window |-> w] : k \in {"max", "min"}, w \in 1..2}
        \cup {[kind |-> k, window |-> 1, threshold |-> 0] : k \in {"count_above", "count_below"}}

Agg(ends, offset) ==
    [how |-> "sum", step |-> 12, valid |-> <<3, 4>>, offset |-> offset, endStamps |-> ends]

Grids(circle) == {[i \in 1..n |-> 4 * i + 2 * off] :
                    n \in {2, circle \div 4}, off \in -(circle \div 4) - 2..(circle \div 2) - 2}

BlockStart == {"definition", "days", "statistic", "curve", "window", "strips", "runs"}

BlockInputs(what) ==
    CASE what = "definition" -> Definitions
      [] what = "days" ->
            {[samples |-> [t \in {off + 12 * i : i \in 0..5} |-> v[(t - off) \div 12]],
              agg |-> Agg(ends, zone)] :
                v \in [0..5 -> {1, 5, Missing}], off \in {-12, 0}, ends \in BOOLEAN,
                zone \in {-12, 0, 12}}
      [] what = "statistic" ->
            {[days |-> d, stat |-> s, valid |-> f] :
                d \in UNION {[1..n -> {-1, 0, 2, Missing}] : n \in {0, 1, 4}},
                s \in Statistics, f \in {<<0, 1>>, <<3, 4>>}}
      [] what = "curve" ->
            {[blocks |-> b, tail |-> t, minimum |-> m] :
                b \in [1..5 -> {1, 2, 3, Missing}], t \in {"upper", "lower"}, m \in {4, 5}}
      [] what = "window" ->
            {[lon |-> g, low |-> a, high |-> b] : g \in Grids(16), a \in -8..8, b \in -8..8}
      [] what = "strips" ->
            {[budget |-> b, width |-> w, height |-> h, leading |-> l, rows |-> r] :
                b \in {1, 7, 12, 24}, w \in 1..3, h \in 1..3, l \in 1..3, r \in 1..7}
      [] what = "runs" -> UNION {[1..n -> 0..3] : n \in 0..4}

ChooseBlocks ==
    /\ topic = "blocks" /\ input.step = 0
    /\ \E i \in BlockInputs(input.data) : input' = [step |-> 1, what |-> input.data, data |-> i]
    /\ UNCHANGED topic

\* Blocks partition the calendar, intervals fall in their local day, and a gap
\* in a record never makes an extreme more severe, nor a count lower by more than
\* the days that may be missing.
BlocksAreHonest ==
    topic = "blocks" /\ input.step = 1 =>
        LET i == input.data IN
        /\ input.what = "definition" =>
            /\ i.kind = "season" => Blk!ValidSeason(i.months)
            /\ \A label \in 2000..2001 : Blk!BlocksPartitionTime(i, label)
        /\ input.what = "days" => Blk!IntervalsFallInTheirDay(i.samples, i.agg, 2)
        /\ input.what = "statistic" => Blk!GapsAreBounded(i.days, i.stat, i.valid)
        /\ input.what = "curve" => Blk!SeverityHasThePeriod(i.blocks, i.tail, i.minimum)

\* A window covers what the grid has of its bounds, its columns are read in
\* runs and its rows in strips, each of them once.
WindowsCoverTheirBounds ==
    topic = "blocks" /\ input.step = 1 =>
        LET i == input.data IN
        /\ input.what = "window" /\ i.low <= i.high => Blk!WindowCovers(i.lon, i.low, i.high, 16)
        /\ input.what = "window" /\ i.low <= i.high =>
            /\ Blk!RangeIsExact(i.lon, i.low, i.high)
            /\ Blk!RangeIsExact(Reverse(i.lon), i.low, i.high)
        /\ input.what = "strips" =>
            Blk!StripsTileTheWindow(i.budget, i.width, i.height, i.leading, 1, 1 + i.rows)
        /\ input.what = "runs" => Blk!RunsAreTheColumns(i)

-----------------------------------------------------------------------------
(* Curves: two names of one hazard, rows of up to six labels. *)

Policies ==
    {p \in [tail : {"upper", "lower"}, families : {<<"gev", "gumbel">>}, acceptable : {{}, {"gumbel"}},
            failure : {"tabulated", "skip"}, short : {"tabulated", "reject"}, bound : {Missing, 1},
            floor : {Missing}, knots : {0, 3}, distinct : {0},
            registry : {Missing, [floor |-> 1, knots |-> Missing, distinct |-> 2]},
            overrides : {<<>>, "own" :> 1, "alias" :> 2, ("own" :> 1) @@ ("alias" :> 3)},
            version : {"1.3"}] :
        Fit!ValidPolicy(p) /\ (p.failure = "skip" <=> p.short = "reject")}

Periods == {<<2, 3, 4, 5, 6>>, <<6, 2, 5, 3, 4>>, <<2, 6, 3>>, <<4, 4>>, <<1, 2>>, <<>>}
Probabilities == {<<0, 20, 30, 40, One>>, <<0, 12, One>>, <<0, 24, 36, One>>}
Rising(n) == {v \in [1..n -> 0..2] : \A i \in 1..n - 1 : v[i] <= v[i + 1]}

\* Values in the order of the axis' probabilities, and some that are not.
CurveRows(kind, axis) ==
    LET n == Len(axis) IN
    {[kind |-> kind, axis |-> axis, values |-> [i \in 1..n |-> v[Cardinality({j \in 1..n : axis[j] <= axis[i]})]]] :
        v \in Rising(n) \cup (IF n = 5 THEN {<<0, 1, 0, 1, 2>>, <<0, 1, Missing, 2, 2>>} ELSE {})}
    \cup {[kind |-> kind, axis |-> axis, values |-> <<0>>]}

CurveStart == {<<"periods", a>> : a \in Periods} \cup {<<"shared", a>> : a \in Probabilities}
                  \cup {<<"quantiles", 6>>, <<"samples", 5>>}

CurveInputs(kind, what) ==
    CASE kind = "quantiles" ->
            {[base |-> b, bound |-> v] : v \in 0..2,
                b \in {f \in [0..what -> 0..3] : \A p \in 1..what : f[p - 1] <= f[p]}}
      [] kind = "samples" ->
            {[samples |-> s, count |-> what, bound |-> b] :
                s \in UNION {[1..n -> -1..2] : n \in {1, 2, 3, 5}}, b \in {Missing, 0}}
      [] OTHER -> {[row |-> r, policy |-> p] : r \in CurveRows(kind, what), p \in Policies}

ChooseCurve ==
    /\ topic = "curves" /\ input.step = 0
    /\ \E i \in CurveInputs(input.data[1], input.data[2]) :
            input' = [step |-> 1, what |-> input.data[1], data |-> i]
    /\ UNCHANGED topic

\* The axis, the screens, the fallback and the bound keep what the row says.
CurvesAreFaithful ==
    topic = "curves" /\ input.step = 1 =>
        LET i == input.data
            labels == <<"own", "alias">>
        IN
        CASE input.what = "quantiles" -> Fit!BoundKeepsQuantiles(i.base, i.bound)
          [] input.what = "samples" -> Fit!ResamplingIsFaithful(i.samples, i.count, i.bound)
          [] OTHER ->
                /\ Fit!PeriodsReadBack(i.row, i.policy, labels)
                /\ Fit!ScreensAreOrdered(i.row, i.policy, labels)
                /\ LET row == Fit!PrepareRow(i.row, i.policy) IN
                   row.kind = "knots" /\ Missing \notin ToSet(i.row.values) => Fit!CompactIsExact(row.knots)

-----------------------------------------------------------------------------
(* Ingest policies: the primary and the fallback family of a pixel, each of    *)
(* them good or bad in one way.                                                *)

PolicySources ==
    [tail : {Missing, "upper", "lower"}, axis : {"return period", "other"}, samples : BOOLEAN]

IngestPolicies(method) ==
    {p \in [method : {method}, family : {"genextreme", "gumbel_r", "norm"},
            hurdle : {Missing, [atom |-> 30], [atom |-> 100]}, fallback : {Missing, "gumbel_l", "norm"},
            diagnostics : BOOLEAN, support : BOOLEAN, periods : {{}, {10}, {Beyond}},
            low : {Missing, 1}, high : {Missing, 3}, rmse : {Missing, 1}, residual : {Missing},
            tail : {"upper", "lower"}, failure : {"raise", "skip"}] :
        p.diagnostics = (p.fallback # Missing) /\ Pol!ValidPolicy(p)}

Good == [sound |-> TRUE, converged |-> TRUE, rmse |-> 0, residual |-> 0, support |-> <<0, 9>>,
         level |-> 2, mass |-> 50]
Outcomes ==
    {Good, [Good EXCEPT !.sound = FALSE], [Good EXCEPT !.converged = FALSE], [Good EXCEPT !.rmse = 2],
     [Good EXCEPT !.support = <<0, 3>>], [Good EXCEPT !.level = 4], [Good EXCEPT !.mass = 100]}

Pixels ==
    {[values |-> v, cells |-> c] : c \in {{}, {1, 2}},
        v \in {<<1, 2, 3, 4>>, <<1, 2, 3>>, <<1, Missing, 2, 4, 4>>, <<4, 2, 1, 3>>, <<2, 2, 2, 2>>}}

PolicyStart == {"quantile_least_squares", "censored_quantile"} \cup Pol!SampleMethods

ChoosePolicy ==
    /\ topic = "policies" /\ input.step = 0
    /\ \E p \in IngestPolicies(input.data) : input' = [step |-> 1, data |-> p]
    /\ UNCHANGED topic

\* A field that is None is neither a number nor one of the reasons of a record.
ASSUME PoliciesAssumption ==
    Missing \notin Int \cup {"too_few_knots", "censored_fit_failed", "fit_failed", "no_cells"}

\* A policy that can be made can be met, what it lets through passes its gates,
\* and the records say what was tried.
PoliciesAreMet ==
    topic = "policies" /\ input.step = 1 =>
        LET p == input.data
            sources == {s \in PolicySources : Pol!Accepts(p, s)}
        IN
        \A pixel \in Pixels, a \in Outcomes, b \in IF p.fallback = Missing THEN {Good} ELSE Outcomes :
            LET fits == [f \in {"genextreme", "gumbel_r", "gumbel_l", "norm"} |->
                            IF f = p.family THEN a ELSE b]
            IN  /\ Pol!PublishedCurvesPass(pixel, p, fits)
                /\ Pol!AcceptedPoliciesFit(pixel, p, fits)
                /\ \A source \in sources : Pol!RecordsAccount(pixel, p, source, fits)

-----------------------------------------------------------------------------
(* Rasters of 3 x 3 pixels of 12 units.                                        *)

Grid3 == (0..2) \X (0..2)
Raster(v, block) == [width |-> 3, height |-> 3, nodata |-> 9, block |-> block, values |-> v]

\* Some nodata, some missing, and values that tell the pixels apart.
RasterValues ==
    {[px \in Grid3 |-> CASE px \in none -> 9 [] px = bad -> Missing [] OTHER -> 10 + px[1] + 3 * px[2]] :
        none \in {{}, {<<1, 1>>}, Grid3 \ {<<0, 2>>}, (1..2) \X (0..1)}, bad \in {<<0, 0>>, <<2, 2>>}}

Areas12 == {<<a, b, c, d>> : a \in {-5, 0, 14}, b \in {1, 12}, c \in {14, 25, 36}, d \in {12, 13, 40}}
ValidAreas == {b \in Areas12 : b[1] <= b[3] /\ b[2] <= b[4]}
Intersecting(w) == w.cols.start < w.cols.stop /\ w.rows.start < w.rows.stop

RasterStart == {"windows", "arrays", "crops", "stacks", "packed", "cells", "sizes"}

RasterInputs(what) ==
    CASE what = "windows" -> {[low |-> a, high |-> b] : a \in -14..40, b \in -14..40}
      [] what = "arrays" ->
            {[array |-> [axis |-> axis, chunk |-> c,
                         values |-> [i \in DOMAIN axis |-> [px \in Grid3 |-> 100 * i + 10 * px[1] + px[2]]]],
              window |-> Ras!TiffWindow(Raster([px \in Grid3 |-> 0], 1), b), rows |-> n] :
                axis \in {<<5>>, <<5, 10, 20>>}, c \in (1..3) \X (1..3), b \in ValidAreas,
                n \in {1, 4, 6, 30}}
      [] what = "crops" ->
            {[raster |-> Raster(v, block), b |-> b, inner |-> i, bytes |-> n] :
                v \in RasterValues, block \in 1..2, b \in ValidAreas, i \in ValidAreas, n \in {1, 4}}
      [] what = "stacks" ->
            {[stack |-> [i \in DOMAIN p |-> [period |-> p[i], raster |-> Raster(v[1 + (p[i] % 2)], block)]],
              b |-> b, bytes |-> n] :
                p \in {<<10>>, <<100, 11>>, <<21, 500, 100>>}, v \in RasterValues \X RasterValues,
                b \in {<<0, 0, 36, 36>>, <<14, 1, 36, 13>>}, block \in 1..2, n \in {1, 12}}
      [] what = "packed" ->
            {[raw |-> r, cf |-> [override |-> o, fill |-> f, missing |-> m, scale |-> s, offset |-> k]] :
                r \in -3..3, o \in {Missing, 2}, f \in {{}, {-1}}, m \in {{}, {3}}, s \in {1, 3},
                k \in {0, 4}}
      [] what = "cells" ->
            {[raster |-> Raster(v, 1), b |-> b, bytes |-> 3, n |-> n, chunk |-> c, size |-> z, reduce |-> r] :
                v \in RasterValues, b \in {<<0, 0, 36, 36>>, <<14, 1, 36, 13>>}, n \in (1..3) \X {2},
                c \in {1, 2, 9}, z \in {5, 20}, r \in {"max", "min"}}
      [] what = "sizes" ->
            {[bottom |-> a, top |-> b, step |-> s, cap |-> c, spacing |-> <<900, 300, 100, 40, 15>>] :
                a \in -85..85, b \in {-80, -10, 0, 40, 85}, s \in 1..2, c \in 1..3}

ChooseRaster ==
    /\ topic = "rasters" /\ input.step = 0
    /\ \E i \in RasterInputs(input.data) : input' = [step |-> 1, what |-> input.data, data |-> i]
    /\ UNCHANGED topic

\* Whatever the strips, chunks and crops, each pixel is read once with its own
\* values, and no cell is between the samples.
RastersAreRead ==
    topic = "rasters" /\ input.step = 1 =>
        LET i == input.data IN
        CASE input.what = "windows" -> i.low <= i.high => Ras!WindowIsTouched(i.low, i.high, 3)
          [] input.what = "arrays" ->
                Intersecting(i.window) => Ras!RowsAreAligned(i.array, i.window, i.rows)
          [] input.what = "crops" ->
                LET b == i.b
                    c == i.inner
                    Within(w) == Intersecting(Ras!TiffWindow(i.raster, w))
                IN  /\ Within(b) /\ Within(c) /\ b[1] <= c[1] /\ b[2] <= c[2] /\ c[3] <= b[3] /\ c[4] <= b[4] =>
                        Ras!CropHoldsScan(i.raster, b, c, i.bytes)
          [] input.what = "stacks" -> Ras!StackIsAligned(i.stack, i.b, i.bytes)
          [] input.what = "packed" -> Ras!SentinelsAreStored(i.raw, i.cf)
          [] input.what = "cells" ->
                Ras!CellsAreReduced(i.raster, i.b, i.bytes, i.n, i.chunk, i.size, i.reduce)
          [] input.what = "sizes" ->
                i.bottom <= i.top =>
                    Ras!SamplesReachCells(Ras!TiffReference(i.bottom, i.top), i.bottom, i.top, i.step,
                                          i.cap, i.spacing)

\* "Evaluated at the grid's most-equator-ward row, [...] so the result is a
\* conservative (largest) estimate for the whole raster".
NetCDFSamplesReachCells ==
    topic = "rasters" /\ input.step = 1 /\ input.what = "sizes" =>
        LET i == input.data IN
        i.bottom <= i.top =>
            Ras!SamplesReachCells(Ras!NetCDFReference(i.bottom, i.top), i.bottom, i.top, i.step,
                                  i.cap, i.spacing)

-----------------------------------------------------------------------------
(* Evaluation: rows of curves at return periods. *)

CurveRow(kind, curve, sign, cell, country) ==
    [kind |-> kind, curve |-> curve, sign |-> sign,
     context |-> [cell |-> cell, country |-> country]]

EvaluationRows ==
    {CurveRow("plain", 0, 1, 1, Missing), CurveRow("plain", 0, -1, 1, "FR"),
     CurveRow("plain", 2, 1, Missing, "FR"), CurveRow("list", 2, 1, 1, Missing),
     CurveRow("no_data", 0, 1, 1, Missing)}
Invalid == CurveRow("invalid", 0, 1, 1, Missing)

EvaluatedPeriods == {100, 105, 150, 1000, 10000}
EvaluationStart == SeqOf(EvaluationRows, 3) \cup {<<Invalid>>}

EvaluationInputs(rows) ==
    [what : {"stream"}, batches : {<<rows>>, <<rows, <<>>, rows>>}, chunk : 1..2, workers : {Missing, 1, 2},
     impact : {Missing, [base |-> [cell |-> 9, country |-> "XX"], columns |-> {"country"}]},
     columns : {<<"rp10">>, <<"rp10", "rp2">>, <<"cell">>}]
    \cup IF rows = <<>> THEN [what : {"periods"}, periods : SeqOf(EvaluatedPeriods, 3)] ELSE {}

\* A call that raises, and a value that is missing, can be told from results.
ASSUME EvaluationAssumption ==
    /\ Missing \notin {9, "XX"}
    /\ \A rows \in EvaluationStart : \A i \in EvaluationInputs(rows) :
        CASE i.what = "periods" -> Eva!PeriodsAreApart(i.periods)
          [] i.what = "stream" -> Eva!ResultsAreApart(FlattenSeq(i.batches), <<<<9, 10>>>>, i.impact)

ChooseEvaluation ==
    /\ topic = "evaluation" /\ input.step = 0
    /\ \E i \in EvaluationInputs(input.data) : input' = [step |-> 1, data |-> i]
    /\ UNCHANGED topic

\* Values and names of return periods, and of rows whichever way they are evaluated.
CurvesAreEvaluated ==
    topic = "evaluation" /\ input.step = 1 =>
        LET i == input.data IN
        CASE i.what = "periods" -> Eva!PeriodsAreMapped(i.periods)
          [] i.what = "stream" ->
                Eva!EvaluationIsPerRow(i.batches, <<<<9, 10>>>>, i.columns, {"cell"},
                    [chunk |-> i.chunk, workers |-> i.workers, impact |-> i.impact])

-----------------------------------------------------------------------------
(* Portfolios: two cells of two points; one or two hazards. *)

Filter(hazards) == [hazard_name |-> hazards]
Curve(cell, hazard, geometry, source, value) ==
    [cell |-> cell, scenario |-> [hazard_name |-> hazard], geometry |-> geometry,
     source |-> source, value |-> value]

PortfolioCurves ==
    {Curve(0, "flood", Missing, 1, 5), Curve(0, "flood", Missing, 2, 7),
     Curve(0, "flood", <<0, 2>>, 3, 3), Curve(0, "flood", <<2, 6>>, 4, 4),
     Curve(0, "flood", <<-3, 3>>, 5, 9), Curve(0, "heat", Missing, 6, Missing),
     Curve(1, "flood", <<2, 6>>, 7, 1)}
PortfolioAssets ==
    {<<[id |-> "a", at |-> x]>> : x \in 0..4 \cup {Missing}}
    \cup {<<[id |-> id, at |-> 0], [id |-> "a", at |-> x]>> : id \in {"a", "b", Missing}, x \in {0, 1, 3}}

PortfolioStart == {[curves |-> c] : c \in {d \in SUBSET PortfolioCurves : Cardinality(d) \in 1..3}}
                  \cup {[columns |-> c] : c \in SUBSET {"asset_id", "longitude", "latitude",
                                          "cell_index", "horizon", "rp10", "name"}}
Locations ==
    {Missing, [kind |-> "cell", name |-> "cell_index"], [kind |-> "cell", name |-> "name"],
     [kind |-> "point", lon |-> "longitude", lat |-> "horizon"]}

PortfolioInputs(start) ==
    IF "columns" \in DOMAIN start
    THEN {[what |-> "columns", columns |-> start.columns, id |-> id, location |-> l, context |-> c] :
            id \in {"asset_id", "horizon", "name"}, l \in Locations, c \in {<<>>, <<"name">>}}
    ELSE {[what |-> "join", curves |-> start.curves, assets |-> a, point |-> p, provider |-> q,
           tail |-> t, filter |-> f] :
            a \in PortfolioAssets, p \in BOOLEAN, q \in {"jrc", "byo"}, t \in {"upper", "lower"},
            f \in {Por!Select(Filter(Missing), Filter(h)) : h \in {Missing, {"flood"}, {}}}}

ChoosePortfolio ==
    /\ topic = "portfolios" /\ input.step = 0
    /\ \E i \in PortfolioInputs(input.data) : input' = [step |-> 1, data |-> i]
    /\ UNCHANGED topic

\* Columns and curves of assets.
PortfoliosAreJoined ==
    topic = "portfolios" /\ input.step = 1 =>
        LET i == input.data IN
        CASE i.what = "columns" ->
                Por!AcceptedColumnsAreWritten(i.columns, i.id, i.location, {"rp10"}, i.context)
          [] i.what = "join" ->
                Por!EveryAssetHasItsCurve(i.assets, i.curves, i.filter, i.point, i.provider, i.tail)

-----------------------------------------------------------------------------
(* Runtime limits: hosts of 1 to 8 processors and half a GiB to 100 GiB. *)

Groups == [memory : {Missing, Error, Anything, 10, 200}, cpu : {Missing, Anything, <<150, 100>>, <<5, 0>>}]
LimitStart == [own : Groups, scoped : BOOLEAN]
              \cup [extensions : {<<>>, <<"h3">>, <<"spatial", "h3">>}]

Stored ==
    [cached : BOOLEAN, install : {"ok", "io", "other"}, force : {"ok", "io"}, loads : BOOLEAN]

\* The group of a container is the mount root, or has a control file below it.
Host(start, other, cpus, memory, free, legacy) ==
    [cpus |-> cpus, affinity |-> IF cpus = 8 THEN 4 ELSE Missing, memory |-> memory, free |-> free,
     scoped |-> start.scoped, own |-> "path",
     files |-> [root |-> IF start.scoped THEN start.own ELSE other,
                own |-> IF start.scoped THEN [memory |-> Missing, cpu |-> Missing] ELSE start.own,
                memory1 |-> legacy, cpu1 |-> IF legacy = Missing THEN Missing ELSE <<300, 100>>]]

Connections(extensions) ==
    [what : {"connect"}, extensions : {extensions}, store : [{"spatial", "h3"} -> Stored],
     setup : {<<>>, <<TRUE>>, <<FALSE, TRUE>>, <<TRUE, FALSE>>}]

Hosts(start) ==
    {Host(start, [memory |-> 200, cpu |-> o], c, m, f, v) :
        o \in {Anything, <<100, 100>>}, c \in {1, 8}, m \in {10, 2000}, f \in {10, 4000}, v \in {Missing, 60}}

LimitInputs(start) ==
    IF "own" \notin DOMAIN start THEN Connections(start.extensions)
    ELSE IF ~start.scoped /\ ~Lim!Exists(start.own) THEN {}
    ELSE [what : {"limits"}, host : Hosts(start),
          env : [threads : {Missing, Error, 3}, perThread : {Missing, Anything, 1}, memory : {Missing}],
          extensions : {<<>>, <<"spatial">>}, config : {<<>>, [threads |-> 2]}]

ASSUME LimitsAssumption ==
    /\ Missing # Error /\ Missing # Anything /\ Error # Anything
    /\ {Missing, Error, Anything} \cap Int = {} /\ Missing # "path"
    /\ \A start \in LimitStart : \A i \in LimitInputs(start) :
        i.what = "limits" => Lim!ErrorIsApart(i.host, i.env, i.extensions, i.config)

ChooseLimits ==
    /\ topic = "limits" /\ input.step = 0
    /\ \E i \in LimitInputs(input.data) : input' = [step |-> 1, data |-> i]
    /\ UNCHANGED topic

\* Limits of a container and connections that fail to open.
LimitsAreKept ==
    topic = "limits" /\ input.step = 1 =>
        LET i == input.data IN
        CASE i.what = "limits" -> Lim!LimitsAreEnforced(i.host, i.env, i.extensions, i.config)
          [] i.what = "connect" -> Lim!ConnectionIsWhole([threads |-> 2], i.extensions, i.store, i.setup)

-----------------------------------------------------------------------------
(* A behaviour.  The names leave Init, Next and Spec to a machine that a module *)
(* extends beside this one.                                                    *)

ChooseTopic ==
    \E start \in {<<"selection", s>> : s \in SelectionStart}
                 \cup {<<"blocks", s>> : s \in BlockStart}
                 \cup {<<"curves", s>> : s \in CurveStart}
                 \cup {<<"policies", s>> : s \in PolicyStart}
                 \cup {<<"rasters", s>> : s \in RasterStart}
                 \cup {<<"evaluation", s>> : s \in EvaluationStart}
                 \cup {<<"portfolios", s>> : s \in PortfolioStart}
                 \cup {<<"limits", s>> : s \in LimitStart} :
        topic = start[1] /\ input = [step |-> 0, data |-> start[2]]

Choose ==
    \/ ChooseSelection \/ ChooseBlocks \/ ChooseCurve \/ ChoosePolicy \/ ChooseRaster
    \/ ChooseEvaluation \/ ChoosePortfolio \/ ChooseLimits

Asked == ChooseTopic /\ [][Choose]_question
=============================================================================
